-------------------------- MODULE PacketPathProofs --------------------------
(* What is published and subscribed survives packet_handler.c, the broker and *)
(* the listener, for topics and data of every length and for all buffer sizes *)
(* that PacketPath allows.                                                     *)
EXTENDS PacketPath, SequenceTheorems, TLAPS

-----------------------------------------------------------------------------
(* Memory *)

LEMMA Sizes ==
    /\ HeaderSize \in Nat /\ HeaderSize > 0
    /\ PacketSize \in Nat /\ PacketSize > HeaderSize
    /\ BodySize \in Nat /\ BodySize > 0 /\ BodySize = PacketSize - HeaderSize
    /\ LengthSpace \in Nat /\ PacketSize <= LengthSpace
    /\ MaxByte \in Nat /\ MaxByte >= 3 /\ TopicBuf = MaxByte + 1
    /\ CtrlBuf \in Nat /\ CtrlBuf > HeaderSize
    /\ EventTopic \in Nat \ {0} /\ AppTopic \in Nat \ {0}
  BY PacketAssumption, PathAssumption DEF BodySize

\* An array of n bytes is a sequence of length n.
LEMMA ArrayFacts ==
    ASSUME NEW n \in Nat, NEW buf \in [1 .. n -> Byte]
    PROVE  buf \in Seq(Byte) /\ Len(buf) = n
  OBVIOUS

\* memcpy changes Len(s) bytes from off on, and no other.
LEMMA OverwriteFacts ==
    ASSUME NEW n \in Nat, NEW buf \in [1 .. n -> Byte],
           NEW off \in Nat, NEW s \in Seq(Byte)
    PROVE  /\ Overwrite(buf, off, s) \in [1 .. n -> Byte]
           /\ \A i \in 1 .. n : Overwrite(buf, off, s)[i] =
                 IF i > off /\ i <= off + Len(s) THEN s[i - off] ELSE buf[i]
<1>1. Len(buf) = n
  BY ArrayFacts
<1>2. \A i \in 1 .. n : (i > off /\ i <= off + Len(s)) => s[i - off] \in Byte
  BY ElementOfSeq
<1> QED
  BY <1>1, <1>2 DEF Overwrite

\* The n bytes behind the first off.
LEMMA BytesFacts ==
    ASSUME NEW m \in Nat, NEW buf \in [1 .. m -> Byte],
           NEW off \in Nat, NEW n \in Nat, off + n <= m
    PROVE  /\ Bytes(buf, off, n) \in Seq(Byte)
           /\ Len(Bytes(buf, off, n)) = n
           /\ \A i \in 1 .. n : Bytes(buf, off, n)[i] = buf[off + i]
<1>1. off + 1 \in Int /\ off + n \in Int
  OBVIOUS
<1>2. \A i \in (off + 1) .. (off + n) : buf[i] \in Byte
  OBVIOUS
<1>3. /\ SubSeq(buf, off + 1, off + n) \in Seq(Byte)
      /\ Len(SubSeq(buf, off + 1, off + n)) =
            IF off + 1 <= off + n THEN (off + n) - (off + 1) + 1 ELSE 0
      /\ \A i \in 1 .. (off + n) - (off + 1) + 1 :
            SubSeq(buf, off + 1, off + n)[i] = buf[(off + 1) + i - 1]
  BY <1>1, <1>2, SubSeqProperties
<1>4. \A i \in 1 .. n : i \in 1 .. (off + n) - (off + 1) + 1 /\ (off + 1) + i - 1 = off + i
  OBVIOUS
<1>5. (IF off + 1 <= off + n THEN (off + n) - (off + 1) + 1 ELSE 0) = n
  OBVIOUS
<1> QED
  BY <1>3, <1>4, <1>5 DEF Bytes

\* The same at the start of an array, for the arrays of the program.
LEMMA OverwriteStart ==
    ASSUME NEW n \in Nat, NEW buf \in [1 .. n -> Byte], NEW s \in Seq(Byte)
    PROVE  /\ Overwrite(buf, 0, s) \in [1 .. n -> Byte]
           /\ \A i \in 1 .. n : Overwrite(buf, 0, s)[i] = IF i <= Len(s) THEN s[i] ELSE buf[i]
<1>1. Len(buf) = n
  BY ArrayFacts
<1>2. \A i \in 1 .. n : i - 0 = i /\ 0 + Len(s) = Len(s) /\ i > 0
  OBVIOUS
<1>3. \A i \in 1 .. n : i <= Len(s) => s[i] \in Byte
  BY ElementOfSeq
<1> QED
  BY <1>1, <1>2, <1>3 DEF Overwrite

LEMMA BytesStart ==
    ASSUME NEW m \in Nat, NEW buf \in [1 .. m -> Byte], NEW n \in Nat, n <= m
    PROVE  /\ Bytes(buf, 0, n) \in Seq(Byte)
           /\ Len(Bytes(buf, 0, n)) = n
           /\ \A i \in 1 .. n : Bytes(buf, 0, n)[i] = buf[i]
<1>1. /\ Bytes(buf, 0, n) \in Seq(Byte)
      /\ Len(Bytes(buf, 0, n)) = n
      /\ \A i \in 1 .. n : Bytes(buf, 0, n)[i] = buf[0 + i]
  <2>1. 0 \in Nat /\ 0 + n <= m
    OBVIOUS
  <2> QED BY <2>1, BytesFacts
<1> QED
  BY <1>1

\* strlen of an array whose first l bytes are not NUL and whose next one is.
LEMMA StrLenFacts ==
    ASSUME NEW n \in Nat, NEW buf \in [1 .. n -> Byte],
           NEW l \in Nat, l < n, buf[l + 1] = NUL,
           \A i \in 1 .. l : buf[i] # NUL
    PROVE  StrLen(buf) = l
<1> DEFINE P(i) == buf[i] = NUL /\ \A j \in 1 .. i - 1 : buf[j] # NUL
<1>1. Len(buf) = n
  BY ArrayFacts
<1>2. l + 1 \in 1 .. n /\ P(l + 1)
  OBVIOUS
<1>3. \A i \in 1 .. n : P(i) => i = l + 1
  <2> SUFFICES ASSUME NEW i \in 1 .. n, P(i) PROVE i = l + 1
    OBVIOUS
  <2>1. ~(i <= l)
    OBVIOUS
  <2>2. ~(l + 1 < i)
    <3>1. l + 1 < i => l + 1 \in 1 .. i - 1
      OBVIOUS
    <3> QED BY <3>1
  <2> QED
    BY <2>1, <2>2
<1> HIDE DEF P
<1>4. (CHOOSE i \in 1 .. n : P(i)) = l + 1
  BY <1>2, <1>3
<1> QED
  BY <1>1, <1>4 DEF StrLen, P

\* strncpy into n bytes keeps a prefix; an empty string stays empty.
LEMMA CutEmpty ==
    ASSUME NEW n \in Nat \ {0}
    PROVE  Cut(<<>>, n) = <<>>
<1>1. Len(<<>>) = 0
  OBVIOUS
<1>2. SubSeq(<<>>, 1, 0) = <<>>
  BY SubSeqEmpty
<1> QED
  BY <1>1, <1>2 DEF Cut

-----------------------------------------------------------------------------
(* The datagrams of this library *)

\* A topic and data that serialize_message accepts.
Sendable(t, x) == t \in Seq(Byte \ {NUL}) /\ x \in Seq(Byte) /\ Fits(t, x, PacketSize)

\* The datagram for them, with no length wrapped around.
MessageOf(type, qos, t, x) ==
    [type |-> type, qos |-> qos, length |-> 1 + Len(t) + Len(x),
     body |-> <<Len(t)>> \o t \o x, size |-> HeaderSize + 1 + Len(t) + Len(x)]

ControlOf(ctrl) ==
    [type |-> "CONTROL", qos |-> 2, length |-> 1, body |-> <<ctrl>>, size |-> HeaderSize + 1]

LEMMA SendableFacts ==
    ASSUME NEW t, NEW x, Sendable(t, x)
    PROVE  /\ t \in Seq(Byte) /\ x \in Seq(Byte)
           /\ Len(t) \in Nat /\ Len(x) \in Nat /\ Len(t) <= MaxByte
           /\ Len(t) \in Byte
           /\ 1 + Len(t) + Len(x) <= BodySize
           /\ 1 + Len(t) + Len(x) < LengthSpace
           /\ \A i \in 1 .. Len(t) : t[i] # NUL
<1>1. t \in Seq(Byte \ {NUL}) /\ x \in Seq(Byte) /\ Fits(t, x, PacketSize)
  BY DEF Sendable
<1>2. t \in Seq(Byte)
  BY <1>1, SeqMonotonic
<1>3. \A i \in 1 .. Len(t) : t[i] # NUL
  BY <1>1, ElementOfSeq
<1>4. Len(t) \in Nat /\ Len(x) \in Nat
  BY <1>1, <1>2
<1> QED
  BY <1>1, <1>2, <1>3, <1>4, Sizes DEF Fits, Byte

\* What stands where behind the header.
LEMMA BodyFacts ==
    ASSUME NEW t, NEW x, Sendable(t, x)
    PROVE  LET body == <<Len(t)>> \o t \o x IN
           /\ body \in Seq(Byte)
           /\ Len(body) = 1 + Len(t) + Len(x)
           /\ body[1] = Len(t)
           /\ \A i \in 1 .. Len(t) : body[1 + i] = t[i]
           /\ \A i \in 1 .. Len(x) : body[1 + Len(t) + i] = x[i]
<1> DEFINE h == <<Len(t)>>
           ht == h \o t
           body == ht \o x
<1>1. /\ t \in Seq(Byte) /\ x \in Seq(Byte)
      /\ Len(t) \in Nat /\ Len(x) \in Nat /\ Len(t) \in Byte
  BY SendableFacts
<1>2. h \in Seq(Byte) /\ Len(h) = 1 /\ h[1] = Len(t)
  BY <1>1
<1>3. /\ ht \in Seq(Byte) /\ Len(ht) = 1 + Len(t)
      /\ \A i \in 1 .. 1 + Len(t) : ht[i] = IF i <= 1 THEN h[i] ELSE t[i - 1]
  <2> HIDE DEF h
  <2>1. /\ h \o t \in Seq(Byte) /\ Len(h \o t) = Len(h) + Len(t)
        /\ \A i \in 1 .. Len(h) + Len(t) : (h \o t)[i] =
              IF i <= Len(h) THEN h[i] ELSE t[i - Len(h)]
    BY <1>1, <1>2, ConcatProperties
  <2> QED BY <1>2, <2>1
<1>4. /\ body \in Seq(Byte) /\ Len(body) = 1 + Len(t) + Len(x)
      /\ \A i \in 1 .. 1 + Len(t) + Len(x) :
            body[i] = IF i <= 1 + Len(t) THEN ht[i] ELSE x[i - (1 + Len(t))]
  <2> HIDE DEF ht
  <2>1. /\ ht \o x \in Seq(Byte) /\ Len(ht \o x) = Len(ht) + Len(x)
        /\ \A i \in 1 .. Len(ht) + Len(x) : (ht \o x)[i] =
              IF i <= Len(ht) THEN ht[i] ELSE x[i - Len(ht)]
    BY <1>1, <1>3, ConcatProperties
  <2> QED BY <1>3, <2>1
<1> HIDE DEF h, ht
<1>5. body[1] = Len(t)
  BY <1>1, <1>2, <1>3, <1>4
<1>6. ASSUME NEW i \in 1 .. Len(t)
      PROVE  body[1 + i] = t[i]
  <2>1. 1 + i \in 1 .. 1 + Len(t) + Len(x) /\ 1 + i \in 1 .. 1 + Len(t)
        /\ 1 + i <= 1 + Len(t) /\ ~(1 + i <= 1) /\ (1 + i) - 1 = i
    BY <1>1
  <2> HIDE DEF body
  <2> QED BY <1>3, <1>4, <2>1
<1>7. ASSUME NEW i \in 1 .. Len(x)
      PROVE  body[1 + Len(t) + i] = x[i]
  <2>1. 1 + Len(t) + i \in 1 .. 1 + Len(t) + Len(x)
        /\ ~(1 + Len(t) + i <= 1 + Len(t)) /\ (1 + Len(t) + i) - (1 + Len(t)) = i
    BY <1>1
  <2> HIDE DEF body
  <2> QED BY <1>4, <2>1
<1>8. /\ body \in Seq(Byte) /\ Len(body) = 1 + Len(t) + Len(x) /\ body[1] = Len(t)
      /\ \A i \in 1 .. Len(t) : body[1 + i] = t[i]
      /\ \A i \in 1 .. Len(x) : body[1 + Len(t) + i] = x[i]
  BY <1>4, <1>5, <1>6, <1>7
<1>9. body = <<Len(t)>> \o t \o x
  BY DEF h, ht
<1> HIDE DEF body
<1> QED
  BY <1>8, <1>9

\* serialize_message either refuses, or wraps no length.
LEMMA SerializeFacts ==
    ASSUME NEW t \in Seq(Byte \ {NUL}), NEW x \in Seq(Byte), NEW header,
           header.length = 1 + Len(t) + Len(x) \/ header.length = PayloadLength(t, x),
           SerializeMessage(header, t, x, PacketSize) # Refused
    PROVE  /\ Sendable(t, x)
           /\ SerializeMessage(header, t, x, PacketSize) = MessageOf(header.type, header.qos, t, x)
<1>1. Fits(t, x, PacketSize)
  BY DEF SerializeMessage
<1>2. Sendable(t, x)
  BY <1>1 DEF Sendable
<1>3. /\ t \in Seq(Byte)
      /\ Len(t) \in Nat /\ Len(x) \in Nat /\ Len(t) <= MaxByte
      /\ 1 + Len(t) + Len(x) < LengthSpace
  BY <1>2, SendableFacts
<1>4. Len(t) % (MaxByte + 1) = Len(t)
  BY <1>3, Sizes
<1>5. header.length = 1 + Len(t) + Len(x)
  <2>1. (1 + Len(t) + Len(x)) % LengthSpace = 1 + Len(t) + Len(x)
    BY <1>3, Sizes
  <2> QED
    BY <2>1 DEF PayloadLength
<1>6. SubSeq(t, 1, Len(t)) = t
  BY <1>3, SubSeqFull
<1>7. SerializeMessage(header, t, x, PacketSize) = MessageOf(header.type, header.qos, t, x)
  BY <1>1, <1>4, <1>5, <1>6 DEF SerializeMessage, MessageOf
<1> QED
  BY <1>2, <1>7

LEMMA SerializeControlFacts ==
    ASSUME NEW ctrl \in Byte, NEW size \in {CtrlBuf, PacketSize}
    PROVE  SerializeControl(2, ctrl, <<>>, size) = ControlOf(ctrl)
<1>1. Len(<<>>) = 0 /\ <<ctrl>> \o <<>> = <<ctrl>>
  BY ConcatEmptySeq
<1>2. ~(size < HeaderSize + 1 + 0) /\ (1 + 0) % LengthSpace = 1
  BY Sizes
<1> QED
  BY <1>1, <1>2, Sizes DEF SerializeControl, ControlOf

-----------------------------------------------------------------------------
(* Reading a datagram back *)

LEMMA MemoryFacts ==
    ASSUME NEW memory \in Memory
    PROVE  /\ memory.buf \in [1 .. BodySize -> Byte]
           /\ memory.topic \in [1 .. TopicBuf -> Byte] /\ Len(memory.topic) = TopicBuf
           /\ memory.data \in [1 .. PacketSize -> Byte] /\ Len(memory.data) = PacketSize
<1>1. /\ memory.buf \in [1 .. BodySize -> Byte]
      /\ memory.topic \in [1 .. TopicBuf -> Byte]
      /\ memory.data \in [1 .. PacketSize -> Byte]
  BY DEF Memory
<1>2. TopicBuf \in Nat /\ PacketSize \in Nat
  BY Sizes
<1> QED
  BY <1>1, <1>2, ArrayFacts

\* A SUBSCRIBE or PUBLISH: deserialize_message accepts it whatever is left in
\* the memory of the receiver, and the receiver finds the topic and the data
\* there that were sent, with nothing of what was there before.
LEMMA ReadBack ==
    ASSUME NEW memory \in Memory, NEW t, NEW x, Sendable(t, x),
           NEW type \in {"PUBLISH", "SUBSCRIBE"}, NEW qos
    PROVE  LET d == MessageOf(type, qos, t, x) IN
           /\ Read(memory, d).ret = 0
           /\ After(memory, d) \in Memory
           /\ Str(After(memory, d).topic) = t
           /\ DataOf(d, After(memory, d)) = x
<1> DEFINE d == MessageOf(type, qos, t, x)
           l == Len(t)
           n == Len(x)
           buf == Received(memory.buf, d)
           name == Bytes(buf, 1, l)
           newTopic == Overwrite(memory.topic, 0, name \o <<NUL>>)
           newData == Overwrite(memory.data, 0, Bytes(buf, 1 + l, n))
<1>1. /\ t \in Seq(Byte) /\ x \in Seq(Byte)
      /\ l \in Nat /\ n \in Nat /\ l <= MaxByte
      /\ 1 + l + n <= BodySize
      /\ \A i \in 1 .. l : t[i] # NUL
  BY SendableFacts
<1>2. /\ BodySize \in Nat /\ PacketSize \in Nat /\ TopicBuf \in Nat /\ TopicBuf = MaxByte + 1
      /\ HeaderSize \in Nat /\ BodySize <= PacketSize /\ MaxByte \in Nat
  BY Sizes
<1>bounds. /\ l \in Nat /\ n \in Nat /\ 1 + l \in Nat /\ 1 \in Nat
           /\ l < TopicBuf /\ l <= TopicBuf /\ n <= PacketSize
           /\ 1 + l <= BodySize /\ (1 + l) + n <= BodySize
  BY <1>1, <1>2
<1>3. /\ memory.buf \in [1 .. BodySize -> Byte]
      /\ memory.topic \in [1 .. TopicBuf -> Byte] /\ Len(memory.topic) = TopicBuf
      /\ memory.data \in [1 .. PacketSize -> Byte] /\ Len(memory.data) = PacketSize
  BY MemoryFacts
<1>4. /\ d.body \in Seq(Byte) /\ Len(d.body) = 1 + l + n
      /\ d.body[1] = l
      /\ \A i \in 1 .. l : d.body[1 + i] = t[i]
      /\ \A i \in 1 .. n : d.body[1 + l + i] = x[i]
  BY BodyFacts DEF MessageOf
<1>5. /\ d.type = type /\ d.length = 1 + l + n /\ d.size = HeaderSize + 1 + l + n
  BY DEF MessageOf
<1> HIDE DEF d, l, n
<1>6. /\ buf \in [1 .. BodySize -> Byte]
      /\ \A i \in 1 .. 1 + l + n : buf[i] = d.body[i]
  <2>1. /\ buf \in [1 .. BodySize -> Byte]
        /\ \A i \in 1 .. BodySize : buf[i] =
              IF i <= Len(d.body) THEN d.body[i] ELSE memory.buf[i]
    BY <1>2, <1>3, <1>4, OverwriteStart DEF Received
  <2> HIDE DEF buf
  <2>2. \A i \in 1 .. 1 + l + n : i \in 1 .. BodySize /\ i <= 1 + l + n
    BY <1>1, <1>2
  <2> QED
    BY <1>4, <2>1, <2>2
<1> HIDE DEF buf
<1>7. /\ buf[1] = l
      /\ \A i \in 1 .. l : buf[1 + i] = t[i]
      /\ \A i \in 1 .. n : buf[1 + l + i] = x[i]
  BY <1>1, <1>4, <1>6
<1>8. name \in Seq(Byte) /\ Len(name) = l /\ \A i \in 1 .. l : name[i] = t[i]
  <2>1. /\ Bytes(buf, 1, l) \in Seq(Byte) /\ Len(Bytes(buf, 1, l)) = l
        /\ \A i \in 1 .. l : Bytes(buf, 1, l)[i] = buf[1 + i]
    BY <1>bounds, <1>2, <1>6, BytesFacts
  <2> QED
    BY <1>7, <2>1
<1> HIDE DEF name
<1>9. /\ name \o <<NUL>> \in Seq(Byte) /\ Len(name \o <<NUL>>) = l + 1
      /\ \A i \in 1 .. l : (name \o <<NUL>>)[i] = t[i]
      /\ (name \o <<NUL>>)[l + 1] = NUL
  <2>1. <<NUL>> \in Seq(Byte) /\ Len(<<NUL>>) = 1 /\ <<NUL>>[1] = NUL
    BY <1>2 DEF NUL, Byte
  <2>2. /\ name \o <<NUL>> \in Seq(Byte) /\ Len(name \o <<NUL>>) = Len(name) + Len(<<NUL>>)
        /\ \A i \in 1 .. Len(name) + Len(<<NUL>>) : (name \o <<NUL>>)[i] =
              IF i <= Len(name) THEN name[i] ELSE <<NUL>>[i - Len(name)]
    BY <1>8, <2>1, ConcatProperties
  <2>3. Len(name) + Len(<<NUL>>) = l + 1
    BY <1>8, <2>1
  <2>4. \A i \in 1 .. l : (name \o <<NUL>>)[i] = t[i]
    BY <1>bounds, <1>8, <2>2, <2>3
  <2>5. l + 1 \in 1 .. l + 1 /\ ~(l + 1 <= l) /\ (l + 1) - l = 1
    BY <1>bounds
  <2>6. (name \o <<NUL>>)[l + 1] = <<NUL>>[1]
    BY <1>8, <2>2, <2>3, <2>5
  <2> QED
    BY <2>1, <2>2, <2>3, <2>4, <2>6
<1>10. /\ newTopic \in [1 .. TopicBuf -> Byte]
       /\ \A i \in 1 .. l : newTopic[i] = t[i]
       /\ newTopic[l + 1] = NUL
  <2> DEFINE z == name \o <<NUL>>
  <2>1. z \in Seq(Byte) /\ Len(z) = l + 1 /\ (\A i \in 1 .. l : z[i] = t[i]) /\ z[l + 1] = NUL
    BY <1>9
  <2> HIDE DEF z
  <2>2. /\ Overwrite(memory.topic, 0, z) \in [1 .. TopicBuf -> Byte]
        /\ \A i \in 1 .. TopicBuf : Overwrite(memory.topic, 0, z)[i] =
              IF i <= Len(z) THEN z[i] ELSE memory.topic[i]
    BY <1>2, <1>3, <2>1, OverwriteStart
  <2>3. \A i \in 1 .. l + 1 : i \in 1 .. TopicBuf /\ Overwrite(memory.topic, 0, z)[i] = z[i]
    BY <1>1, <1>2, <2>1, <2>2
  <2>4. newTopic = Overwrite(memory.topic, 0, z)
    BY DEF z
  <2> HIDE DEF newTopic
  <2> QED
    BY <1>1, <2>1, <2>2, <2>3, <2>4
<1>11. /\ newData \in [1 .. PacketSize -> Byte]
       /\ \A i \in 1 .. n : newData[i] = x[i]
  <2> DEFINE z == Bytes(buf, 1 + l, n)
  <2>1. z \in Seq(Byte) /\ Len(z) = n /\ \A i \in 1 .. n : z[i] = x[i]
    <3>1. PICK off \in Nat : off = 1 + l
      BY <1>bounds
    <3>2. /\ buf \in [1 .. BodySize -> Byte] /\ BodySize \in Nat
          /\ n \in Nat /\ off + n <= BodySize
      BY <1>bounds, <1>2, <1>6, <3>1
    <3>3. /\ Bytes(buf, off, n) \in Seq(Byte) /\ Len(Bytes(buf, off, n)) = n
          /\ \A i \in 1 .. n : Bytes(buf, off, n)[i] = buf[off + i]
      BY <3>2, BytesFacts
    <3>4. \A i \in 1 .. n : buf[off + i] = x[i]
      BY <1>7, <3>1
    <3>5. z = Bytes(buf, off, n)
      BY <3>1
    <3> HIDE DEF z
    <3> QED
      BY <3>3, <3>4, <3>5
  <2> HIDE DEF z
  <2>2. /\ Overwrite(memory.data, 0, z) \in [1 .. PacketSize -> Byte]
        /\ \A i \in 1 .. PacketSize : Overwrite(memory.data, 0, z)[i] =
              IF i <= Len(z) THEN z[i] ELSE memory.data[i]
    <3>1. z \in Seq(Byte) /\ memory.data \in [1 .. PacketSize -> Byte] /\ PacketSize \in Nat
      BY <1>2, <1>3, <2>1
    <3> QED
      BY <3>1, OverwriteStart
  <2>3. newData = Overwrite(memory.data, 0, z)
    BY DEF z
  <2> HIDE DEF newData
  <2> QED
    BY <1>1, <1>2, <2>1, <2>2, <2>3
<1>12. Read(memory, d) = [ret |-> 0, topic |-> newTopic, data |-> newData]
  <2>1. /\ ~(d.size < HeaderSize) /\ ~(d.type \in {"ACK", "CONTROL"})
        /\ ~(buf[1] + 1 > d.length) /\ ~(buf[1] >= Len(memory.topic))
        /\ d.length - (1 + buf[1]) = n /\ ~(n > Len(memory.data))
    BY <1>1, <1>2, <1>3, <1>5, <1>7
  <2>2. Read(memory, d) = DeserializeMessage(d, buf, memory.topic, memory.data)
    BY DEF Read, buf
  <2> QED
    BY <1>7, <2>1, <2>2 DEF DeserializeMessage, name
<1> HIDE DEF newTopic, newData
<1>13. After(memory, d) = [buf |-> buf, topic |-> newTopic, data |-> newData]
  BY <1>12 DEF After, buf
<1>14. After(memory, d) \in Memory
  BY <1>6, <1>10, <1>11, <1>13 DEF Memory
<1>15. StrLen(newTopic) = l
  <2>1. \A i \in 1 .. l : newTopic[i] # NUL
    BY <1>1, <1>10
  <2> QED
    BY <1>bounds, <1>2, <1>10, <2>1, StrLenFacts
<1>16. Str(newTopic) = t
  <2>1. /\ Bytes(newTopic, 0, l) \in Seq(Byte) /\ Len(Bytes(newTopic, 0, l)) = l
        /\ \A i \in 1 .. l : Bytes(newTopic, 0, l)[i] = newTopic[i]
    BY <1>bounds, <1>2, <1>10, BytesStart
  <2>2. Bytes(newTopic, 0, l) = t
    BY <1>1, <1>10, <2>1, SeqEqual DEF l
  <2> QED
    BY <1>15, <2>2 DEF Str
<1>17. DataOf(d, After(memory, d)) = x
  <2>1. d.length - (1 + StrLen(After(memory, d).topic)) = n
    BY <1>1, <1>5, <1>13, <1>15
  <2>2. /\ Bytes(newData, 0, n) \in Seq(Byte) /\ Len(Bytes(newData, 0, n)) = n
        /\ \A i \in 1 .. n : Bytes(newData, 0, n)[i] = newData[i]
    BY <1>bounds, <1>2, <1>11, BytesStart
  <2>3. Bytes(newData, 0, n) = x
    BY <1>1, <1>11, <2>2, SeqEqual DEF n
  <2> QED
    BY <1>13, <2>1, <2>3 DEF DataOf
<1>18. /\ Read(memory, d).ret = 0 /\ After(memory, d) \in Memory
       /\ Str(After(memory, d).topic) = t /\ DataOf(d, After(memory, d)) = x
  BY <1>12, <1>13, <1>14, <1>16, <1>17
<1> QED
  BY <1>18 DEF d

\* An ACK or CONTROL: it is accepted, and the topic array holds the empty string.
LEMMA ReadAnswer ==
    ASSUME NEW memory \in Memory, NEW ctrl \in Byte,
           NEW d \in {Ack, ControlOf(ctrl)}
    PROVE  /\ Read(memory, d).ret = 0
           /\ After(memory, d) \in Memory
           /\ Str(After(memory, d).topic) = <<>>
           /\ d.type = "CONTROL" => After(memory, d).buf[1] = ctrl
<1> DEFINE buf == Received(memory.buf, d)
           newTopic == Overwrite(memory.topic, 0, <<NUL>>)
           newData == Overwrite(memory.data, 0, Bytes(buf, 0, d.length))
<1>1. /\ BodySize \in Nat /\ PacketSize \in Nat /\ TopicBuf \in Nat /\ TopicBuf = MaxByte + 1
      /\ HeaderSize \in Nat /\ BodySize > 0 /\ BodySize <= PacketSize /\ MaxByte \in Nat
  BY Sizes
<1>2. /\ memory.buf \in [1 .. BodySize -> Byte]
      /\ memory.topic \in [1 .. TopicBuf -> Byte] /\ Len(memory.topic) = TopicBuf
      /\ memory.data \in [1 .. PacketSize -> Byte] /\ Len(memory.data) = PacketSize
  BY MemoryFacts
<1>3. /\ d.type \in {"ACK", "CONTROL"} /\ d.length \in {0, 1} /\ d.size >= HeaderSize
      /\ d.body \in Seq(Byte)
  <2>1. CASE d = Ack
    BY <1>1, <2>1 DEF Ack
  <2>2. CASE d = ControlOf(ctrl)
    BY <1>1, <2>2 DEF ControlOf
  <2> QED
    BY <2>1, <2>2
<1>4. d.type = "CONTROL" => Len(d.body) = 1 /\ d.body[1] = ctrl
  BY DEF Ack, ControlOf
<1>5. /\ buf \in [1 .. BodySize -> Byte]
      /\ \A i \in 1 .. BodySize : buf[i] = IF i <= Len(d.body) THEN d.body[i] ELSE memory.buf[i]
  <2>1. BodySize \in Nat /\ memory.buf \in [1 .. BodySize -> Byte] /\ d.body \in Seq(Byte)
    BY <1>1, <1>2, <1>3
  <2> HIDE DEF buf
  <2> QED
    BY <2>1, OverwriteStart DEF Received, buf
<1>6. d.type = "CONTROL" => buf[1] = ctrl
  BY <1>1, <1>4, <1>5
<1> HIDE DEF buf
<1>7. <<NUL>> \in Seq(Byte) /\ Len(<<NUL>>) = 1 /\ <<NUL>>[1] = NUL
  BY <1>1 DEF NUL, Byte
<1>8. newTopic \in [1 .. TopicBuf -> Byte] /\ newTopic[1] = NUL
  <2> DEFINE z == <<NUL>>
  <2>1. z \in Seq(Byte) /\ Len(z) = 1 /\ z[1] = NUL /\ newTopic = Overwrite(memory.topic, 0, z)
    BY <1>7
  <2> HIDE DEF z, newTopic
  <2>2. /\ newTopic \in [1 .. TopicBuf -> Byte]
        /\ \A i \in 1 .. TopicBuf : newTopic[i] = IF i <= Len(z) THEN z[i] ELSE memory.topic[i]
    <3>1. TopicBuf \in Nat /\ memory.topic \in [1 .. TopicBuf -> Byte]
      BY <1>1, <1>2
    <3>2. z \in Seq(Byte) /\ newTopic = Overwrite(memory.topic, 0, z)
      BY <2>1
    <3> QED
      BY <3>1, <3>2, OverwriteStart
  <2>3. 1 \in 1 .. TopicBuf /\ 1 <= Len(z)
    BY <1>1, <2>1
  <2> QED
    BY <2>1, <2>2, <2>3
<1>9. newData \in [1 .. PacketSize -> Byte]
  <2>1. d.length \in Nat /\ d.length <= BodySize
    BY <1>1, <1>3
  <2>2. Bytes(buf, 0, d.length) \in Seq(Byte)
    BY <1>1, <1>5, <2>1, BytesStart
  <2> QED
    BY <1>1, <1>2, <2>2, OverwriteStart
<1>10. Read(memory, d) = [ret |-> 0, topic |-> newTopic, data |-> newData]
  <2>1. ~(d.size < HeaderSize) /\ d.length <= Len(memory.data)
    BY <1>1, <1>2, <1>3 DEF Ack, ControlOf
  <2>2. Read(memory, d) = DeserializeMessage(d, buf, memory.topic, memory.data)
    BY DEF Read, buf
  <2> QED
    BY <1>3, <2>1, <2>2 DEF DeserializeMessage
<1> HIDE DEF newTopic, newData
<1>11. After(memory, d) = [buf |-> buf, topic |-> newTopic, data |-> newData]
  BY <1>10 DEF After, buf
<1>12. After(memory, d) \in Memory
  BY <1>5, <1>8, <1>9, <1>11 DEF Memory
<1>13. StrLen(newTopic) = 0
  <2>1. 0 \in Nat /\ 0 < TopicBuf /\ newTopic[0 + 1] = NUL /\ \A i \in 1 .. 0 : newTopic[i] # NUL
    BY <1>1, <1>8
  <2> QED
    BY <1>1, <1>8, <2>1, StrLenFacts
<1>14. Str(newTopic) = <<>>
  <2>1. Bytes(newTopic, 0, 0) = SubSeq(newTopic, 1, 0)
    BY DEF Bytes
  <2> QED
    BY <1>13, <2>1, SubSeqEmpty DEF Str
<1> QED
  BY <1>6, <1>10, <1>11, <1>12, <1>14

LEMMA AnswerSizes ==
    ASSUME NEW ctrl \in Byte, NEW buf, NEW maxData \in {CtrlBuf, PacketSize}
    PROVE  DeserializeControl(ControlOf(ctrl), buf, maxData).ret = 0
<1>1. /\ ControlOf(ctrl).size = HeaderSize + 1 /\ ControlOf(ctrl).length = 1
  BY DEF ControlOf
<1>2. ~(HeaderSize + 1 < HeaderSize + 1) /\ ~(1 = 0 \/ 1 - 1 > maxData)
  BY Sizes
<1> QED
  BY <1>1, <1>2 DEF DeserializeControl

-----------------------------------------------------------------------------
(* The inductive invariant *)

\* Every datagram in transit is the image of a call or an answer of the broker.
SentUp(d) ==
    \/ \E t \in subscribed : d = MessageOf("SUBSCRIBE", 0, t, <<>>)
    \/ \E m \in published, qos \in 0 .. 2 : d = MessageOf("PUBLISH", qos, m[1], m[2])
    \/ d = ControlOf(RELEASE)
SentDown(d) ==
    \/ \E m \in published, qos \in 0 .. 2 : d = MessageOf("PUBLISH", qos, m[1], m[2])
    \/ d = Ack
    \/ d \in {ControlOf(RECEIVED), ControlOf(COMPLETE)}

\* The events that may stand in the queue.
EventsOf(ms) ==
    {<<"PUBLISH", Cut(m[1], EventTopic), m[2]>> : m \in ms} \cup {<<"ACK", <<>>, <<>> >>}

PathInv ==
    /\ broker \in Memory /\ client \in Memory
    /\ \A t \in subscribed : Sendable(t, <<>>)
    /\ \A m \in published : Sendable(m[1], m[2])
    /\ \A d \in up : SentUp(d)
    /\ \A d \in down : SentDown(d)
    /\ queue \in Seq(EventsOf(published))
    /\ ArrivesAsSent

\* What the broker sends back and what the listener makes of it.
LEMMA Controls == RECEIVED \in Byte /\ RELEASE \in Byte /\ COMPLETE \in Byte
  BY Sizes DEF RECEIVED, RELEASE, COMPLETE, Byte

LEMMA PathInitInv == PathInit => PathInv
<1> SUFFICES ASSUME PathInit PROVE PathInv
  OBVIOUS
<1>1. Fill \in Byte
  BY PathAssumption
<1>2. broker \in Memory /\ client \in Memory
  BY <1>1 DEF PathInit, Memory
<1>3. queue \in Seq(EventsOf(published))
  BY DEF PathInit
<1>4. ArrivesAsSent
  BY DEF PathInit, ArrivesAsSent, NoEvent
<1> QED
  BY <1>2, <1>3, <1>4 DEF PathInit, PathInv

\* The three kinds of datagrams, read by any receiver.
LEMMA UpAccepted ==
    ASSUME PathInv, NEW d \in up, NEW memory \in Memory
    PROVE  /\ Read(memory, d).ret = 0
           /\ After(memory, d) \in Memory
           /\ d.length = Len(d.body) /\ d.size <= PacketSize
           /\ d.type = "CONTROL" =>
                 DeserializeControl(d, Received(memory.buf, d), PacketSize).ret = 0
<1>1. ASSUME NEW t, NEW x, Sendable(t, x), NEW type \in {"PUBLISH", "SUBSCRIBE"}, NEW qos,
             d = MessageOf(type, qos, t, x)
      PROVE  /\ Read(memory, d).ret = 0 /\ After(memory, d) \in Memory
             /\ d.length = Len(d.body) /\ d.size <= PacketSize /\ d.type # "CONTROL"
  <2>1. Read(memory, d).ret = 0 /\ After(memory, d) \in Memory
    BY <1>1, ReadBack
  <2>2. d.length = Len(d.body) /\ d.type # "CONTROL"
    BY <1>1, BodyFacts DEF MessageOf
  <2>3. d.size = HeaderSize + 1 + Len(t) + Len(x)
    BY <1>1 DEF MessageOf
  <2>4. d.size <= PacketSize
    BY <1>1, <2>3, SendableFacts, Sizes
  <2> QED
    BY <2>1, <2>2, <2>4
<1>2. ASSUME d = ControlOf(RELEASE)
      PROVE  /\ Read(memory, d).ret = 0 /\ After(memory, d) \in Memory
             /\ d.length = Len(d.body) /\ d.size <= PacketSize
             /\ DeserializeControl(d, Received(memory.buf, d), PacketSize).ret = 0
  <2>1. Read(memory, d).ret = 0 /\ After(memory, d) \in Memory
    BY <1>2, ReadAnswer, Controls
  <2>2. d.length = Len(d.body) /\ d.size <= PacketSize
    BY <1>2, Sizes DEF ControlOf
  <2> QED
    BY <1>2, <2>1, <2>2, AnswerSizes, Controls
<1>3. SentUp(d)
  BY DEF PathInv
<1>4. CASE \E t \in subscribed : d = MessageOf("SUBSCRIBE", 0, t, <<>>)
  BY <1>1, <1>4 DEF PathInv
<1>5. CASE \E m \in published, qos \in 0 .. 2 : d = MessageOf("PUBLISH", qos, m[1], m[2])
  BY <1>1, <1>5 DEF PathInv
<1> QED
  BY <1>2, <1>3, <1>4, <1>5 DEF SentUp

LEMMA DownAccepted ==
    ASSUME PathInv, NEW d \in down, NEW memory \in Memory
    PROVE  /\ Read(memory, d).ret = 0
           /\ After(memory, d) \in Memory
           /\ d.length = Len(d.body) /\ d.size <= PacketSize
           /\ d.type = "CONTROL" =>
                 DeserializeControl(d, Received(memory.buf, d), CtrlBuf).ret = 0
<1>1. ASSUME NEW t, NEW x, Sendable(t, x), NEW qos, d = MessageOf("PUBLISH", qos, t, x)
      PROVE  /\ Read(memory, d).ret = 0 /\ After(memory, d) \in Memory
             /\ d.length = Len(d.body) /\ d.size <= PacketSize /\ d.type # "CONTROL"
  <2>1. Read(memory, d).ret = 0 /\ After(memory, d) \in Memory
    BY <1>1, ReadBack
  <2>2. d.length = Len(d.body) /\ d.type # "CONTROL"
    BY <1>1, BodyFacts DEF MessageOf
  <2>3. d.size = HeaderSize + 1 + Len(t) + Len(x)
    BY <1>1 DEF MessageOf
  <2>4. d.size <= PacketSize
    BY <1>1, <2>3, SendableFacts, Sizes
  <2> QED
    BY <2>1, <2>2, <2>4
<1>2. ASSUME NEW ctrl \in Byte, d \in {Ack, ControlOf(ctrl)}
      PROVE  /\ Read(memory, d).ret = 0 /\ After(memory, d) \in Memory
             /\ d.length = Len(d.body) /\ d.size <= PacketSize
             /\ d.type = "CONTROL" =>
                   DeserializeControl(d, Received(memory.buf, d), CtrlBuf).ret = 0
  <2>1. Read(memory, d).ret = 0 /\ After(memory, d) \in Memory
    BY <1>2, ReadAnswer
  <2>2. d.length = Len(d.body) /\ d.size <= PacketSize
    <3>1. CASE d = Ack
      <4>1. d.length = 0 /\ d.body = <<>> /\ d.size = HeaderSize
        BY <3>1 DEF Ack
      <4> QED BY <4>1, Sizes
    <3>2. CASE d = ControlOf(ctrl)
      <4>1. d.length = 1 /\ d.body = <<ctrl>> /\ d.size = HeaderSize + 1
        BY <3>2 DEF ControlOf
      <4> QED BY <4>1, Sizes
    <3> QED BY <1>2, <3>1, <3>2
  <2>3. d.type = "CONTROL" => d = ControlOf(ctrl)
    BY <1>2 DEF Ack
  <2> QED
    BY <1>2, <2>1, <2>2, <2>3, AnswerSizes
<1>3. SentDown(d)
  BY DEF PathInv
<1>4. CASE \E m \in published, qos \in 0 .. 2 : d = MessageOf("PUBLISH", qos, m[1], m[2])
  BY <1>1, <1>4 DEF PathInv
<1>5. CASE d = Ack \/ d \in {ControlOf(RECEIVED), ControlOf(COMPLETE)}
  BY <1>2, <1>5, Controls
<1> QED
  BY <1>3, <1>4, <1>5 DEF SentDown

LEMMA PathInvAccepts == PathInv => AcceptedEverywhere
<1> SUFFICES ASSUME PathInv PROVE AcceptedEverywhere
  OBVIOUS
<1>1. broker \in Memory /\ client \in Memory
  BY DEF PathInv
<1> QED
  BY <1>1, UpAccepted, DownAccepted DEF AcceptedEverywhere

-----------------------------------------------------------------------------
(* Every step keeps it. *)

\* The histories only grow.
LEMMA Growing ==
    ASSUME PathInv, published \subseteq published', subscribed \subseteq subscribed'
    PROVE  /\ \A d \in up : SentUp(d)'
           /\ \A d \in down : SentDown(d)'
           /\ queue \in Seq(EventsOf(published)')
           /\ (event' = event /\ subs' = subs) => ArrivesAsSent'
<1>1. \A d \in up : SentUp(d)'
  BY DEF PathInv, SentUp
<1>2. \A d \in down : SentDown(d)'
  BY DEF PathInv, SentDown
<1>3. EventsOf(published) \subseteq EventsOf(published)'
  BY DEF EventsOf
<1>4. queue \in Seq(EventsOf(published)')
  BY <1>3, SeqMonotonic DEF PathInv
<1>5. (event' = event /\ subs' = subs) => ArrivesAsSent'
  BY DEF PathInv, ArrivesAsSent
<1> QED
  BY <1>1, <1>2, <1>4, <1>5

\* A call puts the image of what it was given into the network.
LEMMA RequestFacts ==
    ASSUME NEW t \in Seq(Byte \ {NUL}), NEW x \in Seq(Byte), NEW type, NEW qos,
           Request(type, qos, t, x) # Refused
    PROVE  Sendable(t, x) /\ Request(type, qos, t, x) = MessageOf(type, qos, t, x)
<1> DEFINE header == [type |-> type, qos |-> qos, length |-> PayloadLength(t, x)]
<1>1. header.type = type /\ header.qos = qos /\ header.length = PayloadLength(t, x)
  OBVIOUS
<1>2. Request(type, qos, t, x) = SerializeMessage(header, t, x, PacketSize)
  BY DEF Request
<1> HIDE DEF header
<1> QED
  BY <1>1, <1>2, SerializeFacts

LEMMA CallStep ==
    ASSUME PathInv,
           \/ \E topic \in Topic : Subscribe(topic)
           \/ \E m \in Message, qos \in 0 .. 2 : Publish(m[1], m[2], qos)
           \/ Release
    PROVE  PathInv'
<1>1. ASSUME NEW topic \in Topic, Subscribe(topic)
      PROVE  PathInv'
  <2> DEFINE d == Request("SUBSCRIBE", 0, topic, <<>>)
  <2>1. topic \in Seq(Byte \ {NUL}) /\ <<>> \in Seq(Byte)
    BY PathAssumption
  <2>2. /\ d # Refused /\ up' = up \cup {d} /\ subscribed' = subscribed \cup {topic}
        /\ UNCHANGED <<down, broker, subs, client, queue, published, event>>
    BY <1>1 DEF Subscribe
  <2>3. Sendable(topic, <<>>) /\ d = MessageOf("SUBSCRIBE", 0, topic, <<>>)
    BY <2>1, <2>2, RequestFacts
  <2>4. SentUp(d)'
    BY <2>2, <2>3 DEF SentUp
  <2> HIDE DEF d
  <2>5. \A t \in subscribed' : Sendable(t, <<>>)
    BY <2>2, <2>3 DEF PathInv
  <2>6. \A e \in up' : SentUp(e)'
    BY <2>2, <2>4, Growing
  <2>7. (\A e \in down' : SentDown(e)') /\ queue' \in Seq(EventsOf(published)') /\ ArrivesAsSent'
    BY <2>2, Growing
  <2> QED
    BY <2>2, <2>5, <2>6, <2>7 DEF PathInv
<1>2. ASSUME NEW m \in Message, NEW qos \in 0 .. 2, Publish(m[1], m[2], qos)
      PROVE  PathInv'
  <2> DEFINE d == Request("PUBLISH", qos, m[1], m[2])
             p == <<m[1], m[2]>>
  <2>1. m[1] \in Seq(Byte \ {NUL}) /\ m[2] \in Seq(Byte)
    BY PathAssumption
  <2>2. /\ d # Refused /\ up' = up \cup {d} /\ published' = published \cup {p}
        /\ UNCHANGED <<down, broker, subs, client, queue, subscribed, event>>
    BY <1>2 DEF Publish
  <2>3. Sendable(m[1], m[2]) /\ d = MessageOf("PUBLISH", qos, m[1], m[2])
    BY <2>1, <2>2, RequestFacts
  <2>4. p[1] = m[1] /\ p[2] = m[2]
    OBVIOUS
  <2> HIDE DEF d, p
  <2>5. p \in published' /\ d = MessageOf("PUBLISH", qos, p[1], p[2])
    BY <2>2, <2>3, <2>4
  <2>6. SentUp(d)'
    BY <2>5 DEF SentUp
  <2>7. \A q \in published' : Sendable(q[1], q[2])
    BY <2>2, <2>3, <2>4 DEF PathInv
  <2>8. \A e \in up' : SentUp(e)'
    BY <2>2, <2>6, Growing
  <2>9. (\A e \in down' : SentDown(e)') /\ queue' \in Seq(EventsOf(published)') /\ ArrivesAsSent'
    BY <2>2, Growing
  <2> QED
    BY <2>2, <2>7, <2>8, <2>9 DEF PathInv
<1>3. ASSUME Release
      PROVE  PathInv'
  <2> DEFINE d == SerializeControl(2, RELEASE, <<>>, CtrlBuf)
  <2>1. /\ up' = up \cup {d}
        /\ UNCHANGED <<down, broker, subs, client, queue, published, subscribed, event>>
    BY <1>3 DEF Release, historyVars
  <2>2. d = ControlOf(RELEASE)
    BY SerializeControlFacts, Controls
  <2> HIDE DEF d
  <2>3. SentUp(d)'
    BY <2>2 DEF SentUp
  <2>4. \A e \in up' : SentUp(e)'
    BY <2>1, <2>3, Growing
  <2>5. (\A e \in down' : SentDown(e)') /\ queue' \in Seq(EventsOf(published)') /\ ArrivesAsSent'
    BY <2>1, Growing
  <2> QED
    BY <2>1, <2>4, <2>5 DEF PathInv
<1> QED
  BY <1>1, <1>2, <1>3

LEMMA NextEventStep ==
    ASSUME PathInv, NextEvent
    PROVE  PathInv'
<1>1. /\ queue # <<>> /\ queue' = Tail(queue)
      /\ event' = <<Head(queue)[1], Cut(Head(queue)[2], AppTopic), Head(queue)[3]>>
      /\ UNCHANGED <<up, down, broker, subs, client, published, subscribed>>
  BY DEF NextEvent, netVars, historyVars
<1>2. queue \in Seq(EventsOf(published))
  BY DEF PathInv
<1>3. Head(queue) \in EventsOf(published) /\ queue' \in Seq(EventsOf(published))
  BY <1>1, <1>2, HeadTailProperties
<1>4. ArrivesAsSent'
  <2>1. CASE Head(queue) = <<"ACK", <<>>, <<>> >>
    <3>1. event' = <<"ACK", <<>>, <<>> >>
      BY <1>1, <2>1, CutEmpty, Sizes
    <3> QED
      BY <1>1, <3>1 DEF ArrivesAsSent, PathInv
  <2>2. ASSUME NEW m \in published, Head(queue) = <<"PUBLISH", Cut(m[1], EventTopic), m[2]>>
        PROVE  ArrivesAsSent'
    <3>1. event' = <<"PUBLISH", Cut(Cut(m[1], EventTopic), AppTopic), m[2]>>
      BY <1>1, <2>2
    <3> QED
      BY <1>1, <3>1 DEF ArrivesAsSent, PathInv
  <2> QED
    BY <1>3, <2>1, <2>2 DEF EventsOf
<1>5. (\A d \in up' : SentUp(d)') /\ (\A d \in down' : SentDown(d)')
  BY <1>1, Growing
<1> QED
  BY <1>1, <1>3, <1>4, <1>5 DEF PathInv

\* What broker_main_loop sends for a datagram.
LEMMA BrokerStep ==
    ASSUME PathInv, NEW d \in up, BrokerReceive(d)
    PROVE  PathInv'
<1> DEFINE memory == After(broker, d)
           accepted(type) == Read(broker, d).ret = 0 /\ d.type = type
           out == CASE accepted("PUBLISH") -> Forwarded(d, memory) \cup Answer(d.qos)
                    [] accepted("CONTROL") -> Controlled(d, memory)
                    [] OTHER -> {}
<1>1. /\ up' = up \ {d} /\ broker' = memory /\ down' = down \cup out
      /\ subs' = IF accepted("SUBSCRIBE") THEN subs \cup {Str(memory.topic)} ELSE subs
      /\ UNCHANGED <<client, queue, published, subscribed, event>>
  BY DEF BrokerReceive, historyVars
<1>2. broker \in Memory /\ Read(broker, d).ret = 0 /\ memory \in Memory
  BY UpAccepted DEF PathInv
<1>3. SentUp(d)
  BY DEF PathInv
<1>4. ASSUME NEW m \in published, NEW qos \in 0 .. 2, d = MessageOf("PUBLISH", qos, m[1], m[2])
      PROVE  (\A e \in out : SentDown(e)) /\ subs' = subs
  <2>1. Sendable(m[1], m[2])
    BY DEF PathInv
  <2>2. Str(memory.topic) = m[1] /\ DataOf(d, memory) = m[2]
    BY <1>2, <1>4, <2>1, ReadBack
  <2>3. d.type = "PUBLISH" /\ d.qos = qos /\ d.length = 1 + Len(m[1]) + Len(m[2])
    BY <1>4 DEF MessageOf
  <2>4. \A e \in Forwarded(d, memory) : SentDown(e)
    <3> SUFFICES ASSUME NEW e \in Forwarded(d, memory) PROVE SentDown(e)
      OBVIOUS
    <3>1. e = SerializeMessage(d, m[1], m[2], PacketSize) /\ e # Refused
      BY <2>2 DEF Forwarded
    <3>2. e = MessageOf(d.type, d.qos, m[1], m[2])
      BY <2>1, <2>3, <3>1, SerializeFacts DEF Sendable
    <3> QED
      BY <2>3, <3>2 DEF SentDown
  <2>5. SerializeControl(2, RECEIVED, <<>>, PacketSize) = ControlOf(RECEIVED)
    BY SerializeControlFacts, Controls
  <2>6. \A e \in Answer(d.qos) : SentDown(e)
    BY <2>3, <2>5 DEF Answer, SentDown
  <2>7. out = Forwarded(d, memory) \cup Answer(d.qos)
    <3>1. accepted("PUBLISH") /\ ~accepted("CONTROL")
      BY <1>2, <2>3
    <3> HIDE DEF accepted, memory
    <3> QED BY <3>1
  <2> HIDE DEF out
  <2> QED
    BY <1>1, <2>3, <2>4, <2>6, <2>7
<1>5. ASSUME d = ControlOf(RELEASE)
      PROVE  (\A e \in out : SentDown(e)) /\ subs' = subs
  <2>1. d.type = "CONTROL"
    BY <1>5 DEF ControlOf
  <2>2. out = Controlled(d, memory)
    <3>1. accepted("CONTROL") /\ ~accepted("PUBLISH")
      BY <1>2, <2>1
    <3> HIDE DEF accepted, memory
    <3> QED BY <3>1
  <2>3. SerializeControl(2, COMPLETE, <<>>, PacketSize) = ControlOf(COMPLETE)
    BY SerializeControlFacts, Controls
  <2>4. \A e \in Controlled(d, memory) : SentDown(e)
    BY <2>3 DEF Controlled, SentDown
  <2> HIDE DEF out
  <2> QED
    BY <1>1, <2>1, <2>2, <2>4
<1>6. ASSUME NEW t \in subscribed, d = MessageOf("SUBSCRIBE", 0, t, <<>>)
      PROVE  (\A e \in out : SentDown(e)) /\ subs' = subs \cup {t}
  <2>1. Sendable(t, <<>>)
    BY DEF PathInv
  <2>2. Str(memory.topic) = t
    BY <1>2, <1>6, <2>1, ReadBack
  <2>3. d.type = "SUBSCRIBE"
    BY <1>6 DEF MessageOf
  <2>4. out = {}
    BY <2>3
  <2> QED
    BY <1>1, <1>2, <2>2, <2>3, <2>4
<1>7. (\A e \in out : SentDown(e)) /\ subs' \subseteq subs \cup subscribed
  BY <1>3, <1>4, <1>5, <1>6 DEF SentUp
<1> HIDE DEF out, memory
<1>8. (\A e \in up : SentUp(e)') /\ (\A e \in down : SentDown(e)')
      /\ queue' \in Seq(EventsOf(published)')
  BY <1>1, Growing
<1>9. \A e \in out : SentDown(e)'
  BY <1>1, <1>7 DEF SentDown
<1>10. ArrivesAsSent'
  BY <1>1, <1>7 DEF PathInv, ArrivesAsSent
<1> QED
  BY <1>1, <1>2, <1>8, <1>9, <1>10 DEF PathInv

\* What listener_loop makes of a datagram.
LEMMA ListenStep ==
    ASSUME PathInv, NEW d \in down, Listen(d)
    PROVE  PathInv'
<1> DEFINE memory == After(client, d)
           accepted(type) == Read(client, d).ret = 0 /\ d.type = type
           q == CASE accepted("ACK") -> Push("ACK", Str(memory.topic), <<>>)
                  [] accepted("PUBLISH") -> Push("PUBLISH", Str(memory.topic), DataOf(d, memory))
                  [] OTHER -> queue
           E == EventsOf(published)
<1>1. /\ down' = down \ {d} /\ client' = memory /\ queue' = q
      /\ UNCHANGED <<up, broker, subs, published, subscribed, event>>
  BY DEF Listen, historyVars
<1>2. /\ client \in Memory /\ Read(client, d).ret = 0 /\ memory \in Memory
      /\ queue \in Seq(E)
  BY DownAccepted DEF PathInv
<1>3. SentDown(d)
  BY DEF PathInv
<1>4. ASSUME NEW m \in published, NEW qos \in 0 .. 2, d = MessageOf("PUBLISH", qos, m[1], m[2])
      PROVE  q \in Seq(E)
  <2>1. Sendable(m[1], m[2])
    BY DEF PathInv
  <2>2. Str(memory.topic) = m[1] /\ DataOf(d, memory) = m[2]
    BY <1>2, <1>4, <2>1, ReadBack
  <2>3. d.type = "PUBLISH"
    BY <1>4 DEF MessageOf
  <2>4. q = Push("PUBLISH", m[1], m[2])
    <3>1. accepted("PUBLISH") /\ ~accepted("ACK")
      BY <1>2, <2>3
    <3> HIDE DEF accepted, memory
    <3> QED BY <2>2, <3>1
  <2>5. <<"PUBLISH", Cut(m[1], EventTopic), m[2]>> \in E
    BY DEF EventsOf
  <2> HIDE DEF q, E
  <2> QED
    BY <1>2, <2>4, <2>5, AppendProperties DEF Push
<1>5. ASSUME d = Ack
      PROVE  q \in Seq(E)
  <2>1. d.type = "ACK" /\ Str(memory.topic) = <<>>
    BY <1>2, <1>5, ReadAnswer, Controls DEF Ack
  <2>2. q = Push("ACK", <<>>, <<>>)
    <3>1. accepted("ACK") /\ ~accepted("PUBLISH")
      BY <1>2, <2>1
    <3> HIDE DEF accepted, memory
    <3> QED BY <2>1, <3>1
  <2>3. <<"ACK", Cut(<<>>, EventTopic), <<>> >> \in E
    BY CutEmpty, Sizes DEF EventsOf
  <2> HIDE DEF q, E
  <2> QED
    BY <1>2, <2>2, <2>3, AppendProperties DEF Push
<1>6. ASSUME d \in {ControlOf(RECEIVED), ControlOf(COMPLETE)}
      PROVE  q \in Seq(E)
  <2>1. d.type = "CONTROL"
    BY <1>6 DEF ControlOf
  <2>2. q = queue
    BY <2>1
  <2> QED
    BY <1>2, <2>2
<1>7. q \in Seq(E)
  BY <1>3, <1>4, <1>5, <1>6 DEF SentDown
<1> HIDE DEF q, memory
<1>8. (\A e \in up : SentUp(e)') /\ (\A e \in down : SentDown(e)') /\ ArrivesAsSent'
  BY <1>1, Growing
<1>9. queue' \in Seq(EventsOf(published)')
  BY <1>1, <1>7
<1> QED
  BY <1>1, <1>2, <1>8, <1>9 DEF PathInv

LEMMA PathStep ==
    ASSUME PathInv, [PathNext]_pathVars
    PROVE  PathInv'
<1>1. ASSUME Lose PROVE PathInv'
  <2>1. /\ up' \subseteq up /\ down' \subseteq down
        /\ UNCHANGED <<broker, subs, client, queue, published, subscribed, event>>
    BY <1>1 DEF Lose, historyVars
  <2> QED
    BY <2>1, Growing DEF PathInv
<1>2. CASE UNCHANGED pathVars
  <2>1. UNCHANGED <<up, down, broker, subs, client, queue, published, subscribed, event>>
    BY <1>2 DEF pathVars, netVars, historyVars
  <2> QED
    BY <2>1, Growing DEF PathInv
<1> QED
  BY <1>1, <1>2, CallStep, NextEventStep, BrokerStep, ListenStep DEF PathNext

LEMMA PathInvariant == PathSpec => []PathInv
  BY PathInitInv, PathStep, PTL DEF PathSpec

\* What slimmq_next_event and the subscription table get is what was published
\* and subscribed, byte for byte: nothing of an earlier datagram shows.
THEOREM ArrivesAsSentHolds == PathSpec => []ArrivesAsSent
<1>1. PathInv => ArrivesAsSent
  BY DEF PathInv
<1> QED
  BY <1>1, PathInvariant, PTL

\* No datagram that serialize_message and serialize_control_message have made
\* is refused by the broker or the listener, or read beyond its end.
THEOREM AcceptedEverywhereHolds == PathSpec => []AcceptedEverywhere
  BY PathInvAccepts, PathInvariant, PTL
=============================================================================
