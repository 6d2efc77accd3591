------------------------ MODULE ConnectionOrderProofs ------------------------
(***************************************************************************)
(* With one writer, receive_message returns what send_message was given,   *)
(* unchanged and in order, for any messages, sizes, buffers and cuts.      *)
(*                                                                         *)
(* The argument is about positions in the stream.  Message number i of the *)
(* calls begins after position start[i]; the units on the stream are the   *)
(* ones of their positions, the reader is at the position after what it    *)
(* has read, and the writer at the position after what it has written.     *)
(***************************************************************************)
EXTENDS ConnectionProofs

OneWriter == \A v, w \in Writer : v = w

(* The messages taken lie one behind the other. *)
Layout(start) ==
    /\ start \in [1 .. Len(sends) + 1 -> Nat]
    /\ \A i \in 1 .. Len(sends) : start[i + 1] = start[i] + MessageSize(sends[i])
    /\ \A i \in 1 .. Len(sends) : \A j \in 1 .. Len(sends) + 1 :
          i < j => start[i] + MessageSize(sends[i]) <= start[j]

(* The position up to which the reader has read. *)
ReadTo(start) == start[Len(delivered) + 1] + Len(received)

(* What is on the stream is what was written to its positions. *)
OnStream(start) ==
    \A i \in 1 .. Len(sends) : \A a \in 1 .. MessageSize(sends[i]) :
        \A j \in 1 .. Len(wire) :
            start[i] + a = ReadTo(start) + j => wire[j] = [msg |-> sends[i], at |-> a]

(* The stream ends where the writer is, unless some of it was lost. *)
EndOfStream(start) ==
    /\ ReadTo(start) + Len(wire) <= start[Len(sends) + 1]
    /\ \A w \in Writer : connected =>
          ReadTo(start) + Len(wire) =
              IF sending[w] = NoMessage THEN start[Len(sends) + 1]
                                        ELSE start[Len(sends)] + offset[w]

(* The message of send_message is the last one taken. *)
SendsLast ==
    \A w \in Writer : sending[w] # NoMessage =>
        Len(sends) > 0 /\ sending[w] = sends[Len(sends)]

(* What is received is the beginning of the message after those delivered. *)
ReceivesNext ==
    /\ expected # HeaderSize \/ received # <<>> => Len(delivered) < Len(sends)
    /\ expected # HeaderSize => expected = MessageSize(sends[Len(delivered) + 1])
    /\ \A j \in 1 .. Len(received) :
          received[j] = [msg |-> sends[Len(delivered) + 1], at |-> j]

Ordered(start) ==
    /\ Layout(start)
    /\ DeliveredInOrder
    /\ connected => reading
    /\ SendsLast
    /\ reading => OnStream(start) /\ EndOfStream(start) /\ ReceivesNext

OrderInv == SendInv /\ \E start \in [1 .. Len(sends) + 1 -> Nat] : Ordered(start)

-----------------------------------------------------------------------------
(* What is written. *)

(* Only the beginning of m looks like it, and so for its header. *)
LEMMA WrittenIsOne ==
    ASSUME NEW m \in Message, NEW q \in Message, NEW k \in Nat \ {0}, NEW l \in Nat \ {0},
           Written(m, 0, k) = Written(q, 0, l)
    PROVE  m = q
<1>1. 1 \in 1 .. k /\ 1 \in 1 .. l
  OBVIOUS
<1>2. Written(m, 0, k)[1] = [msg |-> m, at |-> 0 + 1]
  BY <1>1 DEF Written
<1>3. Written(q, 0, l)[1] = [msg |-> q, at |-> 0 + 1]
  BY <1>1 DEF Written
<1>4. [msg |-> m, at |-> 0 + 1].msg = [msg |-> q, at |-> 0 + 1].msg
  BY <1>2, <1>3
<1> QED BY <1>4

(* The header of m says its size, and m is what its units are read as. *)
LEMMA ReadAsWritten ==
    ASSUME NEW m \in Message
    PROVE  /\ SizesRead(Written(m, 0, HeaderSize)) = {PayloadSize[m]}
           /\ MessageRead(Written(m, 0, MessageSize(m))) = m
<1>1. \A q \in Message : IsHeaderOf(Written(m, 0, HeaderSize), q) <=> q = m
  BY WrittenIsOne, HeaderSizeAssumption DEF IsHeaderOf
<1>2. SizesRead(Written(m, 0, HeaderSize)) = {PayloadSize[m]}
  BY <1>1 DEF SizesRead
<1>3. \A q \in Message : IsMessage(Written(m, 0, MessageSize(m)), q) <=> q = m
  BY WrittenIsOne, MessageSizeType DEF IsMessage
<1>4. MessageRead(Written(m, 0, MessageSize(m))) = m
  BY <1>3 DEF MessageRead
<1> QED BY <1>2, <1>4

-----------------------------------------------------------------------------
(* The reader. *)

(* What a reading step has is the beginning of the next message. *)
LEMMA ConsumeInOrder ==
    ASSUME SendInv, NEW start, Ordered(start), NEW k \in 1 .. Capacity, Consume(k)
    PROVE  /\ Len(delivered) + 1 \in 1 .. Len(sends)
           /\ sends[Len(delivered) + 1] \in Message
           /\ Len(received) + k <= MessageSize(sends[Len(delivered) + 1])
           /\ Len(received) + k <= expected
           /\ received \o SubSeq(wire, 1, k) =
                 Written(sends[Len(delivered) + 1], 0, Len(received) + k)
           /\ Len(received \o SubSeq(wire, 1, k)) = Len(received) + k
           /\ Len(wire') = Len(wire) - k
           /\ \A j \in 1 .. Len(wire) - k : wire'[j] = wire[k + j]
<1> DEFINE d == Len(delivered)
           m == sends[d + 1]
<1>1. /\ wire \in Seq(Unit) /\ received \in Seq(Unit) /\ sends \in Seq(Message)
      /\ Len(wire) \in Nat /\ Len(received) \in Nat /\ d \in Nat /\ Len(sends) \in Nat
      /\ expected \in Nat /\ HeaderSize \in Nat
      /\ k \in Nat \ {0} /\ k <= Len(wire) /\ k <= expected - Len(received)
      /\ reading /\ wire' = SubSeq(wire, k + 1, Len(wire))
  BY HeaderSizeAssumption, CapacityAssumption DEF SendInv, TypeOK, Consume
<1>2. /\ d <= Len(sends)
      /\ start \in [1 .. Len(sends) + 1 -> Nat]
      /\ start[d + 1] + Len(received) + Len(wire) <= start[Len(sends) + 1]
  BY <1>1 DEF Ordered, DeliveredInOrder, Layout, EndOfStream, ReadTo
<1>3. d + 1 \in 1 .. Len(sends)
  <2>0. d + 1 \in 1 .. Len(sends) + 1
    BY <1>1, <1>2
  <2>1. start[d + 1] \in Nat
    BY <1>2, <2>0
  <2>2. d # Len(sends)
    BY <1>1, <1>2, <2>1
  <2> QED BY <1>1, <1>2, <2>2
<1>4. m \in Message /\ MessageSize(m) \in Nat /\ HeaderSize <= MessageSize(m)
  <2>1. m \in Message
    BY <1>1, <1>3
  <2> QED BY <1>1, <2>1, MessageSizeType DEF MessageSize
<1>5. Len(received) + k <= expected /\ Len(received) + k <= MessageSize(m)
  BY <1>1, <1>4 DEF Ordered, ReceivesNext
<1>6. /\ SubSeq(wire, 1, k) \in Seq(Unit) /\ Len(SubSeq(wire, 1, k)) = k
      /\ \A j \in 1 .. k : SubSeq(wire, 1, k)[j] = wire[j]
      /\ Len(wire') = Len(wire) - k
      /\ \A j \in 1 .. Len(wire) - k : wire'[j] = wire[k + j]
  BY <1>1, SubSeqProperties
<1> DEFINE read == SubSeq(wire, 1, k)
           units == received \o read
<1>7. /\ units \in Seq(Unit) /\ Len(units) = Len(received) + k
      /\ \A j \in 1 .. Len(received) + k :
            units[j] = IF j <= Len(received) THEN received[j] ELSE read[j - Len(received)]
  BY <1>1, <1>6, ConcatProperties
<1>8. ASSUME NEW j \in 1 .. Len(received) + k
      PROVE  units[j] = [msg |-> m, at |-> j]
  <2>1. CASE j <= Len(received)
    BY <1>1, <1>7, <2>1 DEF Ordered, ReceivesNext
  <2>2. CASE j > Len(received)
    <3>1. j - Len(received) \in 1 .. k /\ j - Len(received) \in 1 .. Len(wire)
      BY <1>1, <2>2
    <3>2. units[j] = wire[j - Len(received)]
      BY <1>6, <1>7, <2>2, <3>1
    <3>3. j \in 1 .. MessageSize(m)
      BY <1>1, <1>4, <1>5
    <3>4. start[d + 1] + j = ReadTo(start) + (j - Len(received))
      <4>0. d + 1 \in 1 .. Len(sends) + 1
        BY <1>1, <1>2
      <4>1. start[d + 1] \in Nat
        BY <1>2, <4>0
      <4> QED BY <1>1, <4>1 DEF ReadTo
    <3> QED BY <1>1, <1>3, <3>1, <3>2, <3>3, <3>4 DEF Ordered, OnStream
  <2> QED BY <1>1, <2>1, <2>2
<1>9. units = Written(m, 0, Len(received) + k)
  <2>1. units = [j \in 1 .. Len(received) + k |-> units[j]]
    BY <1>1, <1>7
  <2>2. \A j \in 1 .. Len(received) + k : [msg |-> m, at |-> j] = [msg |-> m, at |-> 0 + j]
    BY <1>1
  <2> HIDE DEF units, m
  <2> QED BY <1>8, <2>1, <2>2 DEF Written
<1> QED BY <1>3, <1>4, <1>5, <1>6, <1>7, <1>9

(* The reader goes on by the k units it took from the stream. *)
LEMMA ReaderGoesOn ==
    ASSUME SendInv, NEW start, Ordered(start), NEW k \in 1 .. Capacity, Consume(k),
           ReadTo(start)' = ReadTo(start) + k
    PROVE  OnStream(start)' /\ EndOfStream(start)'
<1>1. /\ k \in Nat /\ k <= Len(wire) /\ Len(wire) \in Nat /\ reading
      /\ UNCHANGED <<sending, offset, sends, connected>>
  BY CapacityAssumption DEF SendInv, TypeOK, Consume, writerVars
<1>2. /\ Len(wire') = Len(wire) - k
      /\ \A j \in 1 .. Len(wire) - k : wire'[j] = wire[k + j]
  BY ConsumeInOrder
<1>3. ReadTo(start) \in Nat
  <2>1. /\ start \in [1 .. Len(sends) + 1 -> Nat] /\ Len(delivered) + 1 \in 1 .. Len(sends) + 1
        /\ Len(received) \in Nat
    BY DEF SendInv, TypeOK, Ordered, Layout, DeliveredInOrder
  <2> QED BY <2>1 DEF ReadTo
<1>4. ReadTo(start)' + Len(wire') = ReadTo(start) + Len(wire)
  BY <1>1, <1>2, <1>3
<1>5. EndOfStream(start)'
  BY <1>1, <1>4 DEF Ordered, EndOfStream
<1>6. ASSUME NEW i \in 1 .. Len(sends), NEW a \in 1 .. MessageSize(sends[i]),
             NEW j \in 1 .. Len(wire'), start[i] + a = ReadTo(start)' + j
      PROVE  wire'[j] = [msg |-> sends[i], at |-> a]
  <2>1. k + j \in 1 .. Len(wire) /\ wire'[j] = wire[k + j]
    BY <1>1, <1>2
  <2>2. start[i] + a = ReadTo(start) + (k + j)
    BY <1>1, <1>3, <1>6
  <2> QED BY <1>1, <2>1, <2>2 DEF Ordered, OnStream
<1>7. OnStream(start)'
  BY <1>1, <1>6 DEF OnStream, MessageSize
<1> QED BY <1>5, <1>7

(* A part of a header or a payload was read. *)
LEMMA ReadSomeInOrder ==
    ASSUME SendInv, NEW start, Ordered(start), ReadSome
    PROVE  Ordered(start)'
<1>1. PICK k \in 1 .. Capacity :
         /\ Consume(k) /\ received' = received \o SubSeq(wire, 1, k)
         /\ UNCHANGED <<reading, expected, delivered>>
  BY DEF ReadSome
<1> DEFINE m == sends[Len(delivered) + 1]
<1>2. /\ Len(delivered) + 1 \in 1 .. Len(sends)
      /\ received' = Written(m, 0, Len(received) + k) /\ Len(received') = Len(received) + k
  BY <1>1, ConsumeInOrder
<1>3. /\ Len(delivered) \in Nat /\ Len(received) \in Nat /\ Len(sends) \in Nat /\ k \in Nat
      /\ start \in [1 .. Len(sends) + 1 -> Nat] /\ reading
      /\ UNCHANGED <<sending, offset, sends, failed, connected>>
  BY <1>1, CapacityAssumption DEF SendInv, TypeOK, Ordered, Layout, Consume, writerVars
<1>4. ReadTo(start)' = ReadTo(start) + k
  <2>1. start[Len(delivered) + 1] \in Nat
    BY <1>2, <1>3
  <2> QED BY <1>1, <1>2, <1>3, <2>1 DEF ReadTo
<1>5. OnStream(start)' /\ EndOfStream(start)'
  BY <1>1, <1>4, ReaderGoesOn
<1>6. \A j \in 1 .. Len(received') : received'[j] = [msg |-> m, at |-> j]
  BY <1>2, <1>3 DEF Written
<1>7. ReceivesNext'
  BY <1>1, <1>2, <1>3, <1>6 DEF Ordered, ReceivesNext, MessageSize
<1>8. Layout(start)' /\ DeliveredInOrder' /\ SendsLast' /\ (connected => reading)'
  BY <1>1, <1>3 DEF Ordered, Layout, DeliveredInOrder, SendsLast, MessageSize
<1> QED BY <1>5, <1>7, <1>8 DEF Ordered

(* The header that was read is the next message's. *)
LEMMA ReadHeaderInOrder ==
    ASSUME SendInv, NEW start, Ordered(start), ReadHeader
    PROVE  Ordered(start)'
<1>1. PICK k \in 1 .. Capacity :
         /\ Consume(k) /\ expected = HeaderSize
         /\ ReadEnough(received \o SubSeq(wire, 1, k))
         /\ \E size \in SizesRead(received \o SubSeq(wire, 1, k)) :
               /\ reading' = (size > 0)
               /\ received' = IF size > 0 THEN received \o SubSeq(wire, 1, k) ELSE <<>>
               /\ expected' = IF size > 0 THEN WantPayload(size) ELSE expected
         /\ UNCHANGED delivered
  BY DEF ReadHeader
<1> DEFINE m == sends[Len(delivered) + 1]
<1>2. /\ Len(delivered) + 1 \in 1 .. Len(sends) /\ m \in Message
      /\ received \o SubSeq(wire, 1, k) = Written(m, 0, Len(received) + k)
      /\ Len(received \o SubSeq(wire, 1, k)) = Len(received) + k
  BY <1>1, ConsumeInOrder
<1>3. /\ Len(delivered) \in Nat /\ Len(received) \in Nat /\ Len(sends) \in Nat /\ k \in Nat
      /\ sends \in Seq(Message)
      /\ start \in [1 .. Len(sends) + 1 -> Nat] /\ reading
      /\ UNCHANGED <<sending, offset, sends, failed, connected>>
  BY <1>1, CapacityAssumption DEF SendInv, TypeOK, Ordered, Layout, Consume, writerVars
<1>4. Len(received) + k = HeaderSize /\ HeaderSize \in Nat \ {0}
  BY <1>1, <1>2, HeaderSizeAssumption DEF ReadEnough
<1>5. PayloadSize[m] > 0 /\ PayloadSize[m] \in Nat
  <2>1. m \in Elements(sends)
    BY <1>2 DEF Elements
  <2> QED BY <1>2, <2>1, MessageSizeType DEF SendInv, OnlyValidTaken
<1>6. SizesRead(received \o SubSeq(wire, 1, k)) = {PayloadSize[m]}
  BY <1>2, <1>4, ReadAsWritten
<1>7. /\ reading' = TRUE
      /\ received' = Written(m, 0, HeaderSize) /\ Len(received') = Len(received) + k
      /\ expected' = MessageSize(m)
  BY <1>1, <1>2, <1>4, <1>5, <1>6 DEF WantPayload, MessageSize
<1>8. ReadTo(start)' = ReadTo(start) + k
  <2>1. start[Len(delivered) + 1] \in Nat
    BY <1>2, <1>3
  <2> QED BY <1>1, <1>3, <1>7, <2>1 DEF ReadTo
<1>9. OnStream(start)' /\ EndOfStream(start)'
  BY <1>1, <1>8, ReaderGoesOn
<1>10. \A j \in 1 .. Len(received') : received'[j] = [msg |-> m, at |-> j]
  BY <1>2, <1>3, <1>4, <1>7 DEF Written
<1>11. ReceivesNext'
  BY <1>1, <1>2, <1>3, <1>7, <1>10 DEF ReceivesNext, MessageSize
<1>12. Layout(start)' /\ DeliveredInOrder' /\ SendsLast' /\ (connected => reading)'
  BY <1>1, <1>3, <1>7 DEF Ordered, Layout, DeliveredInOrder, SendsLast, MessageSize
<1> QED BY <1>9, <1>11, <1>12 DEF Ordered

(* The message that was read is the next one. *)
LEMMA ReadPayloadInOrder ==
    ASSUME SendInv, NEW start, Ordered(start), ReadPayload
    PROVE  Ordered(start)'
<1>1. PICK k \in 1 .. Capacity :
         /\ Consume(k) /\ expected # HeaderSize
         /\ ReadEnough(received \o SubSeq(wire, 1, k))
         /\ delivered' = Append(delivered, MessageRead(received \o SubSeq(wire, 1, k)))
         /\ received' = <<>> /\ expected' = HeaderSize /\ UNCHANGED reading
  BY DEF ReadPayload
<1> DEFINE m == sends[Len(delivered) + 1]
<1>2. /\ Len(delivered) + 1 \in 1 .. Len(sends) /\ m \in Message
      /\ received \o SubSeq(wire, 1, k) = Written(m, 0, Len(received) + k)
      /\ Len(received \o SubSeq(wire, 1, k)) = Len(received) + k
  BY <1>1, ConsumeInOrder
<1>3. /\ Len(delivered) \in Nat /\ Len(received) \in Nat /\ Len(sends) \in Nat /\ k \in Nat
      /\ delivered \in Seq(Message \cup {Mixed})
      /\ start \in [1 .. Len(sends) + 1 -> Nat] /\ reading
      /\ UNCHANGED <<sending, offset, sends, failed, connected>>
  BY <1>1, CapacityAssumption DEF SendInv, TypeOK, Ordered, Layout, Consume, writerVars
<1>4. Len(received) + k = MessageSize(m)
  BY <1>1, <1>2, <1>3 DEF ReadEnough, Ordered, ReceivesNext
<1>5. delivered' = Append(delivered, m)
  BY <1>1, <1>2, <1>4, ReadAsWritten
<1>6. /\ Len(delivered') = Len(delivered) + 1
      /\ \A j \in 1 .. Len(delivered) : delivered'[j] = delivered[j]
      /\ delivered'[Len(delivered) + 1] = m
  BY <1>2, <1>3, <1>5
<1>7. DeliveredInOrder'
  <2>1. Len(delivered') <= Len(sends)
    BY <1>2, <1>3, <1>6
  <2>2. \A j \in 1 .. Len(delivered) : delivered[j] = sends[j]
    BY DEF Ordered, DeliveredInOrder
  <2>3. \A j \in 1 .. Len(delivered') : j \in 1 .. Len(delivered) \/ j = Len(delivered) + 1
    BY <1>3, <1>6
  <2>4. \A j \in 1 .. Len(delivered') : delivered'[j] = sends[j]
    BY <1>6, <2>2, <2>3
  <2> QED BY <1>3, <2>1, <2>4 DEF DeliveredInOrder
<1>8. ReadTo(start)' = ReadTo(start) + k
  <2>1. start[Len(delivered) + 1 + 1] = start[Len(delivered) + 1] + MessageSize(m)
    BY <1>2 DEF Ordered, Layout
  <2>2. start[Len(delivered) + 1] \in Nat
    BY <1>2, <1>3
  <2>3. Len(received') = 0
    BY <1>1
  <2>4. start[Len(delivered) + 1 + 1] \in Nat
    BY <1>2, <1>3
  <2>5. ReadTo(start)' = start[Len(delivered) + 1 + 1]
    BY <1>6, <2>3, <2>4 DEF ReadTo
  <2> QED BY <1>3, <1>4, <2>1, <2>2, <2>5 DEF ReadTo
<1>9. OnStream(start)' /\ EndOfStream(start)'
  BY <1>1, <1>8, ReaderGoesOn
<1>10. ReceivesNext'
  BY <1>1 DEF ReceivesNext
<1>11. Layout(start)' /\ SendsLast' /\ (connected => reading)'
  BY <1>1, <1>3 DEF Ordered, Layout, SendsLast, MessageSize
<1> QED BY <1>7, <1>9, <1>10, <1>11 DEF Ordered

-----------------------------------------------------------------------------
(* The writers. *)

(* The types that the steps of a writer need. *)
LEMMA WriterTypes ==
    ASSUME SendInv, NEW start, Ordered(start)
    PROVE  /\ Len(sends) \in Nat /\ sends \in Seq(Message)
           /\ Len(delivered) \in Nat /\ Len(delivered) <= Len(sends)
           /\ Len(wire) \in Nat /\ wire \in Seq(Unit) /\ Len(received) \in Nat
           /\ start \in [1 .. Len(sends) + 1 -> Nat]
           /\ ReadTo(start) \in Nat
           /\ \A i \in 1 .. Len(sends) : sends[i] \in Message /\ MessageSize(sends[i]) \in Nat
<1>1. /\ Len(sends) \in Nat /\ sends \in Seq(Message)
      /\ Len(delivered) \in Nat /\ Len(delivered) <= Len(sends)
      /\ Len(wire) \in Nat /\ wire \in Seq(Unit) /\ Len(received) \in Nat
      /\ start \in [1 .. Len(sends) + 1 -> Nat]
  BY DEF SendInv, TypeOK, Ordered, Layout, DeliveredInOrder
<1>2. ReadTo(start) \in Nat
  <2>1. Len(delivered) + 1 \in 1 .. Len(sends) + 1
    BY <1>1
  <2>2. start[Len(delivered) + 1] \in Nat
    BY <1>1, <2>1
  <2> QED BY <1>1, <2>2 DEF ReadTo
<1>3. \A i \in 1 .. Len(sends) : sends[i] \in Message /\ MessageSize(sends[i]) \in Nat
  BY <1>1, MessageSizeType
<1> QED BY <1>1, <1>2, <1>3

(* A write of k units continues the message where it was left. *)
LEMMA WriteSomeInOrder ==
    ASSUME OneWriter, SendInv, NEW start, Ordered(start), NEW w \in Writer, WriteSome(w)
    PROVE  Ordered(start)'
<1> DEFINE n == Len(sends)
<1>1. PICK k \in 1 .. Capacity :
         /\ Transmit(w, k)
         /\ IF offset[w] + k < MessageSize(sending[w])
            THEN /\ offset' = [offset EXCEPT ![w] = offset[w] + k]
                 /\ UNCHANGED sending
            ELSE /\ sending' = [sending EXCEPT ![w] = NoMessage]
                 /\ offset' = [offset EXCEPT ![w] = 0]
  BY DEF WriteSome
<1>2. UNCHANGED <<sends, failed, connected, reading, received, expected, delivered>>
  BY DEF WriteSome, readerVars
<1>3. PICK m \in Message : m = sending[w]
  BY <1>1, TransmitLemma DEF SendInv
<1>4. /\ offset[w] \in Nat /\ k \in Nat \ {0} /\ MessageSize(m) \in Nat
      /\ offset[w] + k <= MessageSize(m)
      /\ wire' = IF connected THEN wire \o Written(m, offset[w], k) ELSE wire
  BY <1>1, <1>3, TransmitLemma, CapacityAssumption DEF SendInv, Transmit
<1>5. n \in 1 .. n /\ m = sends[n] /\ m # NoMessage
  BY <1>3, WriterTypes, MessageAssumption DEF Ordered, SendsLast
<1>6. Layout(start)' /\ DeliveredInOrder' /\ (connected => reading)'
  BY <1>2 DEF Ordered, Layout, DeliveredInOrder, MessageSize
<1>7. /\ \A v \in Writer : v = w
      /\ sending' \in [Writer -> Message \cup {NoMessage}]
      /\ sending[w] = m
      /\ sending'[w] = IF offset[w] + k < MessageSize(m) THEN m ELSE NoMessage
      /\ offset'[w] = IF offset[w] + k < MessageSize(m) THEN offset[w] + k ELSE 0
  BY <1>1, <1>3 DEF OneWriter, SendInv, TypeOK
<1>8. SendsLast'
  BY <1>2, <1>5, <1>7, WriterTypes DEF SendsLast
<1>9. ReceivesNext' <=> ReceivesNext
  BY <1>2 DEF ReceivesNext, MessageSize
<1>10. ReadTo(start)' = ReadTo(start)
  BY <1>2 DEF ReadTo
<1>11. CASE ~connected
  <2>1. wire' = wire
    BY <1>4, <1>11
  <2>2. reading => OnStream(start)' /\ EndOfStream(start)'
    BY <1>2, <1>10, <1>11, <2>1 DEF Ordered, OnStream, EndOfStream, MessageSize
  <2> QED BY <1>2, <1>6, <1>8, <1>9, <2>2 DEF Ordered
<1>12. CASE connected
  <2>1. reading /\ ReadTo(start) + Len(wire) = start[n] + offset[w]
    BY <1>3, <1>5, <1>12 DEF Ordered, EndOfStream
  <2>2. PICK size \in Nat, o \in Nat, before \in Nat, len \in Nat, read \in Nat :
           /\ size = MessageSize(m) /\ o = offset[w] /\ before = start[n]
           /\ len = Len(wire) /\ read = ReadTo(start)
    <3>1. start[n] \in Nat
      BY <1>5, WriterTypes
    <3> QED BY <1>4, <3>1, WriterTypes
  <2>3. start[n + 1] = before + size /\ n \in Nat
    BY <1>5, <2>2, WriterTypes DEF Ordered, Layout
  <2>4. read + len = before + o /\ o + k <= size /\ k \in Nat \ {0}
    BY <1>4, <2>1, <2>2
  <2>5. /\ Len(wire') = len + k
        /\ \A j \in 1 .. len : wire'[j] = wire[j]
        /\ \A j \in len + 1 .. len + k : wire'[j] = [msg |-> m, at |-> o + (j - len)]
    <3> DEFINE units == Written(m, o, k)
    <3>1. units \in Seq(Unit) /\ Len(units) = k
      BY <2>2, <2>4, WrittenLemma
    <3>2. \A j \in 1 .. k : units[j] = [msg |-> m, at |-> o + j]
      BY <2>4 DEF Written
    <3>3. wire' = wire \o units
      BY <1>4, <1>12, <2>2
    <3> HIDE DEF units
    <3>4. /\ Len(wire \o units) = len + k
          /\ \A j \in 1 .. len + k :
                (wire \o units)[j] = IF j <= len THEN wire[j] ELSE units[j - len]
      BY <2>2, <3>1, WriterTypes, ConcatProperties
    <3>5. \A j \in 1 .. len : j \in 1 .. len + k /\ j <= len
      BY <2>4
    <3>6. \A j \in len + 1 .. len + k : j \in 1 .. len + k /\ ~(j <= len) /\ j - len \in 1 .. k
      BY <2>4
    <3> QED BY <3>2, <3>3, <3>4, <3>5, <3>6
  <2>6. EndOfStream(start)'
    <3>1. read + Len(wire') = before + o + k /\ before + o + k <= before + size
      BY <2>4, <2>5
    <3>2. CASE o + k < size
      <4>1. sending'[w] # NoMessage /\ offset'[w] = o + k
        BY <1>5, <1>7, <2>2, <3>2
      <4>2. read + Len(wire') = before + offset'[w]
        BY <2>4, <3>1, <4>1
      <4> QED BY <1>2, <1>7, <1>10, <2>2, <2>3, <3>1, <4>1, <4>2 DEF EndOfStream
    <3>3. CASE ~(o + k < size)
      <4>1. sending'[w] = NoMessage
        BY <1>7, <2>2, <3>3
      <4>2. read + Len(wire') = before + size
        BY <2>4, <3>1, <3>3
      <4> QED BY <1>2, <1>7, <1>10, <2>2, <2>3, <3>1, <4>1, <4>2 DEF EndOfStream
    <3> QED BY <3>2, <3>3
  <2>7. ASSUME NEW i \in 1 .. n, NEW a \in 1 .. MessageSize(sends[i]),
               NEW j \in 1 .. Len(wire'), start[i] + a = read + j
        PROVE  wire'[j] = [msg |-> sends[i], at |-> a]
    <3>1. CASE j \in 1 .. len
      BY <2>1, <2>2, <2>5, <2>7, <3>1 DEF Ordered, OnStream
    <3>2. CASE j \in len + 1 .. len + k
      <4>1. start[i] \in Nat /\ MessageSize(sends[i]) \in Nat /\ i \in Nat /\ a \in Nat
        <5>1. i \in 1 .. n + 1 /\ i \in Nat
          BY <2>3
        <5>2. start[i] \in Nat /\ MessageSize(sends[i]) \in Nat
          BY <5>1, WriterTypes
        <5> QED BY <5>1, <5>2
      <4>2. start[i] + a > before
        BY <2>4, <2>7, <3>2, <4>1
      <4>3. i = n
        <5>1. n \in 1 .. n + 1
          BY <2>3
        <5>2. i < n => start[i] + MessageSize(sends[i]) <= before
          BY <2>2, <5>1 DEF Ordered, Layout
        <5> HIDE DEF n
        <5> QED BY <2>3, <4>1, <4>2, <5>2
      <4>4. start[i] = before
        BY <2>2, <4>3
      <4>5. a = o + (j - len)
        BY <2>4, <2>7, <3>2, <4>1, <4>4
      <4> QED BY <1>5, <2>5, <3>2, <4>3, <4>5
    <3>3. j \in 1 .. len \/ j \in len + 1 .. len + k
      BY <2>4, <2>5
    <3> QED BY <3>1, <3>2, <3>3
  <2>8. OnStream(start)'
    <3>1. \A i \in 1 .. Len(sends') : \A a \in 1 .. MessageSize(sends'[i]) :
            \A j \in 1 .. Len(wire') :
               start[i] + a = ReadTo(start)' + j => wire'[j] = [msg |-> sends'[i], at |-> a]
      <4>1. sends' = sends /\ ReadTo(start)' = read
        BY <1>2, <1>10, <2>2
      <4> SUFFICES ASSUME NEW i \in 1 .. Len(sends), NEW a \in 1 .. MessageSize(sends[i]),
                          NEW j \in 1 .. Len(wire'), start[i] + a = read + j
                   PROVE  wire'[j] = [msg |-> sends[i], at |-> a]
        BY <4>1
      <4> QED BY <2>7
    <3> QED BY <3>1 DEF OnStream, MessageSize
  <2> QED BY <1>2, <1>6, <1>8, <1>9, <2>1, <2>6, <2>8 DEF Ordered
<1> QED BY <1>11, <1>12

(* A message that is taken lies behind all that was taken before. *)
LEMMA SendMessageInOrder ==
    ASSUME OneWriter, SendInv, NEW start, Ordered(start), NEW w \in Writer, SendMessage(w)
    PROVE  \E later \in [1 .. Len(sends') + 1 -> Nat] : Ordered(later)'
<1>1. PICK m \in Message : /\ sending' = [sending EXCEPT ![w] = m]
                           /\ sends' = Append(sends, m)
  BY DEF SendMessage
<1>2. /\ sending[w] = NoMessage
      /\ UNCHANGED <<offset, failed, wire, connected, reading, received, expected, delivered>>
  BY DEF SendMessage, readerVars
<1>3. PICK n \in Nat, size \in Nat : n = Len(sends) /\ size = MessageSize(m)
  BY WriterTypes, MessageSizeType
<1>4. /\ m # NoMessage /\ offset[w] = 0
      /\ \A v \in Writer : v = w
      /\ sending'[w] = m
  BY <1>1, <1>2, MessageAssumption DEF OneWriter, SendInv, TypeOK, InBounds
<1>5. /\ Len(sends') = n + 1
      /\ \A i \in 1 .. n : sends'[i] = sends[i]
      /\ sends'[n + 1] = m
  BY <1>1, <1>3, WriterTypes
<1>6. \A i \in 1 .. n + 1 : start[i] \in Nat
  BY <1>3, WriterTypes
<1>7. PICK end \in Nat : end = start[n + 1]
  <2>1. n + 1 \in 1 .. n + 1
    OBVIOUS
  <2> QED BY <1>6, <2>1
<1>8. PICK later : /\ later \in [1 .. n + 2 -> Nat]
                   /\ \A i \in 1 .. n + 1 : later[i] = start[i]
                   /\ later[n + 2] = end + size
  <2> DEFINE f == [i \in 1 .. n + 2 |-> IF i = n + 2 THEN end + size ELSE start[i]]
  <2>1. \A i \in 1 .. n + 1 : i \in 1 .. n + 2 /\ i # n + 2
    OBVIOUS
  <2>2. n + 2 \in 1 .. n + 2 /\ end + size \in Nat
    OBVIOUS
  <2>3. \A i \in 1 .. n + 2 : i # n + 2 => i \in 1 .. n + 1
    OBVIOUS
  <2>4. f \in [1 .. n + 2 -> Nat]
    BY <1>6, <2>2, <2>3
  <2>5. \A i \in 1 .. n + 1 : f[i] = start[i]
    BY <2>1
  <2>6. f[n + 2] = end + size
    BY <2>2
  <2> HIDE DEF f
  <2> QED BY <2>4, <2>5, <2>6
<1>9. later[n + 1] = end
  <2>1. n + 1 \in 1 .. n + 1
    OBVIOUS
  <2> QED BY <1>7, <1>8, <2>1
<1>10. Layout(later)'
  <2>1. \A i \in 1 .. n : start[i + 1] = start[i] + MessageSize(sends[i])
    BY <1>3 DEF Ordered, Layout
  <2>2. \A i \in 1 .. n : \A j \in 1 .. n + 1 :
           i < j => start[i] + MessageSize(sends[i]) <= start[j]
    BY <1>3 DEF Ordered, Layout
  <2>3. \A i \in 1 .. n + 1 : i \in 1 .. n \/ i = n + 1
    OBVIOUS
  <2>4. \A i \in 1 .. n : MessageSize(sends'[i]) = MessageSize(sends[i]) /\ MessageSize(sends[i]) \in Nat
    BY <1>3, <1>5, WriterTypes
  <2>5. MessageSize(sends'[n + 1]) = size
    BY <1>3, <1>5
  <2>6. ASSUME NEW i \in 1 .. n + 1
        PROVE  later[i + 1] = later[i] + MessageSize(sends'[i])
    <3>1. CASE i \in 1 .. n
      <4>1. i \in 1 .. n + 1 /\ i + 1 \in 1 .. n + 1
        BY <3>1
      <4>2. later[i] = start[i] /\ later[i + 1] = start[i + 1]
        BY <1>8, <4>1
      <4> QED BY <2>1, <2>4, <3>1, <4>2
    <3>2. CASE i = n + 1
      <4>1. later[i + 1] = end + size
        BY <1>8, <3>2
      <4> QED BY <1>9, <2>5, <3>2, <4>1
    <3> QED BY <2>3, <3>1, <3>2
  <2>7. ASSUME NEW i \in 1 .. n + 1, NEW j \in 1 .. n + 2, i < j
        PROVE  later[i] + MessageSize(sends'[i]) <= later[j]
    <3>1. CASE j \in 1 .. n + 1
      <4>1. i \in 1 .. n
        BY <2>7, <3>1
      <4>2. start[i] + MessageSize(sends[i]) <= start[j]
        BY <2>2, <2>7, <3>1, <4>1
      <4> QED BY <1>8, <2>4, <3>1, <4>1, <4>2
    <3>2. CASE j = n + 2 /\ i \in 1 .. n
      <4>1. n + 1 \in 1 .. n + 1 /\ i < n + 1
        BY <3>2
      <4>2. start[i] + MessageSize(sends[i]) <= end
        BY <1>7, <2>2, <3>2, <4>1
      <4>3. later[i] = start[i] /\ start[i] \in Nat
        BY <1>6, <1>8
      <4>4. MessageSize(sends'[i]) = MessageSize(sends[i]) /\ MessageSize(sends[i]) \in Nat
        BY <2>4, <3>2
      <4>5. later[j] = end + size
        BY <1>8, <3>2
      <4> QED BY <4>2, <4>3, <4>4, <4>5
    <3>3. CASE j = n + 2 /\ i = n + 1
      <4>1. later[j] = end + size /\ later[i] = end
        BY <1>8, <1>9, <3>3
      <4> QED BY <2>5, <3>3, <4>1
    <3>4. j \in 1 .. n + 1 \/ j = n + 2
      OBVIOUS
    <3> QED BY <2>3, <3>1, <3>2, <3>3, <3>4
  <2>8. (n + 1) + 1 = n + 2
    OBVIOUS
  <2>9. later \in [1 .. (n + 1) + 1 -> Nat]
    BY <1>8, <2>8
  <2>10. /\ later \in [1 .. Len(sends') + 1 -> Nat]
         /\ \A i \in 1 .. Len(sends') : later[i + 1] = later[i] + MessageSize(sends'[i])
         /\ \A i \in 1 .. Len(sends') : \A j \in 1 .. Len(sends') + 1 :
               i < j => later[i] + MessageSize(sends'[i]) <= later[j]
    BY <1>5, <2>6, <2>7, <2>8, <2>9
  <2> QED BY <2>10 DEF Layout, MessageSize
<1>11. ReadTo(later)' = ReadTo(start)
  <2>1. Len(delivered) + 1 \in 1 .. n + 1
    BY <1>3, WriterTypes
  <2>2. later[Len(delivered) + 1] = start[Len(delivered) + 1]
    BY <1>8, <2>1
  <2> QED BY <1>2, <2>2 DEF ReadTo
<1>12. DeliveredInOrder' /\ (connected => reading)'
  <2>1. Len(delivered) \in Nat /\ Len(delivered) <= n
    BY <1>3, WriterTypes
  <2>2. \A j \in 1 .. Len(delivered) : j \in 1 .. n /\ delivered[j] = sends[j]
    BY <2>1, <1>3 DEF Ordered, DeliveredInOrder
  <2> QED BY <1>2, <1>5, <2>1, <2>2 DEF Ordered, DeliveredInOrder
<1>13. SendsLast'
  BY <1>4, <1>5 DEF SendsLast
<1>14. ASSUME reading
       PROVE  OnStream(later)' /\ EndOfStream(later)' /\ ReceivesNext'
  <2>1. PICK read \in Nat, len \in Nat : read = ReadTo(start) /\ len = Len(wire)
    BY WriterTypes
  <2>2. /\ read + len <= end
        /\ connected => read + len = end
    BY <1>2, <1>3, <1>7, <1>14, <2>1 DEF Ordered, EndOfStream
  <2>3. ASSUME NEW i \in 1 .. n + 1, NEW a \in 1 .. MessageSize(sends'[i]),
               NEW j \in 1 .. len, later[i] + a = read + j
        PROVE  wire[j] = [msg |-> sends'[i], at |-> a]
    <3>1. CASE i \in 1 .. n
      <4>1. sends'[i] = sends[i] /\ later[i] = start[i]
        BY <1>5, <1>8, <3>1
      <4> QED BY <1>3, <1>14, <2>1, <2>3, <3>1, <4>1 DEF Ordered, OnStream
    <3>2. CASE i = n + 1
      <4>1. later[i] = end /\ MessageSize(sends'[i]) = size
        BY <1>3, <1>5, <1>9, <3>2
      <4>2. a \in Nat \ {0}
        BY <4>1
      <4> QED BY <2>2, <2>3, <4>1, <4>2
    <3> QED BY <3>1, <3>2
  <2>4. OnStream(later)'
    <3>1. \A i \in 1 .. Len(sends') : \A a \in 1 .. MessageSize(sends'[i]) :
            \A j \in 1 .. Len(wire') :
               later[i] + a = ReadTo(later)' + j => wire'[j] = [msg |-> sends'[i], at |-> a]
      BY <1>2, <1>5, <1>11, <2>1, <2>3
    <3> QED BY <3>1 DEF OnStream, MessageSize
  <2>5. EndOfStream(later)'
    <3>1. (n + 1) + 1 = n + 2
      OBVIOUS
    <3>2. later[Len(sends') + 1] = end + size /\ later[Len(sends')] = end
      BY <1>5, <1>8, <1>9, <3>1
    <3>3. ReadTo(later)' + Len(wire') = read + len
      BY <1>2, <1>11, <2>1
    <3>4. ReadTo(later)' + Len(wire') <= later[Len(sends') + 1]
      BY <2>2, <3>2, <3>3
    <3>5. \A v \in Writer : connected' =>
             /\ sending'[v] # NoMessage
             /\ ReadTo(later)' + Len(wire') = later[Len(sends')] + offset'[v]
      BY <1>2, <1>4, <2>2, <3>2, <3>3
    <3> QED BY <3>4, <3>5 DEF EndOfStream
  <2>6. ReceivesNext'
    <3>1. CASE Len(delivered) < n
      <4>1. sends'[Len(delivered) + 1] = sends[Len(delivered) + 1]
        BY <1>3, <1>5, <3>1, WriterTypes
      <4>2. Len(delivered) < n + 1
        BY <3>1, WriterTypes
      <4> QED BY <1>2, <1>3, <1>5, <1>14, <4>1, <4>2 DEF Ordered, ReceivesNext, MessageSize
    <3>2. CASE ~(Len(delivered) < n)
      <4>1. expected = HeaderSize /\ received = <<>>
        BY <1>3, <1>14, <3>2 DEF Ordered, ReceivesNext
      <4> QED BY <1>2, <4>1 DEF ReceivesNext
    <3> QED BY <3>1, <3>2
  <2> QED BY <2>4, <2>5, <2>6
<1>15. Ordered(later)'
  BY <1>2, <1>10, <1>12, <1>13, <1>14 DEF Ordered
<1>16. later \in [1 .. Len(sends') + 1 -> Nat]
  BY <1>10 DEF Layout
<1> QED BY <1>15, <1>16

-----------------------------------------------------------------------------
(* Every step. *)

(* A step after which less is on the stream, or the connection is lost. *)
LEMMA LosesInOrder ==
    ASSUME SendInv, NEW start, Ordered(start),
           ReadFails \/ ConnectionFails \/ \E w \in Writer : WriteFails(w)
    PROVE  Ordered(start)'
<1>1. UNCHANGED <<sends, delivered, expected>> /\ connected' = FALSE
  BY DEF ReadFails, ConnectionFails, WriteFails, writerVars, readerVars, SendInv, TypeOK
<1>2. Layout(start)' /\ DeliveredInOrder' /\ (connected => reading)'
  BY <1>1 DEF Ordered, Layout, DeliveredInOrder, MessageSize
<1>3. SendsLast'
  <2>1. \A w \in Writer : sending'[w] \in {sending[w], NoMessage}
    BY DEF ReadFails, ConnectionFails, WriteFails, writerVars, SendInv, TypeOK
  <2> QED BY <1>1, <2>1 DEF Ordered, SendsLast
<1>4. CASE ReadFails
  BY <1>2, <1>3, <1>4 DEF ReadFails, Ordered
<1>5. CASE \E w \in Writer : WriteFails(w)
  <2>1. UNCHANGED <<wire, reading, received>>
    BY <1>5 DEF WriteFails, readerVars
  <2>2. ReadTo(start)' = ReadTo(start)
    BY <1>1, <2>1 DEF ReadTo
  <2>3. reading => OnStream(start)' /\ EndOfStream(start)' /\ ReceivesNext'
    BY <1>1, <2>1, <2>2 DEF Ordered, OnStream, EndOfStream, ReceivesNext, MessageSize
  <2> QED BY <1>2, <1>3, <2>1, <2>3 DEF Ordered
<1>6. CASE ConnectionFails
  <2>1. PICK k \in 0 .. Len(wire) : wire' = SubSeq(wire, 1, k)
    BY <1>6 DEF ConnectionFails
  <2>2. UNCHANGED <<reading, received>>
    BY <1>6 DEF ConnectionFails, readerVars
  <2>3. /\ Len(wire') = k /\ k \in Nat /\ k <= Len(wire)
        /\ \A j \in 1 .. k : wire'[j] = wire[j]
    BY <2>1, WriterTypes, SubSeqProperties
  <2>4. ReadTo(start)' = ReadTo(start)
    BY <1>1, <2>2 DEF ReadTo
  <2>5. reading => OnStream(start)'
    <3> SUFFICES ASSUME reading
                 PROVE  OnStream(start)'
      OBVIOUS
    <3>1. \A j \in 1 .. Len(wire') : j \in 1 .. Len(wire) /\ wire'[j] = wire[j]
      BY <2>3, WriterTypes
    <3>2. OnStream(start)
      BY DEF Ordered
    <3>3. \A i \in 1 .. Len(sends') : \A a \in 1 .. MessageSize(sends'[i]) :
            \A j \in 1 .. Len(wire') :
               start[i] + a = ReadTo(start)' + j => wire'[j] = [msg |-> sends'[i], at |-> a]
      BY <1>1, <2>4, <3>1, <3>2 DEF OnStream
    <3> QED BY <3>3 DEF OnStream, MessageSize
  <2>6. reading => EndOfStream(start)'
    <3>1. reading => ReadTo(start) + Len(wire') <= start[Len(sends) + 1]
      <4>1. Len(sends) + 1 \in 1 .. Len(sends) + 1
        BY WriterTypes
      <4>2. start[Len(sends) + 1] \in Nat
        BY <4>1, WriterTypes
      <4>3. reading => ReadTo(start) + Len(wire) <= start[Len(sends) + 1]
        BY DEF Ordered, EndOfStream
      <4> QED BY <2>3, <4>2, <4>3, WriterTypes
    <3> QED BY <1>1, <2>4, <3>1 DEF EndOfStream
  <2>7. reading => ReceivesNext'
    BY <1>1, <2>2 DEF Ordered, ReceivesNext, MessageSize
  <2> QED BY <1>2, <1>3, <2>2, <2>5, <2>6, <2>7 DEF Ordered
<1> QED BY <1>4, <1>5, <1>6

(* Every step keeps the order. *)
LEMMA OrderStep == OneWriter /\ OrderInv /\ [Next]_vars => OrderInv'
<1> SUFFICES ASSUME OneWriter, OrderInv, [Next]_vars
             PROVE  OrderInv'
  OBVIOUS
<1>1. SendInv /\ SendInv'
  BY StepSendInv DEF OrderInv
<1>2. PICK start \in [1 .. Len(sends) + 1 -> Nat] : Ordered(start)
  BY DEF OrderInv
<1>3. ASSUME Ordered(start)', UNCHANGED sends
      PROVE  OrderInv'
  BY <1>1, <1>2, <1>3 DEF OrderInv
<1>4. CASE UNCHANGED vars \/ \E w \in Writer : SendRefuses(w)
  <2>1. UNCHANGED <<sending, offset, sends, wire, connected, readerVars>>
    BY <1>4 DEF vars, writerVars, SendRefuses
  <2>2. Ordered(start)'
    BY <1>2, <2>1 DEF readerVars, Ordered, Layout, DeliveredInOrder, SendsLast, OnStream,
                      EndOfStream, ReceivesNext, ReadTo, MessageSize
  <2> QED BY <1>3, <2>1, <2>2
<1>5. ASSUME NEW w \in Writer, SendMessage(w)
      PROVE  OrderInv'
  BY <1>1, <1>2, <1>5, SendMessageInOrder DEF OrderInv
<1>6. ASSUME NEW w \in Writer, WriteSome(w)
      PROVE  OrderInv'
  BY <1>1, <1>2, <1>3, <1>6, WriteSomeInOrder DEF WriteSome
<1>7. CASE ReadFails \/ ConnectionFails \/ \E w \in Writer : WriteFails(w)
  BY <1>1, <1>2, <1>3, <1>7, LosesInOrder DEF ReadFails, ConnectionFails, WriteFails, writerVars
<1>8. CASE ReadSome
  BY <1>1, <1>2, <1>3, <1>8, ReadSomeInOrder DEF ReadSome, Consume, writerVars
<1>9. CASE ReadHeader
  BY <1>1, <1>2, <1>3, <1>9, ReadHeaderInOrder DEF ReadHeader, Consume, writerVars
<1>10. CASE ReadPayload
  BY <1>1, <1>2, <1>3, <1>10, ReadPayloadInOrder DEF ReadPayload, Consume, writerVars
<1> QED BY <1>4, <1>5, <1>6, <1>7, <1>8, <1>9, <1>10 DEF Next

(* Nothing is taken at first. *)
LEMMA OrderInit == Init => OrderInv
<1> SUFFICES ASSUME Init
             PROVE  OrderInv
  OBVIOUS
<1>1. SendInv
  BY InitSendInv
<1> DEFINE start == [i \in 1 .. 1 |-> 0]
<1>2. start \in [1 .. Len(sends) + 1 -> Nat] /\ Len(sends) = 0 /\ start[1] = 0
  BY DEF Init
<1>3. ReadTo(start) = 0 /\ Len(wire) = 0 /\ Len(received) = 0 /\ Len(delivered) = 0
  BY <1>2 DEF Init, ReadTo
<1> HIDE DEF start
<1>4. Layout(start) /\ DeliveredInOrder /\ SendsLast
  BY <1>2, <1>3 DEF Init, Layout, DeliveredInOrder, SendsLast
<1>5. OnStream(start) /\ EndOfStream(start) /\ ReceivesNext
  BY <1>2, <1>3 DEF Init, OnStream, EndOfStream, ReceivesNext
<1>6. Ordered(start)
  BY <1>4, <1>5 DEF Init, Ordered
<1> QED BY <1>1, <1>2, <1>6 DEF OrderInv

(* With one writer the messages arrive unchanged and in the order of the   *)
(* calls of send_message, however _write_exactly and _read_exactly cut     *)
(* them and wherever the connection fails.                                 *)
THEOREM ConnectionDeliversInOrder ==
    ASSUME OneWriter
    PROVE  Spec => []DeliveredInOrder
<1>1. Init => OrderInv
  BY OrderInit
<1>2. OrderInv /\ [Next]_vars => OrderInv'
  BY OrderStep
<1>3. OrderInv => DeliveredInOrder
  BY DEF OrderInv, Ordered
<1> QED BY <1>1, <1>2, <1>3, PTL DEF Spec

(* With one writer receive_message returns whole messages only, and never  *)
(* refuses a header of a stream that is intact (Connection.hpp 53).        *)
THEOREM ConnectionMessagesArriveWhole ==
    ASSUME OneWriter
    PROVE  Spec => []MessagesArriveWhole
<1>1. Init => OrderInv
  BY OrderInit
<1>2. OrderInv /\ [Next]_vars => OrderInv'
  BY OrderStep
<1>3. OrderInv => MessagesArriveWhole
  <2> SUFFICES ASSUME OrderInv
               PROVE  MessagesArriveWhole
    OBVIOUS
  <2>1. \A k \in 1 .. Len(delivered) : delivered[k] = sends[k] /\ sends[k] \in Message
    BY DEF OrderInv, Ordered, DeliveredInOrder, SendInv, TypeOK
  <2>2. Mixed \notin Elements(delivered)
    BY <2>1, MessageAssumption DEF Elements
  <2> QED BY <2>2 DEF OrderInv, Ordered, MessagesArriveWhole
<1> QED BY <1>1, <1>2, <1>3, PTL DEF Spec
==============================================================================
