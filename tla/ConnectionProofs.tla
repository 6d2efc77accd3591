--------------------------- MODULE ConnectionProofs ---------------------------
(***************************************************************************)
(* Theorems about Connection, for any number of writers, any messages and  *)
(* sizes, and buffers of any capacity.                                     *)
(*                                                                         *)
(* FailedIsNotDelivered rests on SendInv: the last unit of a message is    *)
(* written by the step that ends its send_message well, so a message that  *)
(* is still being sent, or whose sending failed, has not arrived; and no   *)
(* message is sent twice or by two writers.                                *)
(***************************************************************************)
EXTENDS Connection, SequenceTheorems, TLAPS

LastUnit(m) == [msg |-> m, at |-> MessageSize(m)]

(* The end of m is on the stream or was read. *)
Arrived(m) == \/ LastUnit(m) \in Elements(wire) \cup Elements(received)
              \/ m \in Elements(delivered)

TakenOnce ==
    \A v, w \in Writer : sending[v] = sending[w] /\ sending[v] # NoMessage => v = w

InProgress(m) == \E w \in Writer : sending[w] = m

SendingIsTaken ==
    \A m \in Message : InProgress(m) =>
        m \in Elements(sends) /\ m \notin failed /\ ~Arrived(m)

ArrivedIsTaken ==
    \A m \in Message : Arrived(m) => m \in Elements(sends) /\ m \notin failed

OnlyValidTaken ==
    /\ \A m \in Elements(sends) : PayloadSize[m] > 0
    /\ \A m \in failed : PayloadSize[m] > 0 => m \in Elements(sends)

SendInv ==
    /\ TypeOK
    /\ TakenOnce
    /\ SendingIsTaken
    /\ ArrivedIsTaken
    /\ OnlyValidTaken

-----------------------------------------------------------------------------
(* Sequences. *)

(* The elements of a sequence over S are in S. *)
LEMMA ElementsType ==
    ASSUME NEW S, NEW s \in Seq(S)
    PROVE  Elements(s) \subseteq S
BY DEF Elements

(* Appending adds one element. *)
LEMMA AppendElements ==
    ASSUME NEW S, NEW s \in Seq(S), NEW e \in S
    PROVE  /\ Append(s, e) \in Seq(S)
           /\ Elements(Append(s, e)) = Elements(s) \cup {e}
<1>1. /\ Append(s, e) \in Seq(S)
      /\ Len(s) \in Nat
      /\ Len(Append(s, e)) = Len(s) + 1
      /\ \A k \in 1 .. Len(s) : Append(s, e)[k] = s[k]
      /\ Append(s, e)[Len(s) + 1] = e
  OBVIOUS
<1>2. \A x \in Elements(Append(s, e)) : x \in Elements(s) \cup {e}
  BY <1>1 DEF Elements
<1>3. \A k \in 1 .. Len(s) : s[k] \in Elements(Append(s, e))
  BY <1>1 DEF Elements
<1>4. e \in Elements(Append(s, e))
  BY <1>1 DEF Elements
<1> QED BY <1>1, <1>2, <1>3, <1>4 DEF Elements

(* A concatenation has no elements but those of its parts. *)
LEMMA ConcatElements ==
    ASSUME NEW S, NEW s \in Seq(S), NEW t \in Seq(S)
    PROVE  /\ s \o t \in Seq(S)
           /\ Len(s \o t) = Len(s) + Len(t)
           /\ Elements(s \o t) \subseteq Elements(s) \cup Elements(t)
<1>1. /\ s \o t \in Seq(S)
      /\ Len(s) \in Nat /\ Len(t) \in Nat
      /\ Len(s \o t) = Len(s) + Len(t)
      /\ \A i \in 1 .. Len(s) + Len(t) :
            (s \o t)[i] = IF i <= Len(s) THEN s[i] ELSE t[i - Len(s)]
  BY ConcatProperties
<1>2. ASSUME NEW i \in 1 .. Len(s) + Len(t)
      PROVE  (s \o t)[i] \in Elements(s) \cup Elements(t)
  <2>1. CASE i <= Len(s)
    BY <1>1, <2>1 DEF Elements
  <2>2. CASE i > Len(s)
    <3>1. i - Len(s) \in 1 .. Len(t) /\ (s \o t)[i] = t[i - Len(s)]
      BY <1>1, <2>2
    <3> QED BY <3>1 DEF Elements
  <2> QED BY <1>1, <2>1, <2>2
<1> QED BY <1>1, <1>2 DEF Elements

(* What is read and what is left, after reading k units of s. *)
LEMMA SplitElements ==
    ASSUME NEW S, NEW s \in Seq(S), NEW k \in 0 .. Len(s)
    PROVE  /\ SubSeq(s, 1, k) \in Seq(S)
           /\ Len(SubSeq(s, 1, k)) = k
           /\ Elements(SubSeq(s, 1, k)) \subseteq Elements(s)
           /\ SubSeq(s, k + 1, Len(s)) \in Seq(S)
           /\ Len(SubSeq(s, k + 1, Len(s))) = Len(s) - k
           /\ Elements(SubSeq(s, k + 1, Len(s))) \subseteq Elements(s)
<1>1. Len(s) \in Nat /\ k \in Nat /\ \A i \in 1 .. Len(s) : s[i] \in S
  OBVIOUS
<1>2. /\ SubSeq(s, 1, k) \in Seq(S)
      /\ Len(SubSeq(s, 1, k)) = k
      /\ \A i \in 1 .. k : SubSeq(s, 1, k)[i] = s[i]
  BY <1>1, SubSeqProperties
<1>3. /\ SubSeq(s, k + 1, Len(s)) \in Seq(S)
      /\ Len(SubSeq(s, k + 1, Len(s))) = Len(s) - k
      /\ \A i \in 1 .. Len(s) - k : SubSeq(s, k + 1, Len(s))[i] = s[k + i]
  BY <1>1, SubSeqProperties
<1>4. Elements(SubSeq(s, 1, k)) \subseteq Elements(s)
  BY <1>1, <1>2 DEF Elements
<1>5. Elements(SubSeq(s, k + 1, Len(s))) \subseteq Elements(s)
  BY <1>1, <1>3 DEF Elements
<1> QED BY <1>2, <1>3, <1>4, <1>5

-----------------------------------------------------------------------------
(* Messages and their units. *)

(* A message has a size. *)
LEMMA MessageSizeType ==
    ASSUME NEW m \in Message
    PROVE  PayloadSize[m] \in Nat /\ MessageSize(m) \in Nat \ {0}
BY MessageAssumption, HeaderSizeAssumption DEF MessageSize

(* k units of m are written from the given place on, and its last unit is  *)
(* among them exactly when they reach its end.                             *)
LEMMA WrittenLemma ==
    ASSUME NEW m \in Message, NEW before \in Nat, NEW k \in Nat \ {0},
           before + k <= MessageSize(m)
    PROVE  /\ Written(m, before, k) \in Seq(Unit)
           /\ Len(Written(m, before, k)) = k
           /\ \A q \in Message : LastUnit(q) \in Elements(Written(m, before, k))
                                 => q = m /\ before + k = MessageSize(m)
<1> DEFINE units == Written(m, before, k)
<1>1. \A j \in 1 .. k : [msg |-> m, at |-> before + j] \in Unit
  BY DEF Unit
<1>2. units \in Seq(Unit) /\ Len(units) = k
  BY <1>1 DEF Written
<1>3. \A j \in 1 .. k : units[j] = [msg |-> m, at |-> before + j]
  BY DEF Written
<1> HIDE DEF units
<1>4. ASSUME NEW q \in Message, LastUnit(q) \in Elements(units)
      PROVE  q = m /\ before + k = MessageSize(m)
  <2>1. PICK j \in 1 .. k : LastUnit(q) = units[j]
    BY <1>2, <1>4 DEF Elements
  <2>2. [msg |-> q, at |-> MessageSize(q)] = [msg |-> m, at |-> before + j]
    BY <2>1, <1>3 DEF LastUnit
  <2>3. q = m /\ MessageSize(q) = before + j
    BY <2>2
  <2> QED BY <2>3, MessageSizeType
<1> QED BY <1>2, <1>4 DEF units

(* A message that is read has its last unit among the units read. *)
LEMMA MessageReadLemma ==
    ASSUME NEW units \in Seq(Unit)
    PROVE  /\ MessageRead(units) \in Message \cup {Mixed}
           /\ MessageRead(units) \in Message =>
                 LastUnit(MessageRead(units)) \in Elements(units)
<1>1. CASE \E m \in Message : IsMessage(units, m)
  <2> DEFINE m == MessageRead(units)
  <2>1. m \in Message /\ IsMessage(units, m)
    BY <1>1 DEF MessageRead
  <2> HIDE DEF m
  <2>2. /\ MessageSize(m) \in Nat \ {0}
        /\ units = [j \in 1 .. MessageSize(m) |-> [msg |-> m, at |-> 0 + j]]
    BY <2>1, MessageSizeType DEF IsMessage, Written
  <2>3. /\ Len(units) = MessageSize(m)
        /\ units[MessageSize(m)] = [msg |-> m, at |-> 0 + MessageSize(m)]
    <3>1. MessageSize(m) \in 1 .. MessageSize(m)
      BY <2>2
    <3>2. DOMAIN units = 1 .. MessageSize(m)
      BY <2>2
    <3> QED BY <2>2, <3>1, <3>2
  <2>4. LastUnit(m) \in Elements(units)
    BY <2>2, <2>3 DEF LastUnit, Elements
  <2> QED BY <2>1, <2>4 DEF m
<1>2. CASE ~\E m \in Message : IsMessage(units, m)
  BY <1>2, MessageAssumption DEF MessageRead
<1> QED BY <1>1, <1>2

(* What is read as a size is one. *)
LEMMA SizesReadType ==
    ASSUME NEW units
    PROVE  SizesRead(units) \subseteq Nat
BY MessageAssumption DEF SizesRead, PayloadSizes

-----------------------------------------------------------------------------
(* Steps. *)

(* What a reading step does to the units on their way. *)
LEMMA ConsumeLemma ==
    ASSUME TypeOK, NEW k \in 1 .. Capacity, Consume(k)
    PROVE  LET units == received \o SubSeq(wire, 1, k)
           IN /\ units \in Seq(Unit)
              /\ Len(units) \in Nat \ {0}
              /\ Len(units) <= expected
              /\ wire' \in Seq(Unit)
              /\ Len(wire') <= Capacity
              /\ Elements(units) \cup Elements(wire')
                    \subseteq Elements(wire) \cup Elements(received)
<1> DEFINE read == SubSeq(wire, 1, k)
           left == SubSeq(wire, k + 1, Len(wire))
<1>1. /\ wire \in Seq(Unit) /\ received \in Seq(Unit)
      /\ Len(wire) \in Nat /\ Len(received) \in Nat /\ Len(wire) <= Capacity
      /\ expected \in Nat /\ Capacity \in Nat
      /\ k \in 1 .. Len(wire) /\ k <= expected - Len(received)
      /\ wire' = left
  BY CapacityAssumption DEF TypeOK, InBounds, Consume
<1>2. /\ read \in Seq(Unit) /\ Len(read) = k
      /\ left \in Seq(Unit) /\ Len(left) = Len(wire) - k
      /\ Elements(read) \subseteq Elements(wire)
      /\ Elements(left) \subseteq Elements(wire)
  BY <1>1, SplitElements
<1> HIDE DEF read, left
<1>3. /\ received \o read \in Seq(Unit)
      /\ Len(received \o read) = Len(received) + k
      /\ Elements(received \o read) \subseteq Elements(received) \cup Elements(read)
  BY <1>1, <1>2, ConcatElements
<1>4. Elements(wire') = Elements(left)
  BY <1>1 DEF Elements
<1> QED BY <1>1, <1>2, <1>3, <1>4 DEF read

(* The types at first. *)
LEMMA InitTypeOK == Init => TypeOK
BY HeaderSizeAssumption, CapacityAssumption DEF Init, TypeOK, InBounds

(* What a write adds to the stream. *)
LEMMA TransmitLemma ==
    ASSUME TypeOK, NEW w \in Writer, NEW k \in 1 .. Capacity, Transmit(w, k)
    PROVE  /\ sending[w] \in Message
           /\ offset[w] \in Nat /\ k \in Nat
           /\ offset[w] + k <= MessageSize(sending[w])
           /\ MessageSize(sending[w]) \in Nat
           /\ wire' \in Seq(Unit)
           /\ Len(wire') <= Capacity
           /\ \A q \in Message :
                 LastUnit(q) \in Elements(wire') =>
                    \/ LastUnit(q) \in Elements(wire)
                    \/ q = sending[w] /\ offset[w] + k = MessageSize(sending[w])
<1> DEFINE m == sending[w]
           units == Written(m, offset[w], k)
<1>1. /\ m \in Message /\ MessageSize(m) \in Nat
      /\ offset[w] \in Nat /\ k \in Nat \ {0}
      /\ k <= MessageSize(m) - offset[w]
      /\ wire \in Seq(Unit) /\ Len(wire) \in Nat /\ Capacity \in Nat
      /\ Len(wire) + k <= Capacity
      /\ wire' = IF connected THEN wire \o units ELSE wire
  BY MessageSizeType, CapacityAssumption DEF TypeOK, Transmit
<1>2. offset[w] + k <= MessageSize(m)
  BY <1>1
<1>3. /\ units \in Seq(Unit) /\ Len(units) = k
      /\ \A q \in Message : LastUnit(q) \in Elements(units)
                            => q = m /\ offset[w] + k = MessageSize(m)
  BY <1>1, <1>2, WrittenLemma
<1> HIDE DEF units
<1>4. /\ wire \o units \in Seq(Unit)
      /\ Len(wire \o units) = Len(wire) + k
      /\ Elements(wire \o units) \subseteq Elements(wire) \cup Elements(units)
  BY <1>1, <1>3, ConcatElements
<1>5. Elements(wire') \subseteq Elements(wire) \cup Elements(units)
  BY <1>1, <1>4 DEF Elements
<1>6. wire' \in Seq(Unit) /\ Len(wire') <= Capacity
  BY <1>1, <1>4
<1> QED BY <1>1, <1>2, <1>3, <1>5, <1>6

(* Every step keeps the types. *)
LEMMA StepTypeOK == TypeOK /\ [Next]_vars => TypeOK'
<1> SUFFICES ASSUME TypeOK, [Next]_vars
             PROVE  TypeOK'
  OBVIOUS
<1> USE DEF writerVars, readerVars
<1>1. ASSUME NEW w \in Writer, SendRefuses(w)
      PROVE  TypeOK'
  BY <1>1 DEF SendRefuses, TypeOK, InBounds
<1>2. ASSUME NEW w \in Writer, SendMessage(w)
      PROVE  TypeOK'
  <2>1. PICK m \in Message : /\ sending' = [sending EXCEPT ![w] = m]
                             /\ sends' = Append(sends, m)
    BY <1>2 DEF SendMessage
  <2>2. sends' \in Seq(Message)
    BY <2>1 DEF TypeOK
  <2>3. m # NoMessage /\ 0 < MessageSize(m)
    BY MessageAssumption, MessageSizeType
  <2>4. InBounds'
    BY <1>2, <2>1, <2>3 DEF SendMessage, TypeOK, InBounds, MessageSize
  <2> QED BY <1>2, <2>1, <2>2, <2>4 DEF SendMessage, TypeOK
<1>3. ASSUME NEW w \in Writer, WriteSome(w)
      PROVE  TypeOK'
  <2>1. PICK k \in 1 .. Capacity :
           /\ Transmit(w, k)
           /\ IF offset[w] + k < MessageSize(sending[w])
              THEN /\ offset' = [offset EXCEPT ![w] = @ + k]
                   /\ UNCHANGED sending
              ELSE /\ sending' = [sending EXCEPT ![w] = NoMessage]
                   /\ offset' = [offset EXCEPT ![w] = 0]
    BY <1>3 DEF WriteSome
  <2>2. /\ offset[w] \in Nat /\ k \in Nat
        /\ wire' \in Seq(Unit) /\ Len(wire') <= Capacity
    BY <2>1, TransmitLemma
  <2>3. /\ sending' \in [Writer -> Message \cup {NoMessage}]
        /\ offset' \in [Writer -> Nat]
    <3>1. offset[w] + k \in Nat
      BY <2>2
    <3>2. CASE offset[w] + k < MessageSize(sending[w])
      BY <2>1, <3>1, <3>2 DEF TypeOK
    <3>3. CASE ~(offset[w] + k < MessageSize(sending[w]))
      BY <2>1, <3>3 DEF TypeOK
    <3> QED BY <3>2, <3>3
  <2>4. ASSUME NEW v \in Writer
        PROVE  IF sending'[v] = NoMessage
               THEN offset'[v] = 0
               ELSE offset'[v] < HeaderSize + PayloadSize[sending'[v]]
    <3>1. CASE v = w
      BY <2>1, <2>2, <3>1, MessageAssumption DEF TypeOK, Transmit, MessageSize
    <3>2. CASE v # w
      BY <2>1, <3>2 DEF TypeOK, InBounds, MessageSize
    <3> QED BY <3>1, <3>2
  <2> QED BY <1>3, <2>2, <2>3, <2>4 DEF WriteSome, TypeOK, InBounds, MessageSize
<1>4. ASSUME NEW w \in Writer, WriteFails(w)
      PROVE  TypeOK'
  BY <1>4 DEF WriteFails, TypeOK, InBounds, MessageSize
<1>5. ASSUME ReadSome
      PROVE  TypeOK'
  <2>1. PICK k \in 1 .. Capacity :
           /\ Consume(k)
           /\ received' = received \o SubSeq(wire, 1, k)
           /\ ~ReadEnough(received \o SubSeq(wire, 1, k))
    BY <1>5 DEF ReadSome
  <2>2. /\ received' \in Seq(Unit) /\ Len(received') < expected
        /\ wire' \in Seq(Unit) /\ Len(wire') <= Capacity
    <3> DEFINE units == received \o SubSeq(wire, 1, k)
    <3>1. /\ units \in Seq(Unit) /\ Len(units) \in Nat /\ Len(units) <= expected
          /\ wire' \in Seq(Unit) /\ Len(wire') <= Capacity
      BY <2>1, ConsumeLemma
    <3>2. Len(units) # expected /\ received' = units
      BY <2>1 DEF ReadEnough
    <3> HIDE DEF units
    <3> QED BY <3>1, <3>2 DEF TypeOK
  <2> QED BY <1>5, <2>1, <2>2 DEF ReadSome, Consume, TypeOK, InBounds, MessageSize
<1>6. ASSUME ReadHeader
      PROVE  TypeOK'
  <2>1. PICK k \in 1 .. Capacity :
           LET units == received \o SubSeq(wire, 1, k)
           IN /\ Consume(k)
              /\ expected = HeaderSize
              /\ ReadEnough(units)
              /\ \E size \in SizesRead(units) :
                    /\ reading' = (size > 0)
                    /\ received' = IF size > 0 THEN units ELSE <<>>
                    /\ expected' = IF size > 0 THEN WantPayload(size)
                                               ELSE expected
    BY <1>6 DEF ReadHeader
  <2> DEFINE units == received \o SubSeq(wire, 1, k)
  <2>2. /\ units \in Seq(Unit) /\ Len(units) = HeaderSize
        /\ wire' \in Seq(Unit) /\ Len(wire') <= Capacity
    BY <2>1, ConsumeLemma DEF ReadEnough
  <2>3. /\ received' \in Seq(Unit) /\ Len(received') < expected'
        /\ expected' \in Nat /\ reading' \in BOOLEAN
    <3>1. PICK size \in Nat : /\ reading' = (size > 0)
                              /\ received' = IF size > 0 THEN units ELSE <<>>
                              /\ expected' = IF size > 0 THEN WantPayload(size)
                                                         ELSE HeaderSize
      BY <2>1, SizesReadType
    <3> HIDE DEF units
    <3> QED BY <2>2, <3>1, HeaderSizeAssumption DEF WantPayload
  <2> QED BY <1>6, <2>1, <2>2, <2>3
          DEF ReadHeader, Consume, TypeOK, InBounds, MessageSize
<1>7. ASSUME ReadPayload
      PROVE  TypeOK'
  <2>1. PICK k \in 1 .. Capacity :
           /\ Consume(k)
           /\ delivered' = Append(delivered,
                                  MessageRead(received \o SubSeq(wire, 1, k)))
    BY <1>7 DEF ReadPayload
  <2>2. /\ received \o SubSeq(wire, 1, k) \in Seq(Unit)
        /\ wire' \in Seq(Unit) /\ Len(wire') <= Capacity
    BY <2>1, ConsumeLemma
  <2>3. delivered' \in Seq(Message \cup {Mixed})
    <3>1. MessageRead(received \o SubSeq(wire, 1, k)) \in Message \cup {Mixed}
      BY <2>2, MessageReadLemma
    <3> QED BY <2>1, <3>1 DEF TypeOK
  <2>4. /\ received' = <<>> /\ Len(received') < expected'
        /\ received' \in Seq(Unit) /\ expected' \in Nat
    BY <1>7, HeaderSizeAssumption DEF ReadPayload
  <2> QED BY <1>7, <2>1, <2>2, <2>3, <2>4
          DEF ReadPayload, Consume, TypeOK, InBounds, MessageSize
<1>8. ASSUME ReadFails
      PROVE  TypeOK'
  <2>1. 0 < expected
    BY DEF TypeOK, InBounds
  <2> QED BY <1>8, <2>1 DEF ReadFails, TypeOK, InBounds, MessageSize
<1>9. ASSUME ConnectionFails
      PROVE  TypeOK'
  <2>1. PICK k \in 0 .. Len(wire) : wire' = SubSeq(wire, 1, k)
    BY <1>9 DEF ConnectionFails
  <2>2. wire' \in Seq(Unit) /\ Len(wire') <= Capacity
    <3>1. SubSeq(wire, 1, k) \in Seq(Unit) /\ Len(SubSeq(wire, 1, k)) = k
      BY SplitElements DEF TypeOK
    <3> QED BY <2>1, <3>1, CapacityAssumption DEF TypeOK, InBounds
  <2> QED BY <1>9, <2>2 DEF ConnectionFails, TypeOK, InBounds, MessageSize
<1>10. CASE UNCHANGED vars
  BY <1>10 DEF vars, TypeOK, InBounds, MessageSize
<1> QED BY <1>1, <1>2, <1>3, <1>4, <1>5, <1>6, <1>7, <1>8, <1>9, <1>10 DEF Next

(* The types, and that no read or write passes the end of its buffer or is *)
(* for nothing (_read_exactly and _write_exactly, Connection.hpp 155-179). *)
THEOREM ConnectionTypeOK == Spec => []TypeOK
<1>1. Init => TypeOK
  BY InitTypeOK
<1>2. TypeOK /\ [Next]_vars => TypeOK'
  BY StepTypeOK
<1> QED BY <1>1, <1>2, PTL DEF Spec

-----------------------------------------------------------------------------
(* What failed does not arrive. *)

(* Nothing was taken, and nothing has arrived, at first. *)
LEMMA InitSendInv == Init => SendInv
<1> SUFFICES ASSUME Init
             PROVE  SendInv
  OBVIOUS
<1>1. TypeOK
  BY InitTypeOK
<1>2. /\ Elements(wire) = {} /\ Elements(received) = {}
      /\ Elements(delivered) = {} /\ Elements(sends) = {}
      /\ failed = {} /\ \A w \in Writer : sending[w] = NoMessage
  BY DEF Init, Elements
<1>3. \A m \in Message : ~Arrived(m) /\ ~InProgress(m)
  BY <1>2, MessageAssumption DEF Arrived, InProgress
<1> QED BY <1>1, <1>2, <1>3
        DEF SendInv, TakenOnce, SendingIsTaken, ArrivedIsTaken, OnlyValidTaken

(* A step that leaves the writers alone and lets nothing new arrive.       *)
LEMMA ReaderKeepsSendInv ==
    ASSUME SendInv, TypeOK', UNCHANGED writerVars,
           \A m \in Message : Arrived(m)' => Arrived(m)
    PROVE  SendInv'
<1>1. /\ TakenOnce' /\ OnlyValidTaken'
      /\ \A m \in Message : InProgress(m)' <=> InProgress(m)
      /\ Elements(sends') = Elements(sends) /\ failed' = failed
  BY DEF SendInv, writerVars, TakenOnce, OnlyValidTaken, InProgress, Elements
<1>2. SendingIsTaken' /\ ArrivedIsTaken'
  BY <1>1 DEF SendInv, SendingIsTaken, ArrivedIsTaken, Elements
<1> QED BY <1>1, <1>2 DEF SendInv

(* A step of a writer that writes nothing. *)
LEMMA NothingArrives ==
    ASSUME UNCHANGED <<wire, readerVars>>
    PROVE  \A m \in Message : Arrived(m)' <=> Arrived(m)
BY DEF readerVars, Arrived, LastUnit, MessageSize, Elements

(* A reading step makes no units up. *)
LEMMA ReadingNothingNew ==
    ASSUME TypeOK, NEW k \in 1 .. Capacity, Consume(k),
           \/ received' = <<>>
           \/ received' = received \o SubSeq(wire, 1, k)
    PROVE  Elements(wire') \cup Elements(received')
              \subseteq Elements(wire) \cup Elements(received)
<1>1. Elements(received \o SubSeq(wire, 1, k)) \cup Elements(wire')
         \subseteq Elements(wire) \cup Elements(received)
  BY ConsumeLemma
<1>2. CASE received' = <<>>
  <2>1. Elements(received') = {}
    BY <1>2 DEF Elements
  <2> QED BY <1>1, <2>1
<1>3. CASE received' = received \o SubSeq(wire, 1, k)
  BY <1>1, <1>3 DEF Elements
<1> QED BY <1>2, <1>3

(* Every step keeps the invariant. *)
LEMMA StepSendInv == SendInv /\ [Next]_vars => SendInv'
<1> SUFFICES ASSUME SendInv, [Next]_vars
             PROVE  SendInv'
  OBVIOUS
<1>a. TypeOK /\ TypeOK'
  BY StepTypeOK DEF SendInv
<1>b. /\ TakenOnce /\ SendingIsTaken /\ ArrivedIsTaken /\ OnlyValidTaken
  BY DEF SendInv
<1>1. ASSUME NEW w \in Writer, SendRefuses(w)
      PROVE  SendInv'
  <2>1. PICK m \in Message : PayloadSize[m] = 0 /\ failed' = failed \cup {m}
    BY <1>1 DEF SendRefuses
  <2>2. UNCHANGED <<sending, offset, sends, wire, connected, readerVars>>
    BY <1>1 DEF SendRefuses
  <2>3. m \notin Elements(sends)
    BY <1>b, <2>1 DEF OnlyValidTaken
  <2>4. \A q \in Message : Arrived(q)' <=> Arrived(q)
    BY <2>2, NothingArrives
  <2>5. /\ \A q \in Message : InProgress(q)' <=> InProgress(q)
        /\ Elements(sends') = Elements(sends)
    BY <2>2 DEF InProgress, Elements
  <2>6. TakenOnce'
    BY <1>b, <2>2 DEF TakenOnce
  <2>7. SendingIsTaken' /\ ArrivedIsTaken'
    BY <1>b, <2>1, <2>3, <2>4, <2>5
       DEF SendingIsTaken, ArrivedIsTaken, Elements
  <2>8. OnlyValidTaken'
    <3>1. \A q \in failed' : q \in failed \/ ~(PayloadSize[q] > 0)
      BY <2>1
    <3> QED BY <1>b, <2>5, <3>1 DEF OnlyValidTaken
  <2> QED BY <1>a, <2>6, <2>7, <2>8 DEF SendInv
<1>2. ASSUME NEW w \in Writer, SendMessage(w)
      PROVE  SendInv'
  <2>1. PICK m \in Message \ Elements(sends) :
           /\ PayloadSize[m] > 0
           /\ sending' = [sending EXCEPT ![w] = m]
           /\ sends' = Append(sends, m)
    BY <1>2 DEF SendMessage
  <2>2. UNCHANGED <<offset, failed, wire, connected, readerVars>>
    BY <1>2 DEF SendMessage
  <2>3. ~Arrived(m) /\ m \notin failed
    BY <1>b, <2>1 DEF ArrivedIsTaken, OnlyValidTaken
  <2>4. \A q \in Message : Arrived(q)' <=> Arrived(q)
    BY <2>2, NothingArrives
  <2>5. Elements(sends)' = Elements(sends) \cup {m}
    <3>1. Elements(Append(sends, m)) = Elements(sends) \cup {m}
      BY <1>a, AppendElements DEF TypeOK
    <3> QED BY <2>1, <3>1 DEF Elements
  <2>6. \A v \in Writer : sending'[v] = IF v = w THEN m ELSE sending[v]
    BY <1>a, <2>1 DEF TypeOK
  <2>7. \A v \in Writer : sending[v] # m
    BY <1>b, <2>1 DEF SendingIsTaken, InProgress
  <2>8. TakenOnce'
    BY <1>b, <2>6, <2>7 DEF TakenOnce
  <2>9. SendingIsTaken' /\ ArrivedIsTaken' /\ OnlyValidTaken'
    BY <1>b, <2>1, <2>2, <2>3, <2>4, <2>5, <2>6
       DEF SendingIsTaken, ArrivedIsTaken, OnlyValidTaken, InProgress
  <2> QED BY <1>a, <2>8, <2>9 DEF SendInv
<1>3. ASSUME NEW w \in Writer, WriteSome(w)
      PROVE  SendInv'
  <2> DEFINE m == sending[w]
  <2>1. PICK k \in 1 .. Capacity :
           /\ Transmit(w, k)
           /\ IF offset[w] + k < MessageSize(m)
              THEN UNCHANGED sending
              ELSE sending' = [sending EXCEPT ![w] = NoMessage]
    BY <1>3 DEF WriteSome
  <2>2. UNCHANGED <<sends, failed, connected, readerVars>>
    BY <1>3 DEF WriteSome
  <2>3. /\ m \in Message
        /\ \A q \in Message : LastUnit(q) \in Elements(wire') =>
              \/ LastUnit(q) \in Elements(wire)
              \/ q = m /\ offset[w] + k = MessageSize(m)
        /\ offset[w] \in Nat /\ k \in Nat /\ MessageSize(m) \in Nat
    BY <1>a, <2>1, TransmitLemma
  <2>4. \A q \in Message : Arrived(q)' =>
           Arrived(q) \/ (q = m /\ offset[w] + k = MessageSize(m))
    BY <2>2, <2>3 DEF Arrived, Elements, readerVars, LastUnit, MessageSize
  <2>5. Elements(sends)' = Elements(sends) /\ failed' = failed
    BY <2>2 DEF Elements
  <2>6. m \in Elements(sends) /\ m \notin failed
    BY <1>b, <2>3 DEF SendingIsTaken, InProgress
  <2>7. ArrivedIsTaken' /\ OnlyValidTaken'
    BY <1>b, <2>4, <2>5, <2>6 DEF ArrivedIsTaken, OnlyValidTaken
  <2>8. CASE offset[w] + k < MessageSize(m)
    <3>1. sending' = sending /\ \A q \in Message : Arrived(q)' => Arrived(q)
      BY <2>1, <2>3, <2>4, <2>8
    <3>2. TakenOnce' /\ SendingIsTaken'
      BY <1>b, <2>5, <3>1 DEF TakenOnce, SendingIsTaken, InProgress
    <3> QED BY <1>a, <2>7, <3>2 DEF SendInv
  <2>9. CASE ~(offset[w] + k < MessageSize(m))
    <3>1. \A v \in Writer : sending'[v] = IF v = w THEN NoMessage ELSE sending[v]
      BY <1>a, <2>1, <2>9 DEF TypeOK
    <3>2. \A q \in Message : InProgress(q)' => InProgress(q) /\ q # m
      BY <1>b, <2>3, <3>1, MessageAssumption DEF InProgress, TakenOnce
    <3>3. TakenOnce'
      BY <1>b, <3>1 DEF TakenOnce
    <3>4. SendingIsTaken'
      BY <1>b, <2>4, <2>5, <3>2 DEF SendingIsTaken
    <3> QED BY <1>a, <2>7, <3>3, <3>4 DEF SendInv
  <2> QED BY <2>8, <2>9
<1>4. ASSUME NEW w \in Writer, WriteFails(w)
      PROVE  SendInv'
  <2> DEFINE m == sending[w]
  <2>1. /\ m # NoMessage /\ failed' = failed \cup {m}
        /\ sending' = [sending EXCEPT ![w] = NoMessage]
        /\ UNCHANGED <<sends, wire, connected, readerVars>>
    BY <1>4 DEF WriteFails
  <2>2. m \in Message
    BY <1>a, <2>1 DEF TypeOK
  <2>3. m \in Elements(sends) /\ ~Arrived(m)
    BY <1>b, <2>2 DEF SendingIsTaken, InProgress
  <2>4. \A q \in Message : Arrived(q)' <=> Arrived(q)
    BY <2>1, NothingArrives
  <2>5. \A v \in Writer : sending'[v] = IF v = w THEN NoMessage ELSE sending[v]
    BY <1>a, <2>1 DEF TypeOK
  <2>6. \A q \in Message : InProgress(q)' => InProgress(q) /\ q # m
    BY <1>b, <2>1, <2>5, MessageAssumption DEF InProgress, TakenOnce
  <2>7. Elements(sends)' = Elements(sends)
    BY <2>1 DEF Elements
  <2>8. TakenOnce'
    BY <1>b, <2>5 DEF TakenOnce
  <2>9. SendingIsTaken' /\ ArrivedIsTaken' /\ OnlyValidTaken'
    BY <1>b, <2>1, <2>3, <2>4, <2>6, <2>7
       DEF SendingIsTaken, ArrivedIsTaken, OnlyValidTaken
  <2> QED BY <1>a, <2>8, <2>9 DEF SendInv
<1>5. ASSUME ReadSome \/ ReadHeader
      PROVE  SendInv'
  <2>1. PICK k \in 1 .. Capacity :
           /\ Consume(k)
           /\ \/ received' = <<>>
              \/ received' = received \o SubSeq(wire, 1, k)
    BY <1>5 DEF ReadSome, ReadHeader
  <2>2. delivered' = delivered /\ UNCHANGED writerVars
    BY <1>5 DEF ReadSome, ReadHeader, Consume
  <2>3. \A m \in Message : Arrived(m)' => Arrived(m)
    BY <1>a, <2>1, <2>2, ReadingNothingNew
       DEF Arrived, LastUnit, MessageSize, Elements
  <2> QED BY <1>a, <2>2, <2>3, ReaderKeepsSendInv
<1>6. ASSUME ReadPayload
      PROVE  SendInv'
  <2>1. PICK k \in 1 .. Capacity :
           /\ Consume(k)
           /\ delivered' = Append(delivered,
                                  MessageRead(received \o SubSeq(wire, 1, k)))
    BY <1>6 DEF ReadPayload
  <2> DEFINE units == received \o SubSeq(wire, 1, k)
             read == MessageRead(units)
  <2>2. received' = <<>> /\ UNCHANGED writerVars
    BY <1>6, <2>1 DEF ReadPayload, Consume
  <2>3. /\ units \in Seq(Unit)
        /\ Elements(units) \subseteq Elements(wire) \cup Elements(received)
    BY <1>a, <2>1, ConsumeLemma
  <2>4. /\ read \in Message \cup {Mixed}
        /\ read \in Message => LastUnit(read) \in Elements(wire) \cup Elements(received)
    BY <2>3, MessageReadLemma
  <2>5. Elements(delivered)' = Elements(delivered) \cup {read}
    <3> HIDE DEF read
    <3>0. delivered \in Seq(Message \cup {Mixed})
      BY <1>a DEF TypeOK
    <3>1. Elements(Append(delivered, read)) = Elements(delivered) \cup {read}
      BY ONLY <2>4, <3>0, AppendElements
    <3>2. delivered' = Append(delivered, read)
      BY <2>1 DEF read
    <3> QED BY <3>1, <3>2 DEF Elements
  <2>6. Elements(wire') \cup Elements(received')
           \subseteq Elements(wire) \cup Elements(received)
    BY <1>a, <2>1, <2>2, ReadingNothingNew
  <2> HIDE DEF read
  <2>7. \A m \in Message : Arrived(m)' => Arrived(m)
    BY <2>4, <2>5, <2>6 DEF Arrived, LastUnit, MessageSize, Elements
  <2> QED BY <1>a, <2>2, <2>7, ReaderKeepsSendInv
<1>7. ASSUME ReadFails
      PROVE  SendInv'
  <2>1. /\ UNCHANGED writerVars
        /\ wire' = wire /\ delivered' = delivered /\ received' = <<>>
    BY <1>7 DEF ReadFails
  <2>2. Elements(received') = {}
    BY <2>1 DEF Elements
  <2>3. \A m \in Message : Arrived(m)' => Arrived(m)
    BY <2>1, <2>2 DEF Arrived, LastUnit, MessageSize, Elements
  <2> QED BY <1>a, <2>1, <2>3, ReaderKeepsSendInv
<1>8. ASSUME ConnectionFails
      PROVE  SendInv'
  <2>1. PICK k \in 0 .. Len(wire) : wire' = SubSeq(wire, 1, k)
    BY <1>8 DEF ConnectionFails
  <2>2. UNCHANGED <<writerVars, readerVars>>
    BY <1>8 DEF ConnectionFails
  <2>3. Elements(wire') \subseteq Elements(wire)
    <3>1. Elements(SubSeq(wire, 1, k)) \subseteq Elements(wire)
      BY <1>a, SplitElements DEF TypeOK
    <3> QED BY <2>1, <3>1 DEF Elements
  <2>4. \A m \in Message : Arrived(m)' => Arrived(m)
    BY <2>2, <2>3 DEF readerVars, Arrived, LastUnit, MessageSize, Elements
  <2> QED BY <1>a, <2>2, <2>4, ReaderKeepsSendInv
<1>9. CASE UNCHANGED vars
  <2>1. UNCHANGED writerVars /\ UNCHANGED <<wire, readerVars>>
    BY <1>9 DEF vars
  <2> QED BY <1>a, <2>1, NothingArrives, ReaderKeepsSendInv
<1> QED BY <1>1, <1>2, <1>3, <1>4, <1>5, <1>6, <1>7, <1>8, <1>9 DEF Next

(* No message whose send_message failed ever arrives, with any number of   *)
(* writers: what _send_input_to_node relies on when it sends an input      *)
(* again (User_Queue.hpp 301-308).                                         *)
THEOREM ConnectionFailedIsNotDelivered == Spec => []FailedIsNotDelivered
<1>1. Init => SendInv
  BY InitSendInv
<1>2. SendInv /\ [Next]_vars => SendInv'
  BY StepSendInv
<1>3. SendInv => FailedIsNotDelivered
  BY DEF SendInv, ArrivedIsTaken, Arrived, FailedIsNotDelivered, TypeOK
<1> QED BY <1>1, <1>2, <1>3, PTL DEF Spec
=============================================================================
