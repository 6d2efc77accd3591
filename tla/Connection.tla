----------------------------- MODULE Connection -----------------------------
(***************************************************************************)
(* One direction of a connection between two programs that both use class  *)
(* Connection of src/server/Connection.hpp: the coroutines that call       *)
(* send_message at one end, the one that calls receive_message, in a loop, *)
(* at the other, and the TCP stream between them.                          *)
(*                                                                         *)
(* A node's connection has one writer at a time (NodeHasOneWriter of       *)
(* UserSession).  The user's connection is written to by the receiver loop *)
(* of every node (User_Queue.hpp 359): there several calls of send_message *)
(* may be in progress.                                                     *)
(*                                                                         *)
(* A message is cut into units, HeaderSize of them its header; unit k of   *)
(* message m is [msg |-> m, at |-> k], whatever bytes it holds.  What the  *)
(* receiver makes of units that are not one message is any outcome that    *)
(* bytes in such a place could have.                                       *)
(***************************************************************************)
EXTENDS Integers, Sequences, FiniteSets

CONSTANTS
    Writer,         \* the coroutines that send
    Message,        \* the messages, each sent at most once
    NoMessage,      \* no message
    Mixed,          \* what is received is no message that was sent
    PayloadSize,    \* units of payload of each message; 0: not valid
    HeaderSize,     \* units of a header
    Capacity,       \* units that fit into the buffers between the ends
    MayFail         \* may the connection fail?

ASSUME MessageAssumption ==
    /\ NoMessage \notin Message
    /\ Mixed \notin Message
    /\ PayloadSize \in [Message -> Nat]
ASSUME HeaderSizeAssumption == HeaderSize \in Nat \ {0}
ASSUME CapacityAssumption == Capacity \in Nat \ {0}
ASSUME MayFailAssumption == MayFail \in BOOLEAN

VARIABLES
    sending,    \* per writer: the message of its send_message in progress
    offset,     \* per writer: the units of that message written so far
    sends,      \* the messages send_message took, in the order of the calls
    failed,     \* the messages whose send_message returned an error
    wire,       \* the units written and not yet read
    connected,  \* FALSE: one end is gone
    reading,    \* FALSE: receive_message returned an error, nobody reads on
    received,   \* the units of the message that is being received
    expected,   \* how many units _read_exactly wants there to be
    delivered   \* what receive_message returned, in order

writerVars == <<sending, offset, sends, failed>>
readerVars == <<reading, received, expected, delivered>>
vars == <<writerVars, wire, connected, readerVars>>

-----------------------------------------------------------------------------
Unit == [msg : Message, at : Nat \ {0}]
Elements(s) == {s[k] : k \in 1 .. Len(s)}

(* message_s::get_message_size *)
MessageSize(m) == HeaderSize + PayloadSize[m]

(* Slip: the buffer is not advanced by what was written before. *)
Written_SameBuffer(m, before, k) == [j \in 1 .. k |-> [msg |-> m, at |-> j]]

(* The k units of m after the first `before' ones. *)
Written(m, before, k) == [j \in 1 .. k |-> [msg |-> m, at |-> before + j]]

IsHeaderOf(units, m) == units = Written(m, 0, HeaderSize)
IsMessage(units, m) == units = Written(m, 0, MessageSize(m))

(* Any size that is read where there is no header may be refused (0).      *)
PayloadSizes == {0} \cup {PayloadSize[m] : m \in Message}

(* header.is_valid() and header.payload_size of a received header: 0 when  *)
(* it is refused.                                                          *)
SizesRead(units) ==
    IF \E m \in Message : IsHeaderOf(units, m)
    THEN {PayloadSize[m] : m \in {q \in Message : IsHeaderOf(units, q)}}
    ELSE PayloadSizes

MessageRead(units) ==
    IF \E m \in Message : IsMessage(units, m)
    THEN CHOOSE m \in Message : IsMessage(units, m)
    ELSE Mixed

(* A write or a read is never for nothing, nor past the end of its buffer. *)
InBounds ==
    /\ \A w \in Writer :
          IF sending[w] = NoMessage THEN offset[w] = 0
                                    ELSE offset[w] < MessageSize(sending[w])
    /\ Len(received) < expected
    /\ Len(wire) <= Capacity

TypeOK ==
    /\ sending \in [Writer -> Message \cup {NoMessage}]
    /\ offset \in [Writer -> Nat]
    /\ sends \in Seq(Message)
    /\ failed \subseteq Message
    /\ wire \in Seq(Unit)
    /\ connected \in BOOLEAN
    /\ reading \in BOOLEAN
    /\ received \in Seq(Unit)
    /\ expected \in Nat
    /\ delivered \in Seq(Message \cup {Mixed})
    /\ InBounds

Init ==
    /\ sending = [w \in Writer |-> NoMessage]
    /\ offset = [w \in Writer |-> 0]
    /\ sends = <<>>
    /\ failed = {}
    /\ wire = <<>>
    /\ connected = TRUE
    /\ reading = TRUE
    /\ received = <<>>
    /\ expected = HeaderSize
    /\ delivered = <<>>

-----------------------------------------------------------------------------
(***************************************************************************)
(* The writers.                                                            *)
(***************************************************************************)

(* send_message refuses a message that is not valid and writes nothing.    *)
SendRefuses(w) ==
    /\ sending[w] = NoMessage
    /\ \E m \in Message \ failed :
          /\ PayloadSize[m] = 0
          /\ failed' = failed \cup {m}
    /\ UNCHANGED <<sending, offset, sends, wire, connected, readerVars>>

(* send_message: _write_exactly is called with the whole message.          *)
SendMessage(w) ==
    /\ sending[w] = NoMessage
    /\ \E m \in Message \ Elements(sends) :
          /\ PayloadSize[m] > 0
          /\ sending' = [sending EXCEPT ![w] = m]
          /\ sends' = Append(sends, m)
    /\ UNCHANGED <<offset, failed, wire, connected, readerVars>>

(* What async_write_some took, up to all that is left; none of it arrives  *)
(* when the other end is gone.                                             *)
Transmit(w, k) ==
    /\ sending[w] # NoMessage
    /\ k <= MessageSize(sending[w]) - offset[w]
    /\ Len(wire) + k <= Capacity
    /\ wire' = IF connected THEN wire \o Written(sending[w], offset[w], k)
                            ELSE wire

(* Slip: `bytes_sent <= length', a write of nothing after all is written.  *)
WriteSome_Again(w) ==
    /\ \E k \in 0 .. Capacity :
          /\ Transmit(w, k)
          /\ IF k = 0
             THEN /\ offset[w] = MessageSize(sending[w])
                  /\ sending' = [sending EXCEPT ![w] = NoMessage]
                  /\ offset' = [offset EXCEPT ![w] = 0]
             ELSE /\ offset' = [offset EXCEPT ![w] = @ + k]
                  /\ UNCHANGED sending
    /\ UNCHANGED <<sends, failed, connected, readerVars>>

(* An async_write_some of _write_exactly completes with k units: it is     *)
(* called again for the rest, or send_message returns.                     *)
WriteSome(w) ==
    /\ \E k \in 1 .. Capacity :
          /\ Transmit(w, k)
          /\ IF offset[w] + k < MessageSize(sending[w])
             THEN /\ offset' = [offset EXCEPT ![w] = @ + k]
                  /\ UNCHANGED sending
             ELSE /\ sending' = [sending EXCEPT ![w] = NoMessage]
                  /\ offset' = [offset EXCEPT ![w] = 0]
    /\ UNCHANGED <<sends, failed, connected, readerVars>>

(* An async_write_some fails, and send_message with it. *)
WriteFails(w) ==
    /\ sending[w] # NoMessage
    /\ ~connected
    /\ failed' = failed \cup {sending[w]}
    /\ sending' = [sending EXCEPT ![w] = NoMessage]
    /\ offset' = [offset EXCEPT ![w] = 0]
    /\ UNCHANGED <<sends, wire, connected, readerVars>>

-----------------------------------------------------------------------------
(***************************************************************************)
(* The reader.                                                             *)
(***************************************************************************)

(* Slip: one async_read_some is taken for all that was asked for. *)
ReadEnough_Any(units) == units # <<>>

(* _read_exactly has what it was asked for. *)
ReadEnough(units) == Len(units) = expected

(* An async_read_some of _read_exactly completes with k units.             *)
Consume(k) ==
    /\ reading
    /\ k <= Len(wire)
    /\ k <= expected - Len(received)
    /\ wire' = SubSeq(wire, k + 1, Len(wire))
    /\ UNCHANGED <<writerVars, connected>>

(* There is more to read: _read_exactly calls itself for the rest.         *)
ReadSome ==
    \E k \in 1 .. Capacity :
       /\ Consume(k)
       /\ LET units == received \o SubSeq(wire, 1, k)
          IN /\ ~ReadEnough(units)
             /\ received' = units
       /\ UNCHANGED <<reading, expected, delivered>>

(* Slip: the second _read_exactly reads the length of the whole message.   *)
WantPayload_Whole(size) == HeaderSize + HeaderSize + size

(* All that is received when the payload is complete. *)
WantPayload(size) == HeaderSize + size

(* The header is complete: the payload is read, or the header is refused   *)
(* and receive_message returns an error.                                   *)
ReadHeader ==
    \E k \in 1 .. Capacity :
       /\ Consume(k)
       /\ expected = HeaderSize
       /\ LET units == received \o SubSeq(wire, 1, k)
          IN /\ ReadEnough(units)
             /\ \E size \in SizesRead(units) :
                   /\ reading' = (size > 0)
                   /\ received' = IF size > 0 THEN units ELSE <<>>
                   /\ expected' = IF size > 0 THEN WantPayload(size)
                                              ELSE expected
       /\ UNCHANGED delivered

(* The payload is complete: receive_message returns the message, and is    *)
(* called for the next one.                                                *)
ReadPayload ==
    \E k \in 1 .. Capacity :
       /\ Consume(k)
       /\ expected # HeaderSize
       /\ LET units == received \o SubSeq(wire, 1, k)
          IN /\ ReadEnough(units)
             /\ delivered' = Append(delivered, MessageRead(units))
       /\ received' = <<>>
       /\ expected' = HeaderSize
       /\ UNCHANGED reading

(* An async_read_some fails, at the end of the stream or by a reset: what  *)
(* was received of a message is destroyed.                                 *)
ReadFails ==
    /\ reading
    /\ ~connected
    /\ wire = <<>>
    /\ reading' = FALSE
    /\ received' = <<>>
    /\ UNCHANGED <<writerVars, wire, connected, expected, delivered>>

-----------------------------------------------------------------------------
(* One end goes away.  Of what is on its way any end may be lost.          *)
ConnectionFails ==
    /\ MayFail
    /\ connected
    /\ connected' = FALSE
    /\ \E k \in 0 .. Len(wire) : wire' = SubSeq(wire, 1, k)
    /\ UNCHANGED <<writerVars, readerVars>>

Next ==
    \/ \E w \in Writer : \/ SendRefuses(w) \/ SendMessage(w)
                         \/ WriteSome(w) \/ WriteFails(w)
    \/ ReadSome \/ ReadHeader \/ ReadPayload \/ ReadFails
    \/ ConnectionFails

Spec == Init /\ [][Next]_vars

(***************************************************************************)
(* The io_context runs every handler that is ready, and TCP lets a write   *)
(* into free space and a read of waiting units complete.  Nobody has to    *)
(* send, and the connection need not fail.                                 *)
(***************************************************************************)
Fairness ==
    /\ \A w \in Writer : WF_vars(WriteSome(w)) /\ WF_vars(WriteFails(w))
    /\ WF_vars(ReadSome \/ ReadHeader \/ ReadPayload \/ ReadFails)

FairSpec == Spec /\ Fairness

-----------------------------------------------------------------------------
(***************************************************************************)
(* Properties.                                                             *)
(***************************************************************************)

(* With one writer receive_message returns the messages of send_message,   *)
(* unchanged and in the order of the calls, however reads and writes are   *)
(* cut (_read_exactly, _write_exactly) and wherever the connection fails.  *)
DeliveredInOrder ==
    /\ Len(delivered) <= Len(sends)
    /\ \A k \in 1 .. Len(delivered) : delivered[k] = sends[k]

(* What receive_message returns is a message that was sent, and it refuses *)
(* no header (Connection.hpp 53) of a stream that is intact.               *)
MessagesArriveWhole ==
    /\ Mixed \notin Elements(delivered)
    /\ connected => reading

(* A message whose send_message returned an error never arrives, so that   *)
(* _send_input_to_node (User_Queue.hpp 301) may send the input again to    *)
(* another node without its being computed twice.                          *)
FailedIsNotDelivered == failed \cap Elements(delivered) = {}

(* A message taken by send_message is delivered, unless the connection     *)
(* fails: neither end waits for bytes the other will not send.             *)
SentIsDelivered ==
    \A m \in Message :
        m \in Elements(sends) ~> (m \in Elements(delivered) \/ ~connected)
=============================================================================
