---------------------------- MODULE MessageCodec ----------------------------
(* Messages and their validators: src/server/Message.hpp.  A message is its  *)
(* type and its sizes, and of a configuration the fields in front of the     *)
(* data; sizes are uint32_t where the code's are, size_t where it computes   *)
(* with sizeof.                                                              *)
EXTENDS Integers

CONSTANT Modulus    \* 2^32: a uint32_t is less than this

ASSUME ModulusAssumption == Modulus \in Nat /\ Modulus > 20

Uint32(x) == x % Modulus

AllocInfoSize == 8
HeaderSize    == 8
ConfigSize    == 12
BlockInfoSize == 12
IdSize        == 4
MinInputSize  == 16   \* test_node.cpp
BenchmarkRbf  == 4

Types == {"CONFIG", "CONFIG_RESP", "DATA"}

------------------------------------------------------------------------------
(* Sizes.                                                                    *)

MessageSize(m)      == Uint32(HeaderSize + m.payload_size)
RbfOffset(m)        == Uint32(m.num_blocks * BlockInfoSize)
RbfSize(m)          == Uint32(m.payload_size - ConfigSize - RbfOffset(m))
DataSize(m)         == Uint32(m.payload_size - IdSize)
BlockCount(m, size) == DataSize(m) \div size

------------------------------------------------------------------------------
(* Validators.                                                               *)

HeaderIsValid(h) == h.type \in Types /\ h.payload_size > 0

HasValidPayloadSize(m) == m.alloc_size = AllocInfoSize + MessageSize(m)

IsValidMessage(m) == HeaderIsValid(m) /\ HasValidPayloadSize(m)

IsValidConfig(m) ==
  /\ IsValidMessage(m)
  /\ m.type = "CONFIG"
  /\ m.payload_size >= ConfigSize + m.num_blocks * BlockInfoSize

IsValidConfigResp(m) ==
  /\ IsValidMessage(m)
  /\ m.type = "CONFIG_RESP"
  /\ m.payload_size = 1

IsValidData(m, size) ==
  /\ IsValidMessage(m)
  /\ m.type = "DATA"
  /\ DataSize(m) % size = 0

------------------------------------------------------------------------------
(* Constructors.                                                             *)

Message(type, payload) ==
  [ type         |-> type,
    payload_size |-> Uint32(payload),
    alloc_size   |-> AllocInfoSize + HeaderSize + payload ]

NewConfig(blocks, in, out, rbf) ==
  LET m == Message("CONFIG", ConfigSize + blocks * BlockInfoSize + rbf)
  IN  [ type |-> m.type, payload_size |-> m.payload_size,
        alloc_size |-> m.alloc_size,
        input_size |-> in, output_size |-> out, num_blocks |-> blocks ]

NewConfigResp == Message("CONFIG_RESP", 1)

\* The product and the sum are truncated before the allocation.
NewData(size, count) == Message("DATA", Uint32(IdSize + size * count))

\* new_message with a header that was read: what receive_message returns.
Received(m) ==
  [m EXCEPT !.alloc_size = AllocInfoSize + HeaderSize + m.payload_size]

------------------------------------------------------------------------------
(* What a node of the benchmark demands of its configuration.                *)

\* (slip) Outputs may be larger than inputs.
AcceptsConfig_AnyOutput(m) ==
  /\ m.input_size >= MinInputSize
  /\ m.num_blocks = 0
  /\ RbfSize(m) = BenchmarkRbf

AcceptsConfig(m) ==
  /\ m.input_size >= m.output_size
  /\ m.input_size >= MinInputSize
  /\ m.num_blocks = 0
  /\ RbfSize(m) = BenchmarkRbf

=============================================================================
