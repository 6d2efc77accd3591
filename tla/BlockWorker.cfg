\* Two blocks, two rounds of two chunks of two items.
SPECIFICATION FairSpec
CONSTANTS
  NBlocks = 2
  Rounds = 2
  InSize = 2
  DSize = 2
INVARIANTS TypeOK ChunkInOnePlace OwnResults PortsSetBeforeUse
PROPERTIES BenchmarkEnds ImplementsFairService
CHECK_DEADLOCK FALSE
