SPECIFICATION Spec
CONSTANTS
    n1 = n1
    n2 = n2
    n3 = n3
    i1 = i1
    i2 = i2
    i3 = i3
    NoNode = NoNode
    NoInput = NoInput
    Node <- ThreeNodes
    Input <- ThreeInputs
    FirstOutputSize <- OutputSize
    NewOutputSize <- BothSizes
    FailingNodes <- ThreeNodes
    UserMayLeave = TRUE
    Garbage <- AnyMemory
    UIntMax = 7
    Lifo = FALSE
SYMMETRY Symmetric
INVARIANTS
    NodeHasOneWriter
    NoLostWakeup
    InputHeldOnce
    CountersExact
    NothingDangling
PROPERTIES
    DroppedNodeStaysOut
    ReconfigurationIsClean
    ImplementsService
\* A session that has ended, or met undefined behaviour, takes no further step.
CHECK_DEADLOCK FALSE
