SPECIFICATION Spec
CONSTANTS
    n1 = n1
    n2 = n2
    n3 = n3
    i1 = i1
    i2 = i2
    i3 = i3
    NoNode = NoNode
    NoInput = NoInput
    Node <- TwoNodes
    Input <- TwoInputs
    FirstOutputSize <- OutputSize
    NewOutputSize <- NoNewConfig
    FailingNodes <- NoNodes
    UserMayLeave = TRUE
    Garbage <- ZeroedMemory
    UIntMax = 7
    Lifo = FALSE
INVARIANTS
    NoDanglingUser
\* A session that has ended, or met undefined behaviour, takes no further step.
CHECK_DEADLOCK FALSE
