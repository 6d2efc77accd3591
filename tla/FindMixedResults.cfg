SPECIFICATION Spec
CONSTANTS
    w1 = w1
    w2 = w2
    short = short
    long = long
    longer = longer
    invalid = invalid
    NoMessage = NoMessage
    Mixed = Mixed
    Writer <- TwoWriters
    Message <- TwoMessages
    PayloadSize <- TwoSizes
    HeaderSize = 2
    Capacity = 3
    MayFail = FALSE
INVARIANTS
    MessagesArriveWhole
\* All messages may have been sent, or the connection may have failed.
CHECK_DEADLOCK FALSE
