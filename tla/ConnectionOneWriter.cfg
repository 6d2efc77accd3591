SPECIFICATION FairSpec
CONSTANTS
    w1 = w1
    w2 = w2
    short = short
    long = long
    longer = longer
    invalid = invalid
    NoMessage = NoMessage
    Mixed = Mixed
    Writer <- OneWriter
    Message <- AllMessages
    PayloadSize <- AllSizes
    HeaderSize = 2
    Capacity = 3
    MayFail = TRUE
INVARIANTS
    TypeOK
    DeliveredInOrder
    MessagesArriveWhole
    FailedIsNotDelivered
PROPERTIES
    SentIsDelivered
\* All messages may have been sent, or the connection may have failed.
CHECK_DEADLOCK FALSE
