SPECIFICATION Spec
CONSTANTS
    MAX_ITERATIONS = 5
    MAX_REPLY_BATCHES = 1
    REPLY_MTU = 2
    OutSize = 3
    InSize = 3
    RxSize = 2
    TxSize = 2
    MaxRequests = 3
    MaxConns = 2
PROPERTIES
    ReplyFlushed
    ReceivedIsRead
