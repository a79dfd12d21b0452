SPECIFICATION SafeSpec
CONSTANTS
    MAX_ITERATIONS = 5
    MAX_REPLY_BATCHES = 1
    REPLY_MTU = 2
    OutSize = 5
    InSize = 3
    RxSize = 2
    TxSize = 1
    MaxRequests = 4
    MaxConns = 1
INVARIANTS
    TypeOK
    FrameAligned
    GrantStable
    DispatchedInOrder
    ReplyStreamExact
    SocketContinuesStream
    StrandedOnlyByWrap
    ReceivedNotForgotten
PROPERTIES
    ImplementsDataPath
