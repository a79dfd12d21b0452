SPECIFICATION SafeSpec
CONSTANTS
    MAX_REPLY_BATCH_LEN = 3
    MAX_REPLY_BATCHES = 2
    Budget = 14
    ErrorSize = 2
    MaxUris = 4
    MaxArgs = 3
INVARIANTS
    DeferredTakesNoSpace
CHECK_DEADLOCK FALSE
