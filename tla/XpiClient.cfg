SPECIFICATION Spec
CONSTANTS
    MaxCalls = 3
    MaxRuns = 2
    MaxUpdates = 3
INVARIANTS
    TypeOK
    LateRepliesExplained
    RepliesInOrder
PROPERTIES
    ObservationEnds
CHECK_DEADLOCK FALSE
