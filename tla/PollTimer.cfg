SPECIFICATION Spec
CONSTANTS
    MAX_ITERATIONS = 5
    MARKERS = 2
    MaxTime = 4
    None = None
INVARIANTS
    TypeOK
    SlotAccounting
    HandleTracksTimer
    WakeByAdvice
    CancelledWhenUnneeded
PROPERTIES
    NeverPostponed
    AdviceLeadsToPoll
    ImplementsWakeup
