SPECIFICATION SafeSpec
CONSTANTS
    MAX_ITERATIONS = 5
    MARKERS = 2
    MaxTime = 4
    None = None
INVARIANTS
    ImmediatePollHonoured
