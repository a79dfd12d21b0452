SPECIFICATION AirSpec
CONSTANTS
    Period = 9
    ShiftA = 5
    ShiftB = 1
    LedTime = 1
    RxTime = 1
    TxTime = 1
    DisplayTime = 0
    MaxUptime = 1
    BufLen = 7
    Rssis = {}
INVARIANTS
    NeverBothOnAir
    HeartbeatsGenuine
CHECK_DEADLOCK FALSE
