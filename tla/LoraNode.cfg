SPECIFICATION Spec
CONSTANTS
    Period = 100
    Shift = 50
    LedTime = 10
    RxTime = 5
    TxTime = 8
    DisplayTime = 10
INVARIANTS
    TypeOK
    TransmitsInSlot
    LedOffOnItsWay
    EdgeServed
PROPERTIES
    EdgeLeadsToTransmission
    LedGoesOut
    HeartbeatShown
