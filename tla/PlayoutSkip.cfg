SPECIFICATION Spec
CONSTANTS
    NetMax = 2
    RingMax = 3
    Buffer = 2
    Floor = 1
    MaxStep = 2
    MaxTrack = 6
    MaxEpoch = 2
INVARIANT GapsRidden
CHECK_DEADLOCK FALSE
