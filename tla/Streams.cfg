SPECIFICATION StreamsSpec
CONSTANTS
    Streams = {"clock", "ring", "codec", "playout", "wire", "resampler", "handshake", "numbers", "pacing", "schedule"}
    Offset <- MCOffset
    LockSamples = 2
    LockPing = 1
    PingTimeout = 2
    MaxTime = 6
    RingBytes = 6
    Chunks <- MCChunks
    Amounts = {0, 2, 4, 6}
    Byte = {1, 2, 3, 4, 5, 6}
    Degrade = 200
    Recover = 600
    Mode = "adaptive"
    NetMax = 2
    RingMax = 3
    Buffer = 2
    Floor = 1
    MaxStep = 2
    MaxTrack = 6
    MaxEpoch = 2
    ChunkFrames = 2
    FrameBytes = 2
    HeaderLen = 2
    FixedLen = 1
    PongLen = 1
    Slack = 1
    SockMax = 4
    MaxSent = 2
    MaxIndex = 4
    RsPeriod = 5
    Margin = 4
    Window = 15
    FeedChunk = 3
    Unit = 6
    StepFine = 2
    Slew = 1
    RingFloor = 1
    RingCap = 3
    Reads = {0, 1, 6}
    MaxFrames = 17
    Sinks = {1, 2}
    Enough = 1
    DownMax = 1
    MaxPings = 2
    Base = 4
    One = 16
    Peak = 8
    Deadband = 3
    MaxStepAt = 4
    PaceChunk = 3
    Second = 10
    Rate = 4
    Width = 120
    Uptime = 40
    MaxClock = 70
    MaxSamples = 14
    SdPeriod = 2
    SdTarget = 6
    SdDeadband = 1
    SdMaxStep = 3
    SdFloor = 2
    SdPause = 2
    SdDacMax = 3
    SdRingMax = 8
    SdJitter = 1
    SdSkews = {1}
INVARIANTS AllTypeOK OffsetBound LabelTrue Arithmetic Paced
PROPERTIES Frozen NoFlapping RingPromised Promised Contiguous Ends Seamless Starts InSync
CHECK_DEADLOCK FALSE
