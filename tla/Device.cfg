SPECIFICATION Spec
CONSTANTS
    Devices = {"dma", "dial", "leds", "volume", "flags", "wifi", "owner"}
    MaxPeriods = 3
    Kinds <- MCKinds
    Reentry = FALSE
    MultiTap = 2
    ArmShow = 2
    HoldWifi = 4
    HoldReset = 6
    PulseFor = 1
    VolHold = 1
    SleepAfter = 1
    BootDone = 1
    Toggles = 3
    Flaky = 1
    Top = 2
    Scripts = {1, 2}
    HoldOff = 1
    Wait = 15
    Networks = {1, 2}
    Good = {1}
    Window = 2
    MaxEvents = 3
INVARIANTS TypeOK RingAgreed Fed Heard FileTrue Pictures UpToDate AntiDeauth OneOwner
PROPERTIES StallReported NoPhantom Armed Home
