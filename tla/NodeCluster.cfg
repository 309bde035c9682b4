SPECIFICATION OnTime
CONSTANTS
    Nodes = {1, 2, 3}
    Observers = {1, 3}
    DefaultGroup = 9
    Signal <- MCSignal
    Slots = 2
    FanoutMax = 16
    TTL = 1
    Grace = 3
    MaxCommands = 2
PROPERTY Converges
