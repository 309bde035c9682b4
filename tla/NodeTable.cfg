SPECIFICATION HSpec
CONSTANTS
    Nodes = {1, 2, 3}
    Observers = {1}
    DefaultGroup = 9
    Signal <- MCSignal
    Slots = 2
    FanoutMax = 16
    TTL = 1
    Grace = 3
    MaxCommands = 2
    Ids = {1, 2, 3}
    GroupNames = {1, 2}
    Times = {1, 2}
    Signals = {1, 2}
INVARIANTS TypeOK LeaveUnlessStale GraceUnlessEvicted MembersAskedRecently WellFormed
PROPERTIES OrderIndependent Stable
