SPECIFICATION FairSpec
CONSTANTS
    Remotes = {1, 2}
    FanoutMax = 3
    MaxSkips = 1
    DupMembers = FALSE
    MaxChanges = 3
    MaxFailures = 1
    Crashes = FALSE
INVARIANT OnlyAskedFor
PROPERTY Settles
CHECK_DEADLOCK FALSE
