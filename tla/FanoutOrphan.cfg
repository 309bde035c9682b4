SPECIFICATION FairSpec
CONSTANTS
    Remotes = {1}
    FanoutMax = 2
    MaxSkips = 1
    DupMembers = FALSE
    MaxChanges = 1
    MaxFailures = 0
    Crashes = TRUE
PROPERTY NoOrphan
CHECK_DEADLOCK FALSE
