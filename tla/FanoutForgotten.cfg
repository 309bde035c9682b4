SPECIFICATION Spec
CONSTANTS
    Remotes = {1}
    FanoutMax = 2
    MaxSkips = 1
    DupMembers = FALSE
    MaxChanges = 1
    MaxFailures = 1
    Crashes = FALSE
INVARIANT NobodyForgotten
CHECK_DEADLOCK FALSE
