SPECIFICATION Spec
CONSTANTS
    Remotes = {1, 2, 3}
    FanoutMax = 3
    MaxSkips = 1
    DupMembers = TRUE
    MaxChanges = 2
    MaxFailures = 1
    Crashes = TRUE
INVARIANTS TypeOK OneConnection
PROPERTY Undisturbed
CHECK_DEADLOCK FALSE
