SPECIFICATION Spec
CONSTANTS
    Callers = {w1, w2}
    PrincipalOf <- MCPrincipalOf
    Guests = {}
    Keys = {"k"}
    ModelLimit = 1
    GuestLimit = 1
    MaxTurns = 2
    MaxThreads = 1
    MaxRequests = 3
    MaxExecutions = 4
SYMMETRY WindowsAlike
CHECK_DEADLOCK FALSE
INVARIANT OnlyTheLatestRuns
