SPECIFICATION Spec
CONSTANTS
    Callers = {w1, w2}
    PrincipalOf <- MCPrincipalOf
    Guests = {}
    Keys = {"k"}
    ModelLimit = 1
    GuestLimit = 1
    MaxTurns = 2
    MaxThreads = 2
    MaxRequests = 3
    MaxExecutions = 4
SYMMETRY WindowsAlike
CONSTRAINT FewRows
CHECK_DEADLOCK FALSE
INVARIANTS IndexesSuffice CapacityKept ContextIsConversation RunsAtTheEnd
