SPECIFICATION Spec
CONSTANTS
    HistorySize = 1
    QueueSize = 1
    MaxRevision = 4
    MaxText = 0
    MaxFaults = 1
CHECK_DEADLOCK FALSE
INVARIANT MarkedIsFetched
