SPECIFICATION Spec
CONSTANTS
    HistorySize = 2
    QueueSize = 2
    MaxRevision = 4
    MaxText = 1
    MaxFaults = 0
CHECK_DEADLOCK FALSE
INVARIANT ConversationShown
