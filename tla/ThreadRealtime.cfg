SPECIFICATION Spec
CONSTANTS
    HistorySize = 1
    QueueSize = 2
    MaxRevision = 4
    MaxText = 1
    MaxFaults = 1
CONSTRAINT FewUnpublished
CHECK_DEADLOCK FALSE
INVARIANT NeverSilentlyStale
PROPERTY OverStaysOver
