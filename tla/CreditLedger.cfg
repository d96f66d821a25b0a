SPECIFICATION Spec
CONSTANTS
    Users = {u1, u2}
    Executions = {e1, e2}
    GrantKeys = {k1}
    Sweepers = {s1, s2}
    GrantAmount = 8
    AllowanceAmount = 14
    AllowanceDuration = 2
    EarnedDuration = 1
    Tariff <- MCTariff
    HumanPrice = 10
    ModelUsages <- MCUsages
    SweepLimit = 2
    MaxTime = 2
SYMMETRY Symmetry
INVARIANTS TypeOK BooksAgree HistoryAddsUp StatementAddsUp OneAllowanceAtATime AuditFindsNothing
PROPERTIES GuardsAccept ExpiredStaysExpired
CHECK_DEADLOCK FALSE
