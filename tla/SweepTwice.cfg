SPECIFICATION Spec
CONSTANTS
    Users = {u1}
    Executions = {e1}
    GrantKeys = {k1}
    Sweepers = {s1, s2}
    GrantAmount = 8
    AllowanceAmount = 14
    AllowanceDuration = 2
    EarnedDuration = 1
    Tariff <- MCTariff
    HumanPrice = 10
    ModelUsages <- MCUsages
    SweepLimit = 2
    MaxTime = 2
INVARIANT ExpiryIsIdempotent
CHECK_DEADLOCK FALSE
