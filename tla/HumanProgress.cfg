SPECIFICATION FairSpec
CONSTANTS
    Users = {"ann", "ben"}
    Executions = {1, 2}
    Owner <- MCOwnerEach
    Asked <- MCAsked
    ChosenConditions <- MCConditions
    ClaimLease = 1
    WaitLease = 2
    SkipWindow = 1
    TimeLimit <- MCTimeLimit
    RanksSeen = {1, 2}
    Revisions = {1}
    Blank = {}
PROPERTIES AssignmentsEnd NobodyWaitsInVain
