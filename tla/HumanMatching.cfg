SPECIFICATION Spec
CONSTANTS
    Users = {"ann", "ben"}
    Executions = {1, 2}
    Owner <- MCOwner
    Asked <- MCAsked
    ChosenConditions <- MCConditions
    ClaimLease = 1
    WaitLease = 1
    SkipWindow = 1
    TimeLimit <- MCTimeLimit
    RanksSeen = {1, 2}
    Revisions = {1, 2}
    Blank = {2}
INVARIANTS RowsAgree ProfilesAgree NewestDraftIsSent
PROPERTIES DraftOutlivesDeadline EndedStaysEnded
