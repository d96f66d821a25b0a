SPECIFICATION Spec
CONSTANTS
    Policy <- MCPolicy
    MaxClaims = 4
INVARIANTS RankSettled ChangesAreEarned
