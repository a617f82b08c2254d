\* Every configuration and every failure, with the code's three attempts.
CONSTANTS
    MaxAttempts = 3
    Config <- AllConfigs
SPECIFICATION Spec
INVARIANTS
    TypeOK
    AttemptsDoNotPileUp
    UnreachableIsSaid
PROPERTIES
    StartsOrGivesUp
    DeafnessIsSaid
