\* Every sensor alone and with every other one; messages may be partly unreadable.
CONSTANTS
    Stations <- AloneAndInPairs
    UnclearOn = {"post", "poll"}
SPECIFICATION Spec
INVARIANTS
    TypeOK
    NoPhantomDevice
PROPERTIES
    VerdictIsReal
    OnlyCountAndClockChangeType
    VerdictIsShownAtOnce
