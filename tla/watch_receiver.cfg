\* The code's periods in minutes; a wakeup may be up to four minutes late.
CONSTANTS
    CheckEvery = 5
    WarnAfter = 10
    MaxLag = 4
    Polling = TRUE
    Loopback = FALSE
SPECIFICATION Spec
INVARIANTS
    TypeOK
    NeverBoth
    NoticesAreCurrent
    OutageIsShown
