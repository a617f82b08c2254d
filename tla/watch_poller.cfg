\* A gateway that is polled, as the remedy of the notices proposes, and does
\* not upload.
CONSTANTS
    CheckEvery = 5
    WarnAfter = 10
    MaxLag = 0
    Polling = TRUE
    Loopback = TRUE
SPECIFICATION Spec
PROPERTIES
    FlowingDataClearsNotices
