\* Management handler, set_custom_server and poller resolve and remember
\* addresses at once, writes fail, the process dies at any point.
CONSTANTS
    Host <- TwoHosts
    Length <- TwoLengths
    Garbage = garbage
    Blank = blank
    Configured <- NotConfigured
    Manual <- MCManual
    Lan <- OneOnLan
    Mgmt = {mgmt}
    Stream = {stream}
    Poller = {poller}
    FailWrites = TRUE
    Restarts = TRUE
SPECIFICATION LiveSpec
INVARIANTS
    TypeOK
    MemoryIsAHostUnlessCrossed
PROPERTIES
    SurvivesQuietRestart
    ResolutionEnds
