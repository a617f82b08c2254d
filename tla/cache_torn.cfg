\* A management action and set_custom_server write the file at the same time, and the process restarts.
CONSTANTS
    Host <- MCHost
    Length <- MCLength
    Garbage = garbage
    Blank = blank
    Configured <- NotConfigured
    Manual <- MCManual
    Lan <- MCLan
    Mgmt = {mgmt}
    Stream = {stream}
    Poller = {}
    FailWrites = FALSE
    Restarts = TRUE
SPECIFICATION Spec
INVARIANTS
    MemoryIsAHost
