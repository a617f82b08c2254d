\* Restarts, with no other failure.
CONSTANTS
    Device <- MCDevice
    Attribute <- MCAttribute
    Handler = {h1}
    Poller = {poller}
    Reports <- MCReports
    Polls <- OnePoll
    Peer = {gateway, stranger}
    AllowedSourceIps = {gateway}
    FaultyCalls = {}
    Drops = {}
    OperatorDeletes = FALSE
    Restarts = TRUE
SPECIFICATION Spec
PROPERTIES
    TrackedSurvivesRestart
