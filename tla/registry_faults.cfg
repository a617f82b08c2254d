\* Registration, state and save_cache may fail, requests are dropped, the
\* process restarts: two requests and the livedata poller.
CONSTANTS
    Device <- MCDevice
    Attribute <- MCAttribute
    Handler = {h1, h2}
    Poller = {poller}
    Reports <- MCReports
    Polls <- MCPolls
    Peer = {gateway, stranger}
    AllowedSourceIps = {gateway}
    FaultyCalls = {"register", "save", "state"}
    Drops = {"before effect"}
    OperatorDeletes = FALSE
    Restarts = TRUE
SPECIFICATION Spec
INVARIANTS
    TypeOK
    RegisteredAtCore
PROPERTIES
    EveryReadingDeclared
