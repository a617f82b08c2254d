\* Reliable registration, schema and state calls, but dropped requests, restarts
\* and lost availability messages: homeCore sees a DeviceFeed.
CONSTANTS
    Device <- MCDevice
    Attribute <- MCAttribute
    Handler = {h1, h2}
    Poller = {poller}
    Reports <- MCReports
    Polls <- MCPolls
    Peer = {gateway, stranger}
    AllowedSourceIps = {gateway}
    FaultyCalls = {"availability"}
    Drops = {"before effect"}
    OperatorDeletes = FALSE
    Restarts = TRUE
SPECIFICATION Spec
INVARIANTS
    BatchPrefixPublished
PROPERTIES
    IsDeviceFeed
