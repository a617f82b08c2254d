\* Registration and schema calls fail now and then, requests are dropped after
\* the call in flight took effect, the operator deletes devices, the process
\* restarts.
CONSTANTS
    Device <- OneDevice
    Attribute <- OneAttribute
    Handler = {h1, h2}
    Poller = {poller}
    Reports <- LightningReports
    Polls <- LightningPolls
    Peer = {gateway, stranger}
    AllowedSourceIps = {gateway}
    FaultyCalls = {"register", "schema"}
    Drops = {"after effect"}
    OperatorDeletes = TRUE
    Restarts = TRUE
SPECIFICATION FairSpec
PROPERTIES
    BatchAnswered
    EveryDeviceRegistered
