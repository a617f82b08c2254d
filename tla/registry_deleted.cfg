\* The operator deletes a device that goes on reporting, with no other failure.
CONSTANTS
    Device <- OneDevice
    Attribute <- OneAttribute
    Handler = {h1}
    Poller = {poller}
    Reports <- LightningReports
    Polls <- LightningPolls
    Peer = {gateway, stranger}
    AllowedSourceIps = {gateway}
    FaultyCalls = {}
    Drops = {}
    OperatorDeletes = TRUE
    Restarts = FALSE
SPECIFICATION FairSpec
PROPERTIES
    DeletedDeviceComesBack
