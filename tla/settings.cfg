\* One operator's request, both dialects, every password and every failure.
CONSTANTS
    Dest = {"vendor", "plugin"}
    Request <- OneRequest
    Factory <- MCFactory
    Dialects = {"modern", "ws"}
    Guards <- MCGuards
    Passwords = {"none", "right", "wrong"}
    StationMac = {}
    NetworkMac = {"mac"}
    InfoMac = {}
    Lossy = TRUE
    SessionEnds = TRUE
    Faulty = {"event", "resolve", "detect", "register", "publish"}
    Restarts = TRUE
SPECIFICATION LiveSpec
INVARIANTS
    TypeOK
    ShownIsRegistered
PROPERTIES
    IsSettingsRequest
    ActionEnds
    SettingsGetShown
