\* One key with three secrets, two requests, restarts of both kinds.
SPECIFICATION FairSpec
CONSTANTS
    Keys = {k1}
    Handlers = {h1, h2}
    MaxSecret = 3
INVARIANTS
    ServerListsLive
    FileListsLive
    StaleKeyRevoked
PROPERTY HandlersReturn
