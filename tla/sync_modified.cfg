SPECIFICATION SyncSpec
CONSTANTS
    Clients = {alice, bob}
    Names = {1}
    Contents = {1, 2}
    None = None
    MaxVersions = 2
    MaxEdits = 3
    Mishaps = {}
PROPERTY UpgradeSyncs
\* at the bounds nothing may be left to do
CHECK_DEADLOCK FALSE
