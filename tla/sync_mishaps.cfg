SPECIFICATION SyncSpec
CONSTANTS
    Clients = {alice}
    Names = {1, 2}
    Contents = {1}
    None = None
    MaxVersions = 2
    MaxEdits = 2
    Mishaps = {"stale", "rollback", "lost"}
INVARIANT StoredMatchesManifest
\* at the bounds nothing may be left to do
CHECK_DEADLOCK FALSE
