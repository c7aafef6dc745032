SPECIFICATION SyncSpec
CONSTANTS
    Clients = {alice, bob}
    Names = {1, 2}
    Contents = {1, 2}
    None = None
    MaxVersions = 2
    MaxEdits = 3
    Mishaps = {"lost"}
SYMMETRY Symmetry
INVARIANTS SyncTypeOK StoredMatchesManifest FileVersionNamesContent CommitDescribesPush CopyDerivesFromVersion NothingToUpdateIsCurrent UpdateListsDifferences
PROPERTY UpgradeKeepsEdits
\* at the bounds nothing may be left to do
CHECK_DEADLOCK FALSE
