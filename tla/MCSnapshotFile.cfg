\* Up to four snapshot files, the second of which does not decode; the
\* caller filters for host 1 and asks for latest~0 to latest~2.
CONSTANTS
    Id = {1, 2, 3, 4}
    Written <- MCWritten
    Tag = {1, 2}
    Corrupt = {2}
    Filter = {1}
    MaxN = 2
    Crits <- MCCrits
    TagArg <- MCTagArg
    BackupPaths <- MCBackupPaths
    None = None

SPECIFICATION Spec

INVARIANT LatestNIsNth
INVARIANT GroupsFresh
INVARIANT OriginalIsRoot
INVARIANT SamePathsMerged

