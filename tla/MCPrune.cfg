\* Prune concurrent with backups and forgets.  keep_delete (1) exceeds the
\* backup and prune windows (0): a backup that loaded the index before a
\* pack was marked has finished before the mark is old enough to delete.
CONSTANTS
    Blob <- MCBlob
    TypeOf <- MCTypeOf
    InitRepos <- EmptyOrDupRepo
    SnapContents <- SameContents
    Concurrent = TRUE
    KeepPack = 0
    KeepDelete = 1
    PruneOptions <- Plain
    RepackAll = FALSE
    RepackCacheableOnly = FALSE
    NoResize = FALSE
    MaxRepack = 100
    MaxUnused = 0
    MinIndexLen = 3
    PackTarget = 2
    MinPackSize = 2
    MaxPackSize = 3
    Cap = 255
    MaxCount = 3
    MaxIndexId = 6
    None = None
    MaxPackId = 5
    MaxSnapId = 2
    MaxTime = 1
    BackupWindow = 0
    PruneWindow = 0
    MaxPrunes = 2
    PruneMayStop = TRUE
    MaxCrashes = 0

SPECIFICATION Spec

INVARIANT TypeOK
INVARIANT SnapshotBlobsStored
INVARIANT IndexNoLiveAndDelete
 
INVARIANT FromPackExact
PROPERTY PlanFailsOnlyOnRace

\* Bounded behaviours end once the runs, crashes, snapshots and time are
\* used up; the repository then rests, as it does between commands.
CHECK_DEADLOCK FALSE
