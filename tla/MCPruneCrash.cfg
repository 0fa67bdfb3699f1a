\* Prune, backups and forgets one after another.  Each prune run is
\* started without options or with instant_delete and early_delete_index
\* together, as a user may choose per invocation.  A backup, or a prune
\* without early_delete_index, may crash at any step; a prune with it
\* does not stop, as the option's warning requires.  The snapshots
\* overlap, so that prune repacks.  The u8
\* reference counter saturates at 1 instead of 255: a used blob indexed in
\* two packs overflows it, as one in 256 packs does in the code.
CONSTANTS
    Blob <- MCBlob
    TypeOf <- MCTypeOf
    InitRepos <- EmptyOrLegacyRepo
    SnapContents <- OverlapContents
    Concurrent = FALSE
    KeepPack = 0
    KeepDelete = 1
    PruneOptions <- PlainOrInstantEarly
    RepackAll = FALSE
    RepackCacheableOnly = FALSE
    NoResize = FALSE
    MaxRepack = 100
    MaxUnused = 0
    MinIndexLen = 3
    PackTarget = 2
    MinPackSize = 2
    MaxPackSize = 3
    Cap = 1
    MaxCount = 3
    MaxIndexId = 3
    None = None
    MaxPackId = 5
    MaxSnapId = 2
    MaxTime = 1
    BackupWindow = 0
    PruneWindow = 0
    MaxPrunes = 2
    PruneMayStop = TRUE
    MaxCrashes = 1

SPECIFICATION Spec

INVARIANT SnapshotBlobsLive
INVARIANT IndexNoLiveAndDelete

\* Bounded behaviours end once the runs, crashes, snapshots and time are
\* used up; the repository then rests, as it does between commands.
CHECK_DEADLOCK FALSE
PROPERTY PackDeletionSafe
PROPERTY MarksHealed
