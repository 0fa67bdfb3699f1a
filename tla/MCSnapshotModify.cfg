\* The tag command on the backends of snapshot_selection, checked against
\* the promise of modify_sn's doc comment.
CONSTANTS
    Id = {1, 2, 3, 4}
    Written <- MCWritten
    Tag = {1, 2}
    Corrupt = {2}
    Filter = {1}
    MaxN = 2
    Crits <- MCCrits
    TagArg <- MCTagArg
    BackupPaths <- MCBackupPaths
    None = None

SPECIFICATION Spec


PROPERTY ModifyOnlyOnChange
