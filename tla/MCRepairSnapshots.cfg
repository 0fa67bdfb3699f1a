\* Two runs with any options, one of which may stop at any step: a run
\* stopped after saving repaired snapshots and its rerun, or a run after
\* a completed one.  Packs of two trees, so the writer and finalize both
\* store trees.
CONSTANTS
    Data <- MCData
    AllTrees <- MCAllTrees
    InitSnaps <- MCInitSnaps
    Suffix = Suffix
    PackTarget = 2
    MaxRuns = 2
    MaxCrashes = 1
    None = None

SPECIFICATION Spec

INVARIANT RepairedSound
INVARIANT RepairIdempotent

\* The runs are bounded: once MaxRuns repairs are done nothing is enabled.
CHECK_DEADLOCK FALSE
