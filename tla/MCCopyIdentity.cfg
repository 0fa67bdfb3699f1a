\* Three runs, one of which may stop early: a stopped run, a rerun that
\* completes it, and a copy after a completed one.  Packs of two blobs,
\* so a run writes packs both from the writer and at finalize.
CONSTANTS
    Snap <- MCSnap
    Tree <- MCTree
    Data <- MCData
    Subtrees <- MCSubtrees
    Contents <- MCContents
    DestSnapChoice <- MCDestSnapChoice
    DestBlobChoice <- MCDestBlobChoice
    PackTarget = 2
    MaxRuns = 3
    MaxCrashes = 1
    None = None

SPECIFICATION Spec

INVARIANT CopyKeepsIdentity

\* The runs are bounded: once MaxRuns copies are done nothing is enabled.
CHECK_DEADLOCK FALSE
