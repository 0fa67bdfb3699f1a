\* Three packs of one or two blobs; MAX_COUNT scaled to 2 blobs so that the
\* count-triggered save happens, next to the age-triggered one.
CONSTANTS
    Pack <- MCPack
    Blob <- MCBlob
    BlobsOf <- MCBlobsOf
    StartIndexed = TRUE
    MaxCount = 2
    MaxIndexId = 4
    None = None

SPECIFICATION Spec

INVARIANT TypeOK
INVARIANT AddedIndexedOnce

\* The indexer's run ends after finalize: the last state has no successor.
CHECK_DEADLOCK FALSE
