\* Reads of two contiguous blobs of pack 1 coalesce (LIMIT_PACK_READ
\* scaled to 3 blob units: two blobs fit, three do not); the first
\* location of a blob may be a destination file that already holds it.
CONSTANTS
    File <- MCFile
    Blob <- MCBlob
    PackOf <- MCPackOf
    OffsetOf <- MCOffsetOf
    ContentChoice <- MCContentChoice
    ExistingChoice <- MCExistingChoice
    VerifyExisting = FALSE
    LimitPackRead = 3
    Junk = Junk
    None = None

SPECIFICATION Spec

INVARIANT RestoredContents
INVARIANT ReadPacksWarmedUp

\* restore_contents returns once: the state after Finish has no successor.
CHECK_DEADLOCK FALSE
