\* Snapshot and destination trees over two names, two levels deep, under
\* every combination of delete and dry_run: nested directories, every pair
\* of entry types at one path, and a metadata stack popped two levels at
\* once.
CONSTANTS
    Name <- MCName
    MaxDepth = 2
    None = None

SPECIFICATION Spec

INVARIANT NodesProcessedOnce
INVARIANT DeleteRemovesAdditional
INVARIANT MetadataOnce
INVARIANT DirAfterEntries
INVARIANT StackIsChain
PROPERTY Termination

\* restore returns: the state after the last step has no successor.
CHECK_DEADLOCK FALSE
