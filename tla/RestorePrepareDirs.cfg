\* Snapshot and destination trees over two names, two levels deep, under
\* every combination of delete and dry_run.
CONSTANTS
    Name <- MCName
    MaxDepth = 2
    None = None

SPECIFICATION Spec

INVARIANT DirsRestored

\* collect_and_prepare returns: the states after Finish or an error have
\* no successor.
CHECK_DEADLOCK FALSE
