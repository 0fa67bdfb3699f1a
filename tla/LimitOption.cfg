\* Percentages 0% to 101%, sizes of 0, 1 and 3 bytes, and u64 scaled to
\* 16 bits: 100% and 101% are accepted by from_str.
CONSTANTS
    MaxPct = 101
    Sizes = {0, 1, 3}
    Word = 65536
    Panic = Panic
    Rejected = Rejected

SPECIFICATION Spec

INVARIANT PercentageLimitHonoured

\* prune's planning ends after the limit is computed.
CHECK_DEADLOCK FALSE
