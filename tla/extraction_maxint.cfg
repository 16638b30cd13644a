\* Both byte limits at the largest int64.
SPECIFICATION Spec
CONSTANTS
    MaxInt = 15
    DefaultMaxTotalBytes = 4
    DefaultMaxFileBytes = 3
    DefaultMaxEntries = 2
    DefaultMaxReferrers = 1
    Paths <- FlatPaths
    Above <- FlatAbove
    Sizes = {0, 2}
    Modes <- PlainModes
    Layers = 1
    Flags <- MaxIntFlags
    IOBound = 14
    Privileged = FALSE
INVARIANT NothingTruncated
CHECK_DEADLOCK FALSE
