\* The byte and entry limits, across two layers.
SPECIFICATION Spec
CONSTANTS
    MaxInt = 15
    DefaultMaxTotalBytes = 4
    DefaultMaxFileBytes = 3
    DefaultMaxEntries = 2
    DefaultMaxReferrers = 1
    Paths <- FlatPaths
    Above <- FlatAbove
    Sizes = {0, 1, 2, 5}
    Modes <- PlainModes
    Layers = 2
    Flags <- SizeFlags
    IOBound = 14
    Privileged = FALSE
INVARIANTS DiskBound PublishedWithinLimits NothingTruncated
PROPERTY Terminates
CHECK_DEADLOCK FALSE
