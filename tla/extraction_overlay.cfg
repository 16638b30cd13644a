\* Nested paths and awkward modes over two layers; sizes hardly matter.
SPECIFICATION Spec
CONSTANTS
    MaxInt = 31
    DefaultMaxTotalBytes = 8
    DefaultMaxFileBytes = 8
    DefaultMaxEntries = 2
    DefaultMaxReferrers = 1
    Paths <- MCPaths
    Above <- MCAbove
    Sizes = {1, 2}
    Modes <- AwkwardModes
    Layers = 2
    Flags <- LooseFlags
    IOBound = 30
    Privileged = FALSE
INVARIANTS TypeOK LastEntryWins TreeStaysUsable
CHECK_DEADLOCK FALSE
