\* An empty layer of a negative size in front of two that are too much.
SPECIFICATION Spec
CONSTANTS
    MaxInt = 15
    DefaultMaxTotalBytes = 4
    DefaultMaxFileBytes = 3
    DefaultMaxEntries = 2
    DefaultMaxReferrers = 2
    Digest = {"under"}
    Manifest <- MCManifest
    Blob <- Blobs
    Archive <- Tars
    Name <- Names
    Stray = {ToImage, ToManifest, ToResult, ToReferrers, Elsewhere, Nowhere}
    Leads <- MCLeads
    Base <- MCBase
    ManifestIn <- MCManifestIn
    BundleIn <- MCBundleIn
    LayoutName <- INDEX
    Words <- MCWords
    OCIType <- MCOCIType
    Referrer <- AllReferrers
    Attached <- MCAttached
    GoodLogin <- Robot
    Listings <- NoListings
    Configs <- PlainOnly
    Registries <- OpenRegistry
    None = None
    ToImage = ToImage
    ToManifest = ToManifest
    ToResult = ToResult
    ToReferrers = ToReferrers
    Elsewhere = Elsewhere
    Nowhere = Nowhere
    MaxRuns = 1
    MaxMoves = 0
    Crashes = FALSE
INVARIANTS BytesWithinTotal
CHECK_DEADLOCK FALSE
