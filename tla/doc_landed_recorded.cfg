\* Two referrers, the second of which may fail to download.
SPECIFICATION Spec
CONSTANTS
    MaxInt = 15
    DefaultMaxTotalBytes = 4
    DefaultMaxFileBytes = 3
    DefaultMaxEntries = 2
    DefaultMaxReferrers = 2
    Digest = {"chart"}
    Manifest <- MCManifest
    Blob <- Blobs
    Archive <- Tars
    Name <- Names
    Stray = {ToImage, ToManifest, ToResult, ToReferrers, Elsewhere, Nowhere}
    Leads <- MCLeads
    Base <- MCBase
    ManifestIn <- MCManifestIn
    BundleIn <- MCBundleIn
    LayoutName <- INDEX
    Words <- MCWords
    OCIType <- MCOCIType
    Referrer <- AllReferrers
    Attached <- MCAttached
    GoodLogin <- Robot
    Listings <- TwoReferrers
    Configs <- ReferrersOnly
    Registries <- OpenRegistry
    None = None
    ToImage = ToImage
    ToManifest = ToManifest
    ToResult = ToResult
    ToReferrers = ToReferrers
    Elsewhere = Elsewhere
    Nowhere = Nowhere
    MaxRuns = 1
    MaxMoves = 0
    Crashes = FALSE
INVARIANTS LandedIsRecorded
CHECK_DEADLOCK FALSE
