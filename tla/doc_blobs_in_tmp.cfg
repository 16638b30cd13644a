\* A second run after the tag was repointed to a layer that is titled into image/.
SPECIFICATION Spec
CONSTANTS
    MaxInt = 15
    DefaultMaxTotalBytes = 4
    DefaultMaxFileBytes = 3
    DefaultMaxEntries = 2
    DefaultMaxReferrers = 2
    Digest = {"files", "over"}
    Manifest <- MCManifest
    Blob <- Blobs
    Archive <- Tars
    Name <- Names
    Stray = {ToImage, ToManifest, ToResult, ToReferrers, Elsewhere, Nowhere}
    Leads <- MCLeads
    Base <- MCBase
    ManifestIn <- MCManifestIn
    BundleIn <- MCBundleIn
    LayoutName <- INDEX
    Words <- MCWords
    OCIType <- MCOCIType
    Referrer <- AllReferrers
    Attached <- MCAttached
    GoodLogin <- Robot
    Listings <- NoListings
    Configs <- PlainOnly
    Registries <- OpenRegistry
    None = None
    ToImage = ToImage
    ToManifest = ToManifest
    ToResult = ToResult
    ToReferrers = ToReferrers
    Elsewhere = Elsewhere
    Nowhere = Nowhere
    MaxRuns = 2
    MaxMoves = 1
    Crashes = FALSE
PROPERTY OnlyUnpackTouchesImage
CHECK_DEADLOCK FALSE
