CONSTANTS
    Catalog <- MCCatalog
    PageStatusMax = 8
    MaxMediaTypes = 3
    MaxList = 2
    MediaCols <- MCMediaCols
    ReadyKws <- MCReadyKws
    SupportedKws <- MCSupportedKws
    DefaultKws <- MCDefaultKws
    TypeKws <- MCTypeKws
    VersionKws <- MCVersionKws
    UriSchemes = {"ipp", "ipps"}
    AuthKws = {"none", "other"}
    MarginCols <- MCMarginCols
SPECIFICATION CapsSpec
INVARIANT CapsTypeOK
INVARIANT MediaListFaithful
INVARIANT MediaDefaultRule
INVARIANT UriPreference
INVARIANT MediaTypesDistinct
INVARIANT VersionAgreesWithNegotiator
INVARIANT MarginsFromFirstCollection
