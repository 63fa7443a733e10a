CONSTANTS
    CONTENT_LENGTH_LIMIT = 6
    MAX_U64 = 20
    MAX_ROUTES = 4
    PATH_LIMIT = 4
    HeaderFields <- MCHeaderFields
    MaxMembers = 3
    Rules <- MCRules
    MaxRules = 5
    SiteRoutes <- MCSiteRoutes
    MaxSiteRoutes = 3
    MaxWords = 3
    HopFields <- MCHopFields
    MaxHopFields = 3
    UpgradeParts <- MCUpgradeParts
    MaxUpgradeParts = 3
    UpgradeRequests <- MCUpgradeRequests
    Framings <- MCFramings
    VALUE_LIMIT = 12
    ForwardingFields <- MCForwardingFields
    MaxForwardingFields = 3
    Policies <- MCPolicies
    MAX_LINE_BYTES = 9
    MAX_CHUNK_SIZE = 32
    MAX_SIZE_DIGITS = 2
    MAX_EXTENSIONS = 2
    MAX_EXTENSION_NAME = 2
    ChunkStarts <- MCChunkStarts
    ChunkPieces <- MCChunkPieces
    MaxPieces = 4
    SECTION_LIMIT = 14
    FIELD_LIMIT = 2
    NAME_LIMIT = 2
    TrailerPieces <- MCTrailerPieces
    MaxTrailerPieces = 3
    DeclaredNames <- MCDeclaredNames
    Authorities <- MCAuthorities
    Targets <- MCTargets
    Requests <- MCRequests
SPECIFICATION Spec
CHECK_DEADLOCK FALSE
INVARIANTS
    VariantsAgree
    MatchRouteAgrees
    SelectionsAgree
    HopAndUpgradeAgree
    ForwardingAgrees
    ChunkMetadataAgrees
    TrailersAgree
