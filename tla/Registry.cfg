\* Names that are cut, in every order of the set-up calls.
SPECIFICATION RegistrySpec
CHECK_DEADLOCK FALSE
CONSTANTS
    PolicyTexts <- MCPolicyTexts
    RouteTexts <- MCRouteTexts
    AssetTexts <- MCAssetTexts
    OwnerTexts <- MCOwnerTexts
    NameRoom = 2
    AssetRoom = 1
    MaxPolicies = 2
    MaxRoutes = 2
    MaxCells = 2
    Period = 2
INVARIANTS
    FittingNamesFound
    CopiesKeepMeaning
    MergesKeepOwner
    DigestTellsRoutes
PROPERTIES
    LookupsStable
