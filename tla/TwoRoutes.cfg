\* The same life cycle with the treasury on a route and a policy of its own.
SPECIFICATION SurfaceSpec
VIEW LiveView
CHECK_DEADLOCK FALSE
CONSTANTS
    PolicyNames = {"retail", "treasury"}
    RouteNames = {"blue", "treasury"}
    AssetNames = {"PXD"}
    OwnerNames = {"alice", "treasury"}
    NoName = ""
    Flags <- MCFlags
    MinReserves = {0, 1}
    BpsValues = {5000, 10001}
    CallAmounts = {1, 2}
    NoIndex = 99
    MaxPolicies = 2
    MaxRoutes = 2
    MaxCells = 3
    MaxReceipts = 1
    MaxJournal = 320
    MaxSupply = 4
    AmountModulus = 1073741824
    WordModulus = 1073741824
    BpsScale = 10000
INVARIANTS
    PendingTermsCurrent
    ClosedRouteQuiet
    ExposureAgrees
    ExposureWithinReserves
PROPERTIES
    ReceiptsResolveOnce
