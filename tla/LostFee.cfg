\* A fee without a fee cell breaks conservation_ok.
SPECIFICATION SurfaceSpec
VIEW LiveView
CHECK_DEADLOCK FALSE
CONSTANTS
    PolicyNames = {"retail", "treasury"}
    RouteNames = {"blue"}
    AssetNames = {"PXD"}
    OwnerNames = {"alice", "treasury"}
    NoName = ""
    Flags <- MCFlags
    MinReserves = {0, 1}
    BpsValues = {0, 5000, 10001}
    CallAmounts = {1, 2}
    NoIndex = 99
    MaxPolicies = 2
    MaxRoutes = 1
    MaxCells = 3
    MaxReceipts = 2
    MaxJournal = 320
    MaxSupply = 4
    AmountModulus = 1073741824
    WordModulus = 1073741824
    BpsScale = 10000
INVARIANTS
    ConservationOk
