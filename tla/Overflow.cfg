\* Amounts of three bits: deposits and sums wrap.
SPECIFICATION SurfaceSpec
VIEW LiveView
CHECK_DEADLOCK FALSE
CONSTANTS
    PolicyNames = {"retail", "treasury"}
    RouteNames = {"blue"}
    AssetNames = {"PXD"}
    OwnerNames = {"alice", "treasury"}
    NoName = ""
    Flags <- MCFlags
    MinReserves = {1}
    BpsValues = {4, 5}
    CallAmounts = {3}
    NoIndex = 99
    MaxPolicies = 2
    MaxRoutes = 1
    MaxCells = 2
    MaxReceipts = 1
    MaxJournal = 320
    MaxSupply = 16
    AmountModulus = 8
    WordModulus = 1073741824
    BpsScale = 4
INVARIANTS
    ReconcilesUpToFees
