\* The receipt life cycle on one route: two receipts, amounts of one and two.
SPECIFICATION SurfaceSpec
VIEW LiveView
CHECK_DEADLOCK FALSE
CONSTANTS
    PolicyNames = {"retail", "treasury", "spare"}
    RouteNames = {"blue", "spare"}
    AssetNames = {"PXD"}
    OwnerNames = {"alice", "treasury"}
    NoName = ""
    Flags <- MCFlags
    MinReserves = {0, 1}
    BpsValues = {0, 5000, 10001}
    CallAmounts = {1, 2}
    NoIndex = 99
    MaxPolicies = 2
    MaxRoutes = 1
    MaxCells = 3
    MaxReceipts = 2
    MaxJournal = 320
    MaxSupply = 4
    AmountModulus = 1073741824
    WordModulus = 1073741824
    BpsScale = 10000
INVARIANTS
    TypeOK
    ReservedOutIsPending
    CommitmentsCovered
    SupplyAccountedFor
    PendingResolvable
PROPERTIES
    FloorRespected
    NoReconciliationError
    LedgerImplementsEscrow
