\* A full journal lets a cell change without an entry.
SPECIFICATION SurfaceSpec
VIEW JournalView
CHECK_DEADLOCK FALSE
CONSTANTS
    PolicyNames = {"retail", "treasury"}
    RouteNames = {"blue"}
    AssetNames = {"PXD"}
    OwnerNames = {"alice", "treasury"}
    NoName = ""
    Flags <- MCFlags
    MinReserves = {1}
    BpsValues = {10001}
    CallAmounts = {2}
    NoIndex = 99
    MaxPolicies = 2
    MaxRoutes = 1
    MaxCells = 3
    MaxReceipts = 1
    MaxJournal = 11
    MaxSupply = 6
    AmountModulus = 1073741824
    WordModulus = 1073741824
    BpsScale = 10000
PROPERTIES
    MutationsJournaled
