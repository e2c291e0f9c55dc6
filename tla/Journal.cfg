\* The journal up to its capacity, and the calls that outlive it.
SPECIFICATION SharedFeeSpec
VIEW JournalView
CHECK_DEADLOCK FALSE
CONSTANTS
    PolicyNames = {"retail", "treasury"}
    RouteNames = {"blue"}
    AssetNames = {"PXD"}
    OwnerNames = {"alice", "treasury"}
    NoName = ""
    Flags <- MCFlags
    MinReserves = {0, 1}
    BpsValues = {10001}
    CallAmounts = {2}
    NoIndex = 99
    MaxPolicies = 2
    MaxRoutes = 1
    MaxCells = 3
    MaxReceipts = 1
    MaxJournal = 12
    MaxSupply = 4
    AmountModulus = 1073741824
    WordModulus = 1073741824
    BpsScale = 10000
INVARIANTS
    JournalBalancesCurrent
    JournalTellsReceipts
    CountersTellHistory
PROPERTIES
    StampsAdvance
    DigestSeesChanges
