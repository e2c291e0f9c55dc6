\* Every call in every order from pdtl_init: two of each name, fees of the whole gross.
SPECIFICATION Spec
VIEW LiveView
SYMMETRY NameSymmetry
CHECK_DEADLOCK FALSE
CONSTANTS
    p1 = p1 p2 = p2 r1 = r1 r2 = r2 a1 = a1 a2 = a2 o1 = o1 none = none
    PolicyNames = {p1, p2}
    RouteNames = {r1, r2}
    AssetNames = {a1, a2}
    OwnerNames = {o1}
    NoName = none
    Flags = {{"WITHDRAW", "CONSOLIDATE"}}
    MinReserves = {1}
    BpsValues = {10000, 10001}
    CallAmounts = {0, 1}
    NoIndex = 99
    MaxPolicies = 2
    MaxRoutes = 2
    MaxCells = 2
    MaxReceipts = 1
    MaxJournal = 320
    MaxSupply = 2
    AmountModulus = 1073741824
    WordModulus = 1073741824
    BpsScale = 10000
INVARIANTS
    ReferencesOK
    SupplyAccountedFor
