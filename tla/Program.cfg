\* The command line program on every command line.
SPECIFICATION ProgramSpec
CHECK_DEADLOCK FALSE
CONSTANTS
    Arguments <- MCArguments
    MaxJsonDepth = 8
    Null = Null
    Text = Text
    PolicyNames <- MCPolicyNames
    RouteNames <- MCRouteNames
    AssetNames = {"USDC"}
    OwnerNames <- MCOwnerNames
    NoName = ""
    Flags <- MCFlags
    MinReserves = {0, 20}
    BpsValues = {0, 200, 350, 9000, 10000}
    CallAmounts = {100, 180, 200, 280, 300, 700, 800, 1000, 2000}
    NoIndex = 999
    MaxPolicies = 12
    MaxRoutes = 16
    MaxCells = 40
    MaxReceipts = 80
    MaxJournal = 320
    MaxSupply = 3200
    AmountModulus = 1073741824
    WordModulus = 1073741824
    BpsScale = 10000
INVARIANTS
    WriterInBounds
    WriterKnowsDocument
    DocumentReadable
    ExitCodeTells
    ResultAgreesWithLedger
    ReportAddsUp
    TailExplains
    AmountsAsTested
PROPERTIES
    AlwaysAnswers
