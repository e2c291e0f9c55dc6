----------------------------- MODULE Scenarios ------------------------------
(***************************************************************************)
(* The scenarios of src/pdtl_scenarios.c: each is a list of ledger calls,  *)
(* made one after the other until one fails, which keeps the numbers the   *)
(* report will print next to the ledger's own.                             *)
(***************************************************************************)
EXTENDS LedgerViews, TLC

VARIABLES
    handles,    \* the cells and the receipt that calls returned (PdtlScenarioCells)
    result      \* struct PdtlScenarioResult

scenarioVars == <<handles, result>>

Roles == {"treasury", "origin", "aux", "sponsor", "beneficiary"}

NoHandles == [h \in Roles \cup {"receipt"} |-> NoIndex]

\* pdtl_result_init
NoResult(name) ==
    [scenario |-> name, cell |-> [r \in Roles |-> NoIndex], receipt |-> NoIndex,
     secondary_receipt |-> NoIndex, settlement_accepted |-> FALSE, route_closed |-> FALSE,
     available_before |-> 0, available_after |-> 0, withdrawn |-> 0, cancelled_gross |-> 0,
     fee_before_bps |-> 0, fee_after_bps |-> 0, fee_update_applied |-> FALSE]

-----------------------------------------------------------------------------
(* A call, the fields of the result that the scenario sets when it         *)
(* returns, and the field in which it keeps what a cell has available.     *)

Call(op, args) == [op |-> op, args |-> args, sets |-> <<>>, gauge |-> "", of |-> ""]

Setting(call, sets) == [call EXCEPT !.sets = sets]

Gauging(call, field, role) == [call EXCEPT !.gauge = field, !.of = role]

\* the parameters of the actions of Ledger, cells by their role
Policy(name, flags, min_reserve, max_exit_bps) ==
    Call("add_policy", [name |-> name, flags |-> flags, min_reserve |-> min_reserve,
                        max_exit_bps |-> max_exit_bps])
Route(name, policy, fee_bps, fee_role) ==
    Call("add_route", [name |-> name, policy |-> policy, fee_bps |-> fee_bps,
                       fee_role |-> fee_role])
Cell(role, owner, route, policy) ==
    Call("create_cell", [role |-> role, owner |-> owner, route |-> route, policy |-> policy])
Deposit(role, amount)      == Call("deposit", [role |-> role, amount |-> amount])
Transfer(from, to, amount) == Call("transfer", [from |-> from, to |-> to, amount |-> amount])
Consolidate(to, from)      == Call("consolidate", [from |-> from, to |-> to])
Withdrawal(role, amount)   == Call("withdraw", [role |-> role, amount |-> amount])
Issue(from, to, gross)     == Call("issue", [from |-> from, to |-> to, gross |-> gross])
Settle(payer)              == Call("settle", [payer |-> payer])
Cancel                     == Call("cancel", <<>>)
Reprice(route, fee_bps)    == Call("update_fee", [route |-> route, fee_bps |-> fee_bps])
Close(route)               == Call("close", [route |-> route])
Capture                    == Call("capture", <<>>)

-----------------------------------------------------------------------------
Asset == "USDC"

\* pdtl_setup_surface
Surface == <<
    Policy("treasury-policy", {"TREASURY", "WITHDRAW"}, 0, 10000),
    Policy("retail-exit", {"WITHDRAW", "CONSOLIDATE", "ALLOW_ROUTE_CLOSE"}, 20, 9000),
    Route("treasury", "treasury-policy", 0, ""),
    Cell("treasury", "protocol-fees", "treasury", "treasury-policy"),
    Route("blue-route", "retail-exit", 200, "treasury"),
    Cell("origin", "alice", "blue-route", "retail-exit"),
    Cell("aux", "alice", "blue-route", "retail-exit"),
    Cell("sponsor", "sponsor-pool", "blue-route", "retail-exit"),
    Cell("beneficiary", "merchant", "blue-route", "retail-exit"),
    Deposit("origin", 1000),
    Deposit("aux", 200),
    Deposit("sponsor", 2000) >>

Snapshot == << Capture >>

Flow == <<
    Capture,
    Transfer("aux", "origin", 100),
    Consolidate("origin", "aux"),
    Gauging(Issue("origin", "beneficiary", 700), "available_before", "origin"),
    Gauging(Setting(Settle("origin"), [settlement_accepted |-> TRUE]),
            "available_after", "origin"),
    Setting(Withdrawal("origin", 280), [withdrawn |-> 280]),
    Setting(Close("blue-route"), [route_closed |-> TRUE]) >>

Cancellation == <<
    Capture,
    Gauging(Issue("origin", "beneficiary", 300), "available_before", "origin"),
    Gauging(Setting(Cancel, [cancelled_gross |-> 300]), "available_after", "origin"),
    Setting(Withdrawal("origin", 180), [withdrawn |-> 180]),
    Setting(Close("blue-route"), [route_closed |-> TRUE]) >>

FeeRotation == <<
    Setting(Capture, [fee_before_bps |-> 200]),
    Setting(Reprice("blue-route", 350), [fee_after_bps |-> 350, fee_update_applied |-> TRUE]),
    Gauging(Issue("sponsor", "beneficiary", 800), "available_before", "sponsor"),
    Gauging(Setting(Settle("sponsor"), [settlement_accepted |-> TRUE]),
            "available_after", "sponsor") >>

\* knows one name only
FaultyScenarioName(argument) == argument

\* pdtl_run_scenario: NULL and the empty string mean flow, and so does "routed"
ScenarioName(argument) == IF argument \in {"", "routed"} THEN "flow" ELSE argument

KnownScenarios == {"snapshot", "flow", "cancel", "fee-rotation"}

Script(name) ==
    Surface \o CASE name = "snapshot"     -> Snapshot
                 [] name = "flow"         -> Flow
                 [] name = "cancel"       -> Cancellation
                 [] name = "fee-rotation" -> FeeRotation

-----------------------------------------------------------------------------
(* Making a call.                                                          *)

FaultyFeeCell(role) == NoIndex

FeeCell(role) == IF role = "" THEN NoIndex ELSE handles[role]

CallLedger(op, a) ==
    \/ op = "add_policy"  /\ AddPolicy(a.name, a.flags, a.min_reserve, a.max_exit_bps)
    \/ op = "add_route"   /\ AddRoute(a.name, Asset, a.policy, a.fee_bps, FeeCell(a.fee_role))
    \/ op = "create_cell" /\ CreateCell(a.owner, Asset, a.route, a.policy)
    \/ op = "deposit"     /\ DepositGenesis(handles[a.role], a.amount)
    \/ op = "transfer"    /\ TransferBetweenCells(handles[a.from], handles[a.to], a.amount)
    \/ op = "consolidate" /\ ConsolidateCell(handles[a.to], handles[a.from])
    \/ op = "withdraw"    /\ Withdraw(handles[a.role], a.amount)
    \/ op = "issue"       /\ IssueReceipt(handles[a.from], handles[a.to], a.gross)
    \/ op = "settle"      /\ SettleReceipt(handles["receipt"], handles[a.payer])
    \/ op = "cancel"      /\ CancelReceipt(handles["receipt"])
    \/ op = "update_fee"  /\ UpdateRouteFee(a.route, a.fee_bps, handles["treasury"])
    \/ op = "close"       /\ CloseRoute(a.route)
    \/ op = "capture"     /\ UNCHANGED vars

\* a call that fails returns no index
Returned(op, a) ==
    IF last_error' # "PDTL_OK" THEN handles
    ELSE CASE op = "create_cell" -> [handles EXCEPT ![a.role] = cell_count]
           [] op = "issue"       -> [handles EXCEPT !["receipt"] = receipt_count]
           [] OTHER              -> handles

\* looks before the call
FaultyGauged(role) == Available(handles[role])

Gauged(role) == Available(handles[role])'

\* and nothing is recorded of it
Recorded(call) ==
    IF last_error' # "PDTL_OK" THEN result
    ELSE LET captured == IF call.op = "capture"
                         THEN [result EXCEPT !.cell = [r \in Roles |-> handles[r]]] ELSE result
             issued   == [captured EXCEPT !.receipt = handles'["receipt"]]
             set      == call.sets @@ issued
         IN  IF call.gauge = "" THEN set
             ELSE [set EXCEPT ![call.gauge] = Gauged(call.of)]

Perform(call) ==
    /\ CallLedger(call.op, call.args)
    /\ handles' = Returned(call.op, call.args)
    /\ result' = Recorded(call)

=============================================================================
