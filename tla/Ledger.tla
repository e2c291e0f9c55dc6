------------------------------- MODULE Ledger -------------------------------
(***************************************************************************)
(* The ledger engine of ParallaxDTL: struct PdtlLedger of src/pdtl.h and   *)
(* every operation of src/pdtl_ledger.c that changes it, with the journal  *)
(* of src/pdtl_journal.c.                                                  *)
(*                                                                         *)
(* One action is one call.  XError(...) is the first check of the C        *)
(* function that fails, in the order of the code, or "PDTL_OK"; a call     *)
(* with an error changes last_error and nothing else.  A call without one  *)
(* changes the structs first and appends to the journal last, so a full    *)
(* journal makes it return PDTL_ERR_CAPACITY with its changes in place.    *)
(***************************************************************************)
EXTENDS Amounts, PrefixSums, FiniteSets, Sequences

CONSTANTS
    PolicyNames, RouteNames, AssetNames, OwnerNames,  \* the names callers use
    NoName,         \* the empty string, and NULL where the code accepts it
    Flags,          \* the sets of PdtlPolicyFlags callers pass
    MinReserves,    \* the min_reserve values callers pass
    BpsValues,      \* the fee_bps and max_exit_bps values callers pass
    CallAmounts,    \* the amounts callers pass
    NoIndex,        \* PDTL_NO_INDEX, larger than any count
    MaxPolicies, MaxRoutes, MaxCells, MaxReceipts, MaxJournal,  \* PDTL_MAX_*
    MaxSupply       \* bound: callers stop depositing at this initial supply

ASSUME LedgerAssumption ==
    /\ NoName \notin PolicyNames \cup RouteNames \cup AssetNames \cup OwnerNames
    /\ Flags \subseteq SUBSET {"WITHDRAW", "CONSOLIDATE", "ALLOW_ROUTE_CLOSE", "TREASURY"}
    /\ MinReserves \subseteq Amount
    /\ CallAmounts \subseteq Amount
    /\ BpsValues \subseteq Nat
    /\ MaxPolicies \in Nat /\ MaxRoutes \in Nat /\ MaxCells \in Nat
    /\ MaxReceipts \in Nat /\ MaxJournal \in Nat /\ MaxSupply \in Nat
    /\ NoIndex \in Nat /\ NoIndex >= MaxCells /\ NoIndex >= MaxReceipts

VARIABLES
    policies,       \* name -> policy, for the names added so far
    routes,         \* name -> route, for the names added so far
    cells,          \* 0..cell_count-1 -> cell
    cell_count,
    receipts,       \* 0..receipt_count-1 -> receipt
    receipt_count,
    journal,        \* the entries in order
    totals,         \* the four supply counters
    last_error      \* the code of the last failed call

vars == <<policies, routes, cells, cell_count, receipts, receipt_count,
          journal, totals, last_error>>

-----------------------------------------------------------------------------
(* The structs.  Left out: the text ids and labels, the withdrawal delay   *)
(* (stored and never read), the nonce (an input of the receipt id only)    *)
(* and the hash digests of cells, receipts and journal entries, which      *)
(* nothing reads.  A route digest is the tuple of fields it hashes.        *)

CellSlots    == 0..(MaxCells - 1)
ReceiptSlots == 0..(MaxReceipts - 1)

PolicyRecord == [flags: Flags, min_reserve: MinReserves, max_exit_bps: 0..BpsScale]

RouteRecord == [asset: AssetNames, policy: PolicyNames, fee_bps: 0..BpsScale,
                fee_cell: CellSlots \cup {NoIndex}, closed: BOOLEAN]

CellRecord == [owner: OwnerNames, asset: AssetNames, route: RouteNames,
               policy: PolicyNames, reserve: Amount, reserved_out: Amount,
               settled_in: Amount, settled_out: Amount, withdrawn: Amount,
               sequence: Nat, state: {"open", "closed"}]

ReceiptRecord == [origin_cell: CellSlots, beneficiary_cell: CellSlots,
                  paid_by_cell: CellSlots \cup {NoIndex}, asset: AssetNames,
                  route: RouteNames, policy: PolicyNames, gross: Amount,
                  fee: Amount, net: Amount, route_digest: RouteRecord,
                  status: {"pending", "settled", "cancelled"}]

EventKinds == {"cell_created", "genesis_deposit", "cell_transfer",
               "cell_consolidated", "receipt_issued", "receipt_settled",
               "withdrawal", "route_closed", "receipt_cancelled",
               "route_fee_updated"}

ErrorCodes == {"PDTL_OK", "PDTL_ERR_CAPACITY", "PDTL_ERR_NOT_FOUND",
               "PDTL_ERR_DUPLICATE", "PDTL_ERR_POLICY", "PDTL_ERR_ROUTE",
               "PDTL_ERR_CELL_CLOSED", "PDTL_ERR_ROUTE_CLOSED",
               "PDTL_ERR_ASSET", "PDTL_ERR_BALANCE", "PDTL_ERR_RECEIPT_STATE",
               "PDTL_ERR_BINDING", "PDTL_ERR_RECONCILIATION", "PDTL_ERR_ARGUMENT"}

\* pdtl_init
Init ==
    /\ policies = [n \in {} |-> {}]
    /\ routes = [n \in {} |-> {}]
    /\ cells = [i \in 0..-1 |-> {}]
    /\ cell_count = 0
    /\ receipts = [i \in 0..-1 |-> {}]
    /\ receipt_count = 0
    /\ journal = <<>>
    /\ totals = [initial_supply |-> 0, external_withdrawals |-> 0,
                 minted_after_genesis |-> 0, burned_after_genesis |-> 0]
    /\ last_error = "PDTL_OK"

-----------------------------------------------------------------------------
(* Lookups and views.  The definitions named Faulty... are not part of the *)
(* model: each is the definition that follows it with a plausible bug, to  *)
(* see that a property notices.                                            *)

IsPolicy(name) == name \in DOMAIN policies
IsRoute(name)  == name \in DOMAIN routes
IsCell(i)      == i < cell_count
IsReceipt(r)   == r < receipt_count

FaultyNextSequence == Len(journal)

(***************************************************************************)
(* The next sequence number.  The ledger's sequence and its journal_count  *)
(* only move together, in pdtl_append_journal, so both are Len(journal).   *)
(***************************************************************************)
NextSequence == Len(journal) + 1

\* forgets the commitments
FaultyAvailable(i) ==
    IF ~IsCell(i) \/ cells[i].state # "open" \/ ~IsPolicy(cells[i].policy)
       \/ cells[i].reserve <= policies[cells[i].policy].min_reserve
    THEN 0
    ELSE cells[i].reserve - policies[cells[i].policy].min_reserve

Available(i) ==
    IF ~IsCell(i) \/ cells[i].state # "open" \/ ~IsPolicy(cells[i].policy)
    THEN 0
    ELSE LET locked == Plus(cells[i].reserved_out, policies[cells[i].policy].min_reserve)
         IN  IF cells[i].reserve <= locked THEN 0 ELSE cells[i].reserve - locked

\* looks for the wrong status
FaultyRouteHasPendingReceipts(name) ==
    \E r \in DOMAIN receipts : receipts[r].status = "settled" /\ receipts[r].route = name

RouteHasPendingReceipts(name) ==
    \E r \in DOMAIN receipts : receipts[r].status = "pending" /\ receipts[r].route = name

-----------------------------------------------------------------------------
(* The journal and the result of a call.                                   *)

Entry(kind, cell, counterparty, receipt, amount, before, after) ==
    [kind |-> kind, cell |-> cell, counterparty |-> counterparty,
     receipt |-> receipt, amount |-> amount,
     before_balance |-> before, after_balance |-> after]

\* all entries or none
FaultyAppendJournal(entries) ==
    IF Len(journal) + Len(entries) > MaxJournal
    THEN last_error' = "PDTL_ERR_CAPACITY" /\ UNCHANGED journal
    ELSE journal' = journal \o entries /\ UNCHANGED last_error

(***************************************************************************)
(* The appends at the end of a call: each takes a free slot or fails, and  *)
(* the call returns at the first that fails.                               *)
(***************************************************************************)
AppendJournal(entries) ==
    LET room  == MaxJournal - Len(journal)
        taken == IF Len(entries) <= room THEN Len(entries) ELSE room
    IN  /\ journal' = journal \o SubSeq(entries, 1, taken)
        /\ last_error' = IF taken < Len(entries) THEN "PDTL_ERR_CAPACITY" ELSE last_error

\* pdtl_set_error and return
Reject(error) ==
    /\ error # "PDTL_OK"
    /\ last_error' = error
    /\ UNCHANGED <<policies, routes, cells, cell_count, receipts, receipt_count,
                   journal, totals>>

\* pdtl_clear_error
ClearError ==
    /\ last_error' = "PDTL_OK"
    /\ UNCHANGED <<policies, routes, cells, cell_count, receipts, receipt_count,
                   journal, totals>>

-----------------------------------------------------------------------------
(* Single mutations of the cell array.                                     *)

Debit(cs, i, amount) ==
    [cs EXCEPT ![i].reserve = Minus(@, amount), ![i].settled_out = Plus(@, amount)]

\* not counted as settled in
FaultyCredit(cs, i, amount) == [cs EXCEPT ![i].reserve = Plus(@, amount)]

Credit(cs, i, amount) ==
    [cs EXCEPT ![i].reserve = Plus(@, amount), ![i].settled_in = Plus(@, amount)]

Reserve(cs, i, amount) == [cs EXCEPT ![i].reserved_out = Plus(@, amount)]

FaultyRelease(cs, i, amount) == cs

Release(cs, i, amount) == [cs EXCEPT ![i].reserved_out = Minus(@, amount)]

Stamp(cs, touched) ==
    [i \in DOMAIN cs |-> IF i \in touched THEN [cs[i] EXCEPT !.sequence = NextSequence]
                                          ELSE cs[i]]

-----------------------------------------------------------------------------
(* Setting up policies, routes and cells.                                  *)

AddPolicyError(name, max_exit_bps) ==
    IF name = NoName THEN "PDTL_ERR_ARGUMENT"
    ELSE IF IsPolicy(name) THEN "PDTL_ERR_DUPLICATE"
    ELSE IF Cardinality(DOMAIN policies) >= MaxPolicies THEN "PDTL_ERR_CAPACITY"
    ELSE IF max_exit_bps > BpsScale THEN "PDTL_ERR_POLICY"
    ELSE "PDTL_OK"

AddPolicy(name, flags, min_reserve, max_exit_bps) ==
    LET error == AddPolicyError(name, max_exit_bps)
    IN  \/ Reject(error)
        \/ /\ error = "PDTL_OK"
           /\ policies' = [n \in DOMAIN policies \cup {name} |->
                 IF n = name THEN [flags |-> flags, min_reserve |-> min_reserve,
                                   max_exit_bps |-> max_exit_bps]
                             ELSE policies[n]]
           /\ UNCHANGED <<routes, cells, cell_count, receipts, receipt_count,
                          journal, totals, last_error>>

\* takes a slot whether there is one or not
FaultyAddRouteError(name, asset, policy, fee_bps, fee_cell) ==
    IF name = NoName \/ asset = NoName THEN "PDTL_ERR_ARGUMENT"
    ELSE IF IsRoute(name) THEN "PDTL_ERR_DUPLICATE"
    ELSE IF ~IsPolicy(policy) THEN "PDTL_ERR_POLICY"
    ELSE IF fee_bps > BpsScale THEN "PDTL_ERR_ROUTE"
    ELSE IF fee_cell # NoIndex /\ ~IsCell(fee_cell) THEN "PDTL_ERR_NOT_FOUND"
    ELSE "PDTL_OK"

AddRouteError(name, asset, policy, fee_bps, fee_cell) ==
    IF name = NoName \/ asset = NoName THEN "PDTL_ERR_ARGUMENT"
    ELSE IF IsRoute(name) THEN "PDTL_ERR_DUPLICATE"
    ELSE IF ~IsPolicy(policy) THEN "PDTL_ERR_POLICY"
    ELSE IF fee_bps > BpsScale THEN "PDTL_ERR_ROUTE"
    ELSE IF fee_cell # NoIndex /\ ~IsCell(fee_cell) THEN "PDTL_ERR_NOT_FOUND"
    ELSE IF Cardinality(DOMAIN routes) >= MaxRoutes THEN "PDTL_ERR_CAPACITY"
    ELSE "PDTL_OK"

AddRoute(name, asset, policy, fee_bps, fee_cell) ==
    LET error == AddRouteError(name, asset, policy, fee_bps, fee_cell)
    IN  \/ Reject(error)
        \/ /\ error = "PDTL_OK"
           /\ routes' = [n \in DOMAIN routes \cup {name} |->
                 IF n = name THEN [asset |-> asset, policy |-> policy, fee_bps |-> fee_bps,
                                   fee_cell |-> fee_cell, closed |-> FALSE]
                             ELSE routes[n]]
           /\ UNCHANGED <<policies, cells, cell_count, receipts, receipt_count,
                          journal, totals, last_error>>

\* does not compare the policy with the route's
FaultyCreateCellError(owner, asset, route, policy) ==
    IF owner = NoName THEN "PDTL_ERR_ARGUMENT"
    ELSE IF ~IsRoute(route) THEN "PDTL_ERR_ROUTE"
    ELSE IF ~IsPolicy(policy) THEN "PDTL_ERR_POLICY"
    ELSE IF routes[route].asset # asset THEN "PDTL_ERR_ASSET"
    ELSE IF cell_count >= MaxCells THEN "PDTL_ERR_CAPACITY"
    ELSE "PDTL_OK"

CreateCellError(owner, asset, route, policy) ==
    IF owner = NoName THEN "PDTL_ERR_ARGUMENT"
    ELSE IF ~IsRoute(route) THEN "PDTL_ERR_ROUTE"
    ELSE IF ~IsPolicy(policy) THEN "PDTL_ERR_POLICY"
    ELSE IF routes[route].asset # asset THEN "PDTL_ERR_ASSET"
    ELSE IF routes[route].policy # policy THEN "PDTL_ERR_POLICY"
    ELSE IF cell_count >= MaxCells THEN "PDTL_ERR_CAPACITY"
    ELSE "PDTL_OK"

NewCell(owner, asset, route, policy) ==
    [owner |-> owner, asset |-> asset, route |-> route, policy |-> policy,
     reserve |-> 0, reserved_out |-> 0, settled_in |-> 0, settled_out |-> 0,
     withdrawn |-> 0, sequence |-> NextSequence, state |-> "open"]

CreateCell(owner, asset, route, policy) ==
    LET error == CreateCellError(owner, asset, route, policy)
    IN  \/ Reject(error)
        \/ /\ error = "PDTL_OK"
           /\ cells' = [i \in 0..cell_count |->
                 IF i = cell_count THEN NewCell(owner, asset, route, policy) ELSE cells[i]]
           /\ cell_count' = cell_count + 1
           /\ AppendJournal(<<Entry("cell_created", cell_count, NoIndex, NoIndex, 0, 0, 0)>>)
           /\ UNCHANGED <<policies, routes, receipts, receipt_count, totals>>

-----------------------------------------------------------------------------
(* Moving reserves between cells, in and out.                              *)

DepositGenesisError(cell) ==
    IF ~IsCell(cell) THEN "PDTL_ERR_NOT_FOUND"
    ELSE IF cells[cell].state # "open" THEN "PDTL_ERR_CELL_CLOSED"
    ELSE "PDTL_OK"

DepositGenesis(cell, amount) ==
    LET error == DepositGenesisError(cell)
    IN  \/ Reject(error)
        \/ /\ error = "PDTL_OK"
           /\ cells' = Stamp([cells EXCEPT ![cell].reserve = Plus(@, amount)], {cell})
           /\ totals' = [totals EXCEPT !.initial_supply = Plus(@, amount)]
           /\ AppendJournal(<<Entry("genesis_deposit", cell, NoIndex, NoIndex, amount,
                                    cells[cell].reserve, cells'[cell].reserve)>>)
           /\ UNCHANGED <<policies, routes, cell_count, receipts, receipt_count>>

TransferError(from, to, amount) ==
    IF ~IsCell(from) \/ ~IsCell(to) THEN "PDTL_ERR_NOT_FOUND"
    ELSE IF cells[from].state # "open" \/ cells[to].state # "open" THEN "PDTL_ERR_CELL_CLOSED"
    ELSE IF cells[from].asset # cells[to].asset THEN "PDTL_ERR_ASSET"
    ELSE IF Available(from) < amount THEN "PDTL_ERR_BALANCE"
    ELSE "PDTL_OK"

\* from and to may be the same cell
TransferBetweenCells(from, to, amount) ==
    LET error == TransferError(from, to, amount)
    IN  \/ Reject(error)
        \/ /\ error = "PDTL_OK"
           /\ cells' = Stamp(Credit(Debit(cells, from, amount), to, amount), {from, to})
           /\ AppendJournal(<<Entry("cell_transfer", from, to, NoIndex, amount,
                                    cells[from].reserve, cells'[from].reserve),
                              Entry("cell_transfer", to, from, NoIndex, amount,
                                    cells[to].reserve, cells'[to].reserve)>>)
           /\ UNCHANGED <<policies, routes, cell_count, receipts, receipt_count, totals>>

\* what pdtl_consolidate_cell asks of the source
FaultyIdle(source) == TRUE

Idle(source) == cells[source].reserved_out = 0

ConsolidateError(target, source) ==
    IF ~IsCell(target) \/ ~IsCell(source) THEN "PDTL_ERR_NOT_FOUND"
    ELSE IF target = source THEN "PDTL_ERR_ARGUMENT"
    ELSE IF cells[target].state # "open" \/ cells[source].state # "open"
         THEN "PDTL_ERR_CELL_CLOSED"
    ELSE IF \/ ~IsPolicy(cells[target].policy)
            \/ "CONSOLIDATE" \notin policies[cells[target].policy].flags
         THEN "PDTL_ERR_POLICY"
    ELSE IF \/ cells[target].owner # cells[source].owner
            \/ cells[target].asset # cells[source].asset
            \/ cells[target].route # cells[source].route
            \/ cells[target].policy # cells[source].policy
         THEN "PDTL_ERR_POLICY"
    ELSE IF ~Idle(source) THEN "PDTL_ERR_BALANCE"
    ELSE "PDTL_OK"

\* the source's settled_out is not touched
ConsolidateCell(target, source) ==
    LET error == ConsolidateError(target, source)
        moved == cells[source].reserve
    IN  \/ Reject(error)
        \/ /\ error = "PDTL_OK"
           /\ cells' = Stamp([Credit(cells, target, moved) EXCEPT
                                 ![source].reserve = 0, ![source].state = "closed"],
                             {source, target})
           /\ AppendJournal(<<Entry("cell_consolidated", source, target, NoIndex, moved,
                                    moved, 0),
                              Entry("cell_consolidated", target, source, NoIndex, moved,
                                    cells[target].reserve, cells'[target].reserve)>>)
           /\ UNCHANGED <<policies, routes, cell_count, receipts, receipt_count, totals>>

\* compares with the whole reserve
FaultyWithdrawError(cell, amount) ==
    IF ~IsCell(cell) THEN "PDTL_ERR_NOT_FOUND"
    ELSE IF cells[cell].state # "open" THEN "PDTL_ERR_CELL_CLOSED"
    ELSE IF "WITHDRAW" \notin policies[cells[cell].policy].flags THEN "PDTL_ERR_POLICY"
    ELSE IF cells[cell].reserve < amount THEN "PDTL_ERR_BALANCE"
    ELSE "PDTL_OK"

WithdrawError(cell, amount) ==
    IF ~IsCell(cell) THEN "PDTL_ERR_NOT_FOUND"
    ELSE IF cells[cell].state # "open" THEN "PDTL_ERR_CELL_CLOSED"
    ELSE IF \/ ~IsPolicy(cells[cell].policy)
            \/ "WITHDRAW" \notin policies[cells[cell].policy].flags
         THEN "PDTL_ERR_POLICY"
    ELSE IF Available(cell) < amount THEN "PDTL_ERR_BALANCE"
    ELSE "PDTL_OK"

Withdraw(cell, amount) ==
    LET error == WithdrawError(cell, amount)
    IN  \/ Reject(error)
        \/ /\ error = "PDTL_OK"
           /\ cells' = Stamp([cells EXCEPT ![cell].reserve = Minus(@, amount),
                                           ![cell].withdrawn = Plus(@, amount)], {cell})
           /\ totals' = [totals EXCEPT !.external_withdrawals = Plus(@, amount)]
           /\ AppendJournal(<<Entry("withdrawal", cell, NoIndex, NoIndex, amount,
                                    cells[cell].reserve, cells'[cell].reserve)>>)
           /\ UNCHANGED <<policies, routes, cell_count, receipts, receipt_count>>

-----------------------------------------------------------------------------
(* The life of a receipt.                                                  *)

\* never asks whether the route is closed or the array full
FaultyIssueError(origin, beneficiary, gross) ==
    IF ~IsCell(origin) \/ ~IsCell(beneficiary) THEN "PDTL_ERR_NOT_FOUND"
    ELSE IF cells[origin].state # "open" \/ cells[beneficiary].state # "open"
         THEN "PDTL_ERR_CELL_CLOSED"
    ELSE IF cells[origin].asset # cells[beneficiary].asset THEN "PDTL_ERR_ASSET"
    ELSE IF Available(origin) < gross THEN "PDTL_ERR_BALANCE"
    ELSE "PDTL_OK"

IssueError(origin, beneficiary, gross) ==
    IF ~IsCell(origin) \/ ~IsCell(beneficiary) THEN "PDTL_ERR_NOT_FOUND"
    ELSE IF cells[origin].state # "open" \/ cells[beneficiary].state # "open"
         THEN "PDTL_ERR_CELL_CLOSED"
    ELSE IF cells[origin].asset # cells[beneficiary].asset THEN "PDTL_ERR_ASSET"
    ELSE IF ~IsRoute(cells[origin].route) THEN "PDTL_ERR_ROUTE"
    ELSE IF routes[cells[origin].route].closed THEN "PDTL_ERR_ROUTE_CLOSED"
    ELSE IF Available(origin) < gross THEN "PDTL_ERR_BALANCE"
    ELSE IF receipt_count >= MaxReceipts THEN "PDTL_ERR_CAPACITY"
    ELSE "PDTL_OK"

\* what the beneficiary gets
FaultyNetOf(gross, fee) == gross

NetOf(gross, fee) == Minus(gross, fee)

NewReceipt(origin, beneficiary, gross) ==
    LET cell  == cells[origin]
        route == routes[cell.route]
        fee   == FeeOf(gross, route.fee_bps)
    IN  [origin_cell |-> origin, beneficiary_cell |-> beneficiary, paid_by_cell |-> NoIndex,
         asset |-> cell.asset, route |-> cell.route, policy |-> cell.policy,
         gross |-> gross, fee |-> fee, net |-> NetOf(gross, fee),
         route_digest |-> route, status |-> "pending"]

IssueReceipt(origin, beneficiary, gross) ==
    LET error == IssueError(origin, beneficiary, gross)
    IN  \/ Reject(error)
        \/ /\ error = "PDTL_OK"
           /\ receipts' = [r \in 0..receipt_count |->
                 IF r = receipt_count THEN NewReceipt(origin, beneficiary, gross)
                                      ELSE receipts[r]]
           /\ receipt_count' = receipt_count + 1
           /\ cells' = Stamp(Reserve(cells, origin, gross), {origin})
           /\ AppendJournal(<<Entry("receipt_issued", origin, beneficiary, receipt_count, gross,
                                    cells[origin].reserved_out, cells'[origin].reserved_out)>>)
           /\ UNCHANGED <<policies, routes, cell_count, totals>>

FaultyCompatible(pays, receipt) == pays.asset = receipt.asset

Compatible(pays, receipt) == pays.route = receipt.route /\ pays.policy = receipt.policy

\* an origin that pays spends what it reserved; any other payer, what it has available
PayerCovers(payer, receipt) ==
    IF payer = receipt.origin_cell
    THEN cells[payer].reserve >= receipt.gross /\ cells[payer].reserved_out >= receipt.gross
    ELSE Available(payer) >= receipt.gross

\* pdtl_validate_settlement_shape
ShapeError(r, payer) ==
    IF ~IsReceipt(r) \/ ~IsCell(payer) THEN "PDTL_ERR_NOT_FOUND"
    ELSE IF receipts[r].status # "pending" THEN "PDTL_ERR_RECEIPT_STATE"
    ELSE IF cells[payer].state # "open" THEN "PDTL_ERR_CELL_CLOSED"
    ELSE IF ~IsRoute(receipts[r].route) THEN "PDTL_ERR_ROUTE"
    ELSE IF routes[receipts[r].route].closed THEN "PDTL_ERR_ROUTE_CLOSED"
    ELSE IF cells[payer].asset # receipts[r].asset THEN "PDTL_ERR_ASSET"
    ELSE IF ~Compatible(cells[payer], receipts[r]) THEN "PDTL_ERR_POLICY"
    ELSE IF ~PayerCovers(payer, receipts[r]) THEN "PDTL_ERR_BALANCE"
    ELSE "PDTL_OK"

\* the checks at the top of pdtl_apply_settlement
ApplyError(receipt) ==
    LET fee_cell == routes[receipt.route].fee_cell
    IN  IF \/ ~IsCell(receipt.origin_cell) \/ ~IsCell(receipt.beneficiary_cell)
           \/ fee_cell # NoIndex /\ ~IsCell(fee_cell)
        THEN "PDTL_ERR_NOT_FOUND"
        ELSE IF cells[receipt.origin_cell].reserved_out < receipt.gross
             THEN "PDTL_ERR_RECONCILIATION"
        ELSE "PDTL_OK"

SettleError(r, payer) ==
    IF ShapeError(r, payer) # "PDTL_OK" THEN ShapeError(r, payer) ELSE ApplyError(receipts[r])

(***************************************************************************)
(* The cells after the settlement.  Payer, origin, beneficiary and fee     *)
(* cell may coincide; the mutations are made one after the other.          *)
(***************************************************************************)
\* releases the commitment of the payer
FaultySettledCells(receipt, payer, fee_cell) ==
    LET paid     == Debit(cells, payer, receipt.gross)
        credited == Credit(paid, receipt.beneficiary_cell, receipt.net)
        feePaid  == IF fee_cell # NoIndex /\ receipt.fee > 0
                    THEN Credit(credited, fee_cell, receipt.fee) ELSE credited
    IN  Stamp(Release(feePaid, payer, receipt.gross),
              {payer, receipt.beneficiary_cell, receipt.origin_cell, fee_cell})

SettledCells(receipt, payer, fee_cell) ==
    LET paid     == Debit(cells, payer, receipt.gross)
        credited == Credit(paid, receipt.beneficiary_cell, receipt.net)
        feePaid  == IF fee_cell # NoIndex /\ receipt.fee > 0
                    THEN Credit(credited, fee_cell, receipt.fee) ELSE credited
        released == Release(feePaid, receipt.origin_cell, receipt.gross)
    IN  Stamp(released, {payer, receipt.beneficiary_cell, receipt.origin_cell, fee_cell})

SettleReceipt(r, payer) ==
    LET error    == SettleError(r, payer)
        receipt  == receipts[r]
        to       == receipt.beneficiary_cell
        fee_cell == routes[receipt.route].fee_cell
    IN  \/ Reject(error)
        \/ /\ error = "PDTL_OK"
           /\ cells' = SettledCells(receipt, payer, fee_cell)
           /\ receipts' = [receipts EXCEPT ![r].paid_by_cell = payer, ![r].status = "settled"]
           /\ AppendJournal(
                <<Entry("receipt_settled", payer, to, r, receipt.gross,
                        cells[payer].reserve, cells'[payer].reserve),
                  Entry("receipt_settled", to, payer, r, receipt.net,
                        cells[to].reserve, cells'[to].reserve)>>
                \o IF fee_cell # NoIndex /\ receipt.fee > 0
                   THEN <<Entry("receipt_settled", fee_cell, payer, r, receipt.fee,
                                cells[fee_cell].reserve, cells'[fee_cell].reserve)>>
                   ELSE <<>>)
           /\ UNCHANGED <<policies, routes, cell_count, receipt_count, totals>>

\* does not ask for a pending receipt
FaultyCancelError(r) ==
    IF ~IsReceipt(r) \/ ~IsCell(receipts[r].origin_cell) THEN "PDTL_ERR_NOT_FOUND"
    ELSE IF cells[receipts[r].origin_cell].reserved_out < receipts[r].gross
         THEN "PDTL_ERR_RECONCILIATION"
    ELSE "PDTL_OK"

CancelError(r) ==
    IF ~IsReceipt(r) THEN "PDTL_ERR_NOT_FOUND"
    ELSE IF receipts[r].status # "pending" THEN "PDTL_ERR_RECEIPT_STATE"
    ELSE IF ~IsCell(receipts[r].origin_cell) THEN "PDTL_ERR_NOT_FOUND"
    ELSE IF cells[receipts[r].origin_cell].reserved_out < receipts[r].gross
         THEN "PDTL_ERR_RECONCILIATION"
    ELSE "PDTL_OK"

\* the origin may be closed
CancelReceipt(r) ==
    LET error  == CancelError(r)
        origin == receipts[r].origin_cell
        gross  == receipts[r].gross
    IN  \/ Reject(error)
        \/ /\ error = "PDTL_OK"
           /\ cells' = Stamp(Release(cells, origin, gross), {origin})
           /\ receipts' = [receipts EXCEPT ![r].paid_by_cell = NoIndex,
                                           ![r].status = "cancelled"]
           /\ AppendJournal(<<Entry("receipt_cancelled", origin, receipts[r].beneficiary_cell,
                                    r, gross, cells[origin].reserved_out,
                                    cells'[origin].reserved_out)>>)
           /\ UNCHANGED <<policies, routes, cell_count, receipt_count, totals>>

-----------------------------------------------------------------------------
(* Changing and closing a route.                                           *)

UpdateRouteFeeError(name, fee_bps, fee_cell) ==
    IF ~IsRoute(name) THEN "PDTL_ERR_ROUTE"
    ELSE IF routes[name].closed THEN "PDTL_ERR_ROUTE_CLOSED"
    ELSE IF fee_bps > BpsScale \/ RouteHasPendingReceipts(name) THEN "PDTL_ERR_ROUTE"
    ELSE IF fee_cell = NoIndex THEN "PDTL_OK"
    ELSE IF ~IsCell(fee_cell) THEN "PDTL_ERR_NOT_FOUND"
    ELSE IF cells[fee_cell].state # "open" THEN "PDTL_ERR_CELL_CLOSED"
    ELSE IF cells[fee_cell].asset # routes[name].asset THEN "PDTL_ERR_ASSET"
    ELSE "PDTL_OK"

UpdateRouteFee(name, fee_bps, fee_cell) ==
    LET error == UpdateRouteFeeError(name, fee_bps, fee_cell)
    IN  \/ Reject(error)
        \/ /\ error = "PDTL_OK"
           /\ routes' = [routes EXCEPT ![name].fee_bps = fee_bps, ![name].fee_cell = fee_cell]
           /\ AppendJournal(<<Entry("route_fee_updated", fee_cell, NoIndex, NoIndex, fee_bps,
                                    routes[name].fee_bps, fee_bps)>>)
           /\ UNCHANGED <<policies, cells, cell_count, receipts, receipt_count, totals>>

CloseRouteError(name) ==
    IF ~IsRoute(name) THEN "PDTL_ERR_ROUTE"
    ELSE IF routes[name].closed THEN "PDTL_OK"
    ELSE IF RouteHasPendingReceipts(name) THEN "PDTL_ERR_ROUTE"
    ELSE IF \E i \in DOMAIN cells : cells[i].route = name /\ cells[i].reserved_out # 0
         THEN "PDTL_ERR_ROUTE"
    ELSE "PDTL_OK"

CloseRoute(name) ==
    LET error == CloseRouteError(name)
    IN  \/ Reject(error)
        \/ error = "PDTL_OK" /\ routes[name].closed /\ UNCHANGED vars
        \/ /\ error = "PDTL_OK"
           /\ ~routes[name].closed
           /\ routes' = [routes EXCEPT ![name].closed = TRUE]
           /\ AppendJournal(<<Entry("route_closed", NoIndex, NoIndex, NoIndex, 0, 0, 0)>>)
           /\ UNCHANGED <<policies, cells, cell_count, receipts, receipt_count, totals>>

-----------------------------------------------------------------------------
(* The callers: any call, with any argument, in any order.                 *)

CellArgs    == CellSlots \cup {NoIndex}
ReceiptArgs == ReceiptSlots \cup {NoIndex}

Setup ==
    \/ \E n \in PolicyNames \cup {NoName}, f \in Flags, m \in MinReserves, b \in BpsValues :
          AddPolicy(n, f, m, b)
    \/ \E n \in RouteNames \cup {NoName}, a \in AssetNames, p \in PolicyNames,
          b \in BpsValues, c \in CellArgs : AddRoute(n, a, p, b, c)
    \/ \E o \in OwnerNames \cup {NoName}, a \in AssetNames, n \in RouteNames,
          p \in PolicyNames : CreateCell(o, a, n, p)

Movement ==
    \/ \E c \in CellArgs, a \in CallAmounts :
          totals.initial_supply + a <= MaxSupply /\ DepositGenesis(c, a)
    \/ \E f, t \in CellArgs, a \in CallAmounts : TransferBetweenCells(f, t, a)
    \/ \E t, s \in CellArgs : ConsolidateCell(t, s)
    \/ \E c \in CellArgs, a \in CallAmounts : Withdraw(c, a)

ReceiptLife ==
    \/ \E o, b \in CellArgs, a \in CallAmounts : IssueReceipt(o, b, a)
    \/ \E r \in ReceiptArgs, p \in CellArgs : SettleReceipt(r, p)
    \/ \E r \in ReceiptArgs : CancelReceipt(r)

RouteControl ==
    \/ \E n \in RouteNames, b \in BpsValues, c \in CellArgs : UpdateRouteFee(n, b, c)
    \/ \E n \in RouteNames : CloseRoute(n)

Next == Setup \/ Movement \/ ReceiptLife \/ RouteControl \/ ClearError

Spec == Init /\ [][Next]_vars

=============================================================================
