----------------------------- MODULE LedgerViews -----------------------------
(***************************************************************************)
(* The read-only half of src/pdtl_ledger.c: the totals of the report, the  *)
(* reconciliation check and the exposure of a route.                       *)
(***************************************************************************)
EXTENDS Ledger

\* the sum over the integers, and the PdtlAmount the code accumulates
SumReserves == PrefixSum([i \in DOMAIN cells |-> cells[i].reserve], cell_count)

TotalCellReserves == SumReserves % AmountModulus

CellTotal(amounts) == PrefixSum(amounts, cell_count) % AmountModulus

TotalReservedOut == CellTotal([i \in DOMAIN cells |-> cells[i].reserved_out])
TotalSettledIn   == CellTotal([i \in DOMAIN cells |-> cells[i].settled_in])
TotalSettledOut  == CellTotal([i \in DOMAIN cells |-> cells[i].settled_out])

GlobalReconciliationOk ==
    Plus(Plus(TotalCellReserves, totals.external_withdrawals), totals.burned_after_genesis)
      = Plus(totals.initial_supply, totals.minted_after_genesis)

-----------------------------------------------------------------------------
(* pdtl_route_exposure.                                                    *)

RouteSum(name, amounts) ==
    PrefixSum([i \in DOMAIN cells |-> IF cells[i].route = name THEN amounts[i] ELSE 0],
              cell_count) % AmountModulus

RouteReserveTotal(name)   == RouteSum(name, [i \in DOMAIN cells |-> cells[i].reserve])
RouteAvailableTotal(name) == RouteSum(name, [i \in DOMAIN cells |-> Available(i)])
RouteReservedTotal(name)  == RouteSum(name, [i \in DOMAIN cells |-> cells[i].reserved_out])

RouteGross(name, status) ==
    PrefixSum([r \in DOMAIN receipts |->
                 IF receipts[r].route = name /\ receipts[r].status = status
                 THEN receipts[r].gross ELSE 0], receipt_count) % AmountModulus

RouteCells(name, state) ==
    Cardinality({i \in DOMAIN cells : cells[i].route = name /\ cells[i].state = state})

RouteReceipts(name, status) ==
    Cardinality({r \in DOMAIN receipts : receipts[r].route = name /\ receipts[r].status = status})

MaxExitBudget(name) ==
    ((RouteReserveTotal(name) * policies[routes[name].policy].max_exit_bps) % AmountModulus)
      \div BpsScale

\* a uint32_t, unlike the amounts it is computed from
UtilizationBps(name) ==
    IF RouteReserveTotal(name) = 0 THEN 0
    ELSE (((RouteReservedTotal(name) * BpsScale) % AmountModulus)
            \div RouteReserveTotal(name)) % WordModulus

HealthScore(name) ==
    IF UtilizationBps(name) >= BpsScale THEN 0
    ELSE 100 - (UtilizationBps(name) \div (BpsScale \div 100))

\* the fields are those of PdtlRouteExposure, the copies of the route's own left out
RouteExposure(name) ==
    [open_cells |-> RouteCells(name, "open"), closed_cells |-> RouteCells(name, "closed"),
     reserves |-> RouteReserveTotal(name), available |-> RouteAvailableTotal(name),
     reserved_out |-> RouteReservedTotal(name),
     pending_gross |-> RouteGross(name, "pending"),
     settled_gross |-> RouteGross(name, "settled"),
     cancelled_gross |-> RouteGross(name, "cancelled"),
     pending_receipts |-> RouteReceipts(name, "pending"),
     settled_receipts |-> RouteReceipts(name, "settled"),
     cancelled_receipts |-> RouteReceipts(name, "cancelled"),
     max_exit_budget |-> MaxExitBudget(name), utilization_bps |-> UtilizationBps(name),
     health_score |-> HealthScore(name)]

=============================================================================
