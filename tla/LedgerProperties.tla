-------------------------- MODULE LedgerProperties --------------------------
(***************************************************************************)
(* What the ledger promises.  The amounts in the properties are compared   *)
(* as integers, so a property also says that no 64-bit sum wrapped.        *)
(***************************************************************************)
EXTENDS LedgerViews

(***************************************************************************)
(* The callers never deposit more than a PdtlAmount can count.  Nothing in *)
(* the code checks it: a property that needs it says so.                   *)
(***************************************************************************)
SupplyFits == MaxSupply < AmountModulus

-----------------------------------------------------------------------------
(* Types and references.                                                   *)

EntryRecord == [kind: EventKinds, cell: CellSlots \cup {NoIndex},
                counterparty: CellSlots \cup {NoIndex},
                receipt: ReceiptSlots \cup {NoIndex},
                amount: Nat, before_balance: Nat, after_balance: Nat]

TotalsRecord == [initial_supply: Amount, external_withdrawals: Amount,
                 minted_after_genesis: {0}, burned_after_genesis: {0}]

PoliciesTyped == /\ DOMAIN policies \subseteq PolicyNames
                 /\ IsFiniteSet(DOMAIN policies) /\ Cardinality(DOMAIN policies) <= MaxPolicies
                 /\ policies \in [DOMAIN policies -> PolicyRecord]

RoutesTyped == /\ DOMAIN routes \subseteq RouteNames
               /\ IsFiniteSet(DOMAIN routes) /\ Cardinality(DOMAIN routes) <= MaxRoutes
               /\ routes \in [DOMAIN routes -> RouteRecord]

CellsTyped == /\ cell_count \in 0..MaxCells
              /\ cells \in [0..(cell_count - 1) -> CellRecord]

ReceiptsTyped == /\ receipt_count \in 0..MaxReceipts
                 /\ receipts \in [0..(receipt_count - 1) -> ReceiptRecord]

JournalTyped == /\ journal \in Seq(EntryRecord)
                /\ Len(journal) <= MaxJournal

(***************************************************************************)
(* Every field of the ledger stays in the type of its C declaration, no    *)
(* array outgrows its capacity, and the indexes stored in one struct are   *)
(* slots of the array they are for.                                        *)
(***************************************************************************)
TypeOK ==
    /\ PoliciesTyped
    /\ RoutesTyped
    /\ CellsTyped
    /\ ReceiptsTyped
    /\ JournalTyped
    /\ totals \in TotalsRecord
    /\ last_error \in ErrorCodes

RoutesRefer ==
    \A n \in DOMAIN routes : /\ IsPolicy(routes[n].policy)
                             /\ routes[n].fee_cell = NoIndex \/ IsCell(routes[n].fee_cell)

CellsRefer ==
    \A i \in DOMAIN cells : /\ IsPolicy(cells[i].policy) /\ IsRoute(cells[i].route)
                            /\ cells[i].asset = routes[cells[i].route].asset
                            /\ cells[i].policy = routes[cells[i].route].policy

ReceiptsRefer ==
    \A r \in DOMAIN receipts :
        /\ IsCell(receipts[r].origin_cell) /\ IsCell(receipts[r].beneficiary_cell)
        /\ receipts[r].route = cells[receipts[r].origin_cell].route
        /\ receipts[r].policy = cells[receipts[r].origin_cell].policy
        /\ receipts[r].asset = cells[receipts[r].origin_cell].asset
        /\ receipts[r].fee + receipts[r].net = receipts[r].gross

(***************************************************************************)
(* Indexes and names stored in one struct resolve in the other, so         *)
(* pdtl_get_cell, pdtl_find_policy and pdtl_find_route never fail on a     *)
(* value read from the ledger itself; what one struct copies from another  *)
(* agrees with it, and a receipt's fee and net make its gross.             *)
(***************************************************************************)
ReferencesOK == RoutesRefer /\ CellsRefer /\ ReceiptsRefer

-----------------------------------------------------------------------------
(* Commitments and reserves.                                               *)

PendingGross(c) ==
    PrefixSum([r \in DOMAIN receipts |->
                 IF receipts[r].status = "pending" /\ receipts[r].origin_cell = c
                 THEN receipts[r].gross ELSE 0], receipt_count)

(***************************************************************************)
(* reserved_out, which issue, settle and cancel each adjust on their own,  *)
(* is at all times the gross of the pending receipts the cell issued,      *)
(* whichever cell pays them in the end.                                    *)
(***************************************************************************)
ReservedOutIsPending == \A c \in DOMAIN cells : cells[c].reserved_out = PendingGross(c)

MinReserveOf(c) == policies[cells[c].policy].min_reserve

(***************************************************************************)
(* A cell with commitments holds them and its policy's minimum reserve;    *)
(* transfers, withdrawals, and receipts it pays for others, cannot eat     *)
(* into either.                                                            *)
(***************************************************************************)
CommitmentsCovered ==
    \A c \in DOMAIN cells : cells[c].reserved_out > 0 =>
        cells[c].reserve >= cells[c].reserved_out + MinReserveOf(c)

(***************************************************************************)
(* The fees of settled receipts whose route named no fee cell: the payer   *)
(* was debited the gross and nobody was credited the fee.                  *)
(***************************************************************************)
UncreditedFees ==
    PrefixSum([r \in DOMAIN receipts |->
                 IF receipts[r].status = "settled" /\ receipts[r].route_digest.fee_cell = NoIndex
                 THEN receipts[r].fee ELSE 0], receipt_count)

(***************************************************************************)
(* Every unit deposited is in a cell, was withdrawn, or is a fee that had  *)
(* no cell to go to.  No sum wraps on the way.                             *)
(***************************************************************************)
SupplyAccountedFor ==
    SumReserves + totals.external_withdrawals + UncreditedFees = totals.initial_supply

(***************************************************************************)
(* The same law as pdtl_global_reconciliation_ok computes it, modulo 2^64. *)
(* It survives deposits that wrap.                                         *)
(***************************************************************************)
ReconcilesUpToFees ==
    Plus(Plus(TotalCellReserves, totals.external_withdrawals), UncreditedFees % AmountModulus)
      = totals.initial_supply

(***************************************************************************)
(* Whoever lowers the reserve of a cell that stays open leaves its         *)
(* commitments and minimum reserve behind.                                 *)
(***************************************************************************)
FloorRespected ==
    [][\A c \in DOMAIN cells :
          cells'[c].reserve < cells[c].reserve /\ cells'[c].state = "open" =>
              cells'[c].reserve >= cells'[c].reserved_out + MinReserveOf(c)']_vars

-----------------------------------------------------------------------------
(* Receipts.                                                               *)

(***************************************************************************)
(* A pending receipt's digest is its route's digest of today: the route    *)
(* can neither be repriced nor closed under it, so the fee fixed at issue  *)
(* is the fee the route asks for at settlement.                            *)
(***************************************************************************)
PendingTermsCurrent ==
    \A r \in DOMAIN receipts : receipts[r].status = "pending" =>
        /\ IsRoute(receipts[r].route)
        /\ receipts[r].route_digest = routes[receipts[r].route]
        /\ receipts[r].fee = FeeOf(receipts[r].gross, routes[receipts[r].route].fee_bps)

(***************************************************************************)
(* No receipt is ever stuck: a pending one can be cancelled, and, if it    *)
(* reserves anything, its origin can still settle it by itself.            *)
(***************************************************************************)
PendingResolvable ==
    \A r \in DOMAIN receipts : receipts[r].status = "pending" =>
        /\ CancelError(r) = "PDTL_OK"
        /\ receipts[r].gross > 0 => SettleError(r, receipts[r].origin_cell) = "PDTL_OK"

(***************************************************************************)
(* A closed route is quiet for good: no pending receipt and no commitment  *)
(* on any of its cells.                                                    *)
(***************************************************************************)
ClosedRouteQuiet ==
    \A n \in DOMAIN routes : routes[n].closed =>
        /\ ~RouteHasPendingReceipts(n)
        /\ \A c \in DOMAIN cells : cells[c].route = n => cells[c].reserved_out = 0

Terms(receipt) == [receipt EXCEPT !.status = "pending", !.paid_by_cell = NoIndex]

(***************************************************************************)
(* A receipt keeps its terms, leaves "pending" once and never changes      *)
(* again; a settled one was paid by a cell of its own route.               *)
(***************************************************************************)
ReceiptsResolveOnce ==
    [][\A r \in DOMAIN receipts :
          /\ Terms(receipts'[r]) = Terms(receipts[r])
          /\ receipts[r].status # "pending" => receipts'[r] = receipts[r]
          /\ receipts'[r].paid_by_cell # NoIndex =>
                cells[receipts'[r].paid_by_cell].route = receipts[r].route]_vars

(***************************************************************************)
(* The underflow guards of settlement and cancellation are never the ones  *)
(* that stop a call: by the time they run, reserved_out covers the gross.  *)
(***************************************************************************)
NoReconciliationError == [][last_error' # "PDTL_ERR_RECONCILIATION"]_vars

-----------------------------------------------------------------------------
(* The journal.                                                            *)

ReserveKinds == {"genesis_deposit", "cell_transfer", "cell_consolidated",
                 "receipt_settled", "withdrawal"}

JournalHasRoom == Len(journal) < MaxJournal

(***************************************************************************)
(* While the journal has room it explains the balances: the last entry     *)
(* about a cell's reserve ends at the reserve the cell has, even when      *)
(* payer, beneficiary and fee cell of a settlement coincide.               *)
(***************************************************************************)
JournalBalancesCurrent ==
    JournalHasRoom =>
        \A c \in DOMAIN cells :
            LET about == {k \in DOMAIN journal :
                            journal[k].kind \in ReserveKinds /\ journal[k].cell = c}
            IN  IF about = {} THEN cells[c].reserve = 0
                ELSE \E k \in about : /\ \A j \in about : j <= k
                                      /\ journal[k].after_balance = cells[c].reserve

(***************************************************************************)
(* While the journal has room a cell's running totals and the journal tell *)
(* the same history: what the cell holds, paid, let go and merged away is  *)
(* what it was paid and the genesis deposits.  Four calls and the three    *)
(* cells of a settlement each keep a part of it; only deposits and what a  *)
(* consolidation takes are in no counter.                                  *)
(***************************************************************************)
Journaled(kind, c) ==
    LET amount(k) == IF journal[k].kind = kind /\ journal[k].cell = c
                     THEN IF kind = "cell_consolidated"
                          THEN (IF journal[k].after_balance < journal[k].before_balance
                                THEN journal[k].amount ELSE 0)
                          ELSE journal[k].amount
                     ELSE 0
    IN  PrefixSum([k \in 0..(Len(journal) - 1) |-> amount(k + 1)], Len(journal))

CountersTellHistory ==
    JournalHasRoom =>
        \A c \in DOMAIN cells :
            cells[c].reserve + cells[c].settled_out + cells[c].withdrawn
                + Journaled("cell_consolidated", c)
              = cells[c].settled_in + Journaled("genesis_deposit", c)

(***************************************************************************)
(* While the journal has room it tells each receipt's story: issued once,  *)
(* and its status is that of the settlement or cancellation entries.       *)
(***************************************************************************)
JournalTellsReceipts ==
    JournalHasRoom =>
        \A r \in DOMAIN receipts :
            LET kinds(kind) == {k \in DOMAIN journal :
                                  journal[k].receipt = r /\ journal[k].kind = kind}
            IN  /\ Cardinality(kinds("receipt_issued")) = 1
                /\ receipts[r].status = "settled" <=> kinds("receipt_settled") # {}
                /\ receipts[r].status = "cancelled" <=> kinds("receipt_cancelled") # {}

(***************************************************************************)
(* While the journal has room a cell's sequence number works as a version: *)
(* it grows with every change of the cell, and never passes the journal.   *)
(***************************************************************************)
StampsAdvance ==
    [][JournalHasRoom =>
          \A c \in DOMAIN cells : /\ cells[c].sequence <= Len(journal)
                                  /\ cells'[c] # cells[c] =>
                                        cells'[c].sequence > cells[c].sequence]_vars

-----------------------------------------------------------------------------
(* The exposure report.                                                    *)

(***************************************************************************)
(* The two independent aggregates of a route agree: the reserved_out of    *)
(* its cells is the gross of its pending receipts.  So a route without     *)
(* pending receipts has no reserved cell, and the second check of          *)
(* pdtl_close_route never stops a call the first one let pass.             *)
(***************************************************************************)
ExposureAgrees ==
    \A n \in DOMAIN routes : RouteExposure(n).pending_gross = RouteExposure(n).reserved_out

(***************************************************************************)
(* Commitments never exceed reserves, so utilization stays within the      *)
(* whole and the health score, an unsigned subtraction, within 0..100;     *)
(* what is available and what is reserved fit in the reserves.             *)
(***************************************************************************)
ExposureWithinReserves ==
    \A n \in DOMAIN routes :
        LET e == RouteExposure(n)
        IN  /\ e.utilization_bps <= BpsScale
            /\ e.health_score \in 0..100
            /\ e.available + e.reserved_out <= e.reserves
            /\ e.max_exit_budget <= e.reserves

-----------------------------------------------------------------------------
(* Statements of the documents that the code does not keep.  Each is       *)
(* checked by a run of its own, which TLC ends with a counterexample.      *)

(***************************************************************************)
(* README.md: initial supply plus minting less burning equals the cells'   *)
(* reserves plus what left, always.  A route without a fee cell and with a *)
(* fee loses it at each settlement.                                        *)
(***************************************************************************)
ConservationOk == GlobalReconciliationOk

(***************************************************************************)
(* docs/seguridad-operativa.md: the cell state control refuses closed      *)
(* cells.  Settlement checks the payer only; it credits a beneficiary or a *)
(* fee cell that was consolidated away, where the units stay for ever.     *)
(***************************************************************************)
ClosedCellsEmpty ==
    \A c \in DOMAIN cells : cells[c].state = "closed" => cells[c].reserve = 0

(***************************************************************************)
(* README.md: the journal records mutations.  A full journal refuses the   *)
(* entry after the mutation is made.                                       *)
(***************************************************************************)
MutationsJournaled == [][cells' # cells => Len(journal') > Len(journal)]_vars

(***************************************************************************)
(* docs/modelo-economico.md: fee = floor(gross * fee_bps / 10 000).  The   *)
(* product is cut to 64 bits first.                                        *)
(***************************************************************************)
FeesAsDocumented ==
    \A r \in DOMAIN receipts :
        receipts[r].fee = (receipts[r].gross * receipts[r].route_digest.fee_bps) \div BpsScale

(***************************************************************************)
(* docs/modelo-economico.md: the amounts of a receipt are units of the     *)
(* asset of its route.  pdtl_add_route takes any fee cell, so a fee can    *)
(* turn into units of another asset; pdtl_update_route_fee would refuse.   *)
(***************************************************************************)
FeesKeepTheirAsset ==
    [][\A r \in DOMAIN receipts :
          LET fee_cell == receipts[r].route_digest.fee_cell
          IN  /\ receipts[r].status = "pending" /\ receipts'[r].status = "settled"
              /\ receipts[r].fee > 0 /\ fee_cell # NoIndex
              => cells[fee_cell].asset = receipts[r].asset]_vars

=============================================================================
