------------------------------ MODULE MCLedger ------------------------------
(***************************************************************************)
(* Instances of the ledger for TLC.                                        *)
(***************************************************************************)
EXTENDS LedgerRefinement, Digests, TLC

(***************************************************************************)
(* Values for the constants.                                               *)
(***************************************************************************)
MCFlags == {{"WITHDRAW", "CONSOLIDATE", "ALLOW_ROUTE_CLOSE"}, {"WITHDRAW", "TREASURY"}}

\* callers choose names freely, so names are interchangeable
NameSymmetry == Permutations(PolicyNames) \cup Permutations(RouteNames)
                  \cup Permutations(AssetNames)

-----------------------------------------------------------------------------
(***************************************************************************)
(* The surface that pdtl_setup_surface of src/pdtl_scenarios.c registers,  *)
(* scaled down: one asset, the treasury's cell that collects fees and two  *)
(* cells of one owner on the route with a fee, which is half of the gross. *)
(* The runs that start here reach deep into the life of receipts.          *)
(***************************************************************************)
SurfacePolicies ==
    [n \in {"retail", "treasury"} |->
        IF n = "retail"
        THEN [flags |-> {"WITHDRAW", "CONSOLIDATE", "ALLOW_ROUTE_CLOSE"}, min_reserve |-> 1,
              max_exit_bps |-> BpsScale \div 4]
        ELSE [flags |-> {"WITHDRAW", "TREASURY"}, min_reserve |-> 0, max_exit_bps |-> BpsScale]]

\* an instance may have more names than the surface registers
SurfaceRoutes ==
    [n \in RouteNames \cap {"blue", "treasury"} |->
        IF n = "blue"
        THEN [asset |-> "PXD", policy |-> "retail", fee_bps |-> BpsScale \div 2,
              fee_cell |-> 0, closed |-> FALSE]
        ELSE [asset |-> "PXD", policy |-> "treasury", fee_bps |-> 0, fee_cell |-> NoIndex,
              closed |-> FALSE]]

\* the treasury's cell is on its own route where the instance has one
RouteOf(i) == IF i = 0 /\ "treasury" \in RouteNames THEN "treasury" ELSE "blue"

SurfaceCell(i) ==
    [owner |-> IF i = 0 THEN "treasury" ELSE "alice",
     asset |-> "PXD",
     route |-> RouteOf(i),
     policy |-> SurfaceRoutes[RouteOf(i)].policy,
     reserve |-> CASE i = 1 -> 3 [] i = 2 -> 1 [] OTHER -> 0,
     reserved_out |-> 0, settled_in |-> 0, settled_out |-> 0, withdrawn |-> 0,
     sequence |-> IF i = 0 THEN 1 ELSE MaxCells + i,
     state |-> "open"]

Created(i) == Entry("cell_created", i, NoIndex, NoIndex, 0, 0, 0)
Genesis(i) == Entry("genesis_deposit", i, NoIndex, NoIndex, SurfaceCell(i).reserve,
                    0, SurfaceCell(i).reserve)

SurfaceWith(registered, repricing) ==
    /\ policies = SurfacePolicies
    /\ routes = registered
    /\ cells = [i \in CellSlots |-> SurfaceCell(i)]
    /\ cell_count = MaxCells
    /\ receipts = [i \in 0..-1 |-> {}]
    /\ receipt_count = 0
    /\ journal = [k \in 1..MaxCells |-> Created(k - 1)]
                    \o [k \in 1..(MaxCells - 1) |-> Genesis(k)] \o repricing
    /\ totals = [initial_supply |-> SumReserves, external_withdrawals |-> 0,
                 minted_after_genesis |-> 0, burned_after_genesis |-> 0]
    /\ last_error = "PDTL_OK"

SurfaceInit == SurfaceWith(SurfaceRoutes, <<>>)

SurfaceSpec == SurfaceInit /\ [][Next]_vars

(***************************************************************************)
(* The surface as it is, or after a call of pdtl_update_route_fee that     *)
(* gave the fees to a cell of the route, which pays some of them itself.   *)
(***************************************************************************)
SharedFee == [SurfaceRoutes EXCEPT !["blue"].fee_cell = 1]
Repriced  == Entry("route_fee_updated", 1, NoIndex, NoIndex, SharedFee["blue"].fee_bps,
                   SurfaceRoutes["blue"].fee_bps, SharedFee["blue"].fee_bps)

SharedFeeSpec == (SurfaceInit \/ SurfaceWith(SharedFee, <<Repriced>>)) /\ [][Next]_vars

-----------------------------------------------------------------------------
(***************************************************************************)
(* What later behaviour depends on, while the journal has room: no call    *)
(* reads the journal's contents, the last error, a cell's history counters *)
(* and sequence number, or the terms of a receipt that is resolved.  Such  *)
(* a receipt weighs on the invariants by its uncredited fee only.          *)
(***************************************************************************)
LiveReceipt(r) ==
    IF receipts[r].status = "pending" THEN receipts[r] ELSE [status |-> receipts[r].status]

LiveCell(i) ==
    [owner |-> cells[i].owner, route |-> cells[i].route, reserve |-> cells[i].reserve,
     reserved_out |-> cells[i].reserved_out, state |-> cells[i].state]

LiveView ==
    <<policies, routes, totals, UncreditedFees,
      [i \in DOMAIN cells |-> LiveCell(i)], [r \in DOMAIN receipts |-> LiveReceipt(r)]>>

(***************************************************************************)
(* For the runs about the journal: its entries and the cells' sequence     *)
(* numbers count as well, and the full receipts.                           *)
(***************************************************************************)
JournalView ==
    <<policies, routes, totals, receipts, journal,
      [i \in DOMAIN cells |-> <<LiveCell(i), cells[i].sequence>>]>>

=============================================================================
