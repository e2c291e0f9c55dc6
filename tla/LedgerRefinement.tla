-------------------------- MODULE LedgerRefinement --------------------------
(***************************************************************************)
(* The ledger as an escrow: cells are accounts, receipts are promises.     *)
(***************************************************************************)
EXTENDS LedgerProperties

PromiseOf(receipt) ==
    [by |-> receipt.origin_cell, to |-> receipt.beneficiary_cell, amount |-> receipt.gross,
     net |-> receipt.net, status |-> receipt.status]

Abstract == INSTANCE Escrow WITH
    Units    <- CallAmounts,
    funds    <- [c \in DOMAIN cells |-> cells[c].reserve],
    accounts <- cell_count,
    promises <- [r \in DOMAIN receipts |-> PromiseOf(receipts[r])],
    made     <- receipt_count,
    books    <- [deposited |-> totals.initial_supply, left |-> totals.external_withdrawals,
                 lost |-> UncreditedFees]

(***************************************************************************)
(* Every call does what an escrow allows or nothing an escrow can see: no  *)
(* sequence of calls spends what a pending receipt has promised, resolves  *)
(* a receipt twice or changes its terms, or makes or loses a unit but for  *)
(* the fees of routes without a fee cell.                                  *)
(***************************************************************************)
LedgerImplementsEscrow == Abstract!EscrowSpec

=============================================================================
