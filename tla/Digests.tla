------------------------------ MODULE Digests -------------------------------
(***************************************************************************)
(* The digests of src/pdtl_hash.c that the report prints for whoever       *)
(* compares two states.  A digest is the tuple of the fields it hashes, in *)
(* their order: different tuples are taken to have different digests (for  *)
(* how texts are fed to the hash see Registry).  Ids and nonces, which     *)
(* Ledger leaves out, and the constant tags are left out here too.         *)
(***************************************************************************)
EXTENDS LedgerViews

RouteDigest(name) ==
    LET r == routes[name]
    IN  <<name, r.asset, r.policy, r.fee_bps, r.fee_cell, r.closed>>

CellDigest(i) ==
    LET c == cells[i]
    IN  <<c.owner, c.asset, c.route, c.policy, c.reserve, c.reserved_out, c.settled_in,
          c.settled_out, c.withdrawn, c.sequence, c.state>>

ReceiptDigest(i) ==
    LET r == receipts[i]
    IN  <<r.origin_cell, r.beneficiary_cell, r.paid_by_cell, r.asset, r.route, r.policy,
          r.gross, r.fee, r.net, r.route_digest, r.status>>

\* forgets the routes
FaultyStateDigest ==
    <<Len(journal), totals.initial_supply, totals.external_withdrawals, cell_count,
      receipt_count, Len(journal),
      [i \in DOMAIN cells |-> CellDigest(i)], [i \in DOMAIN receipts |-> ReceiptDigest(i)]>>

\* sequence and journal_count are both Len(journal), see NextSequence; routes never
\* change places, so the order of theirs, which Ledger does not keep, tells nothing
StateDigest ==
    <<Len(journal), totals.initial_supply, totals.external_withdrawals, cell_count,
      receipt_count, Len(journal),
      [n \in DOMAIN routes |-> RouteDigest(n)],
      [i \in DOMAIN cells |-> CellDigest(i)], [i \in DOMAIN receipts |-> ReceiptDigest(i)]>>

(***************************************************************************)
(* docs/operacion.md: to review a transition, compare state_digest.  Every *)
(* call that changes the ledger changes the digest, also those that a full *)
(* journal does not record; only the policies are not in it.               *)
(***************************************************************************)
DigestSeesChanges ==
    [][StateDigest' = StateDigest => UNCHANGED <<routes, cells, cell_count, receipts,
                                                 receipt_count, journal, totals>>]_vars

=============================================================================
