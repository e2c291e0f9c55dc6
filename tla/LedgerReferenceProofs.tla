------------------------ MODULE LedgerReferenceProofs ------------------------
(***************************************************************************)
(* How the structs of the ledger refer to each other, for every value of   *)
(* the constants: stored names and indexes resolve, a pending receipt has  *)
(* the terms of its route, a closed route is quiet, and a receipt is       *)
(* resolved once.  Then the journal: it tells the balances and the         *)
(* receipts as long as it has room.                                        *)
(***************************************************************************)
EXTENDS LedgerTypeProofs, FiniteSetTheorems

(***************************************************************************)
(* What no call ever changes: policies, the asset and policy of a route,   *)
(* the identity of a cell, the terms of a receipt.                         *)
(***************************************************************************)
SameIdentity(cs, ds) ==
    \A i \in DOMAIN cs : /\ ds[i].owner = cs[i].owner /\ ds[i].asset = cs[i].asset
                         /\ ds[i].route = cs[i].route /\ ds[i].policy = cs[i].policy

PoliciesKept == \A n \in DOMAIN policies : n \in DOMAIN policies' /\ policies'[n] = policies[n]

RoutesKept == \A n \in DOMAIN routes : /\ n \in DOMAIN routes'
                                       /\ routes'[n].asset = routes[n].asset
                                       /\ routes'[n].policy = routes[n].policy

CellsKept == DOMAIN cells \subseteq DOMAIN cells' /\ SameIdentity(cells, cells')

ReceiptsKept == \A r \in DOMAIN receipts : /\ r \in DOMAIN receipts'
                                           /\ Terms(receipts'[r]) = Terms(receipts[r])

Kept == PoliciesKept /\ RoutesKept /\ CellsKept /\ ReceiptsKept

-----------------------------------------------------------------------------
(* Who changes what.                                                       *)

\* Policies are only added (pdtl_add_policy).
LEMMA PolicyChanges ==
    ASSUME TypeOK, [Next]_vars
    PROVE  PoliciesKept
<1>1. CASE UNCHANGED policies
  BY <1>1 DEF PoliciesKept
<1>2. ASSUME NEW name \in PolicyNames \cup {NoName}, NEW f \in Flags, NEW m \in MinReserves,
             NEW b \in BpsValues, AddPolicy(name, f, m, b), policies' # policies
      PROVE  PoliciesKept
  <2>1. name \notin DOMAIN policies
    BY <1>2 DEF AddPolicy, AddPolicyError, Reject, IsPolicy
  <2> QED
    BY <1>2, <2>1 DEF AddPolicy, Reject, PoliciesKept
<1>3. CASE Setup
  BY ZenonT(60), <1>1, <1>2, <1>3 DEF Setup, AddRoute, CreateCell, Reject
<1>4. CASE Movement
  BY <1>1, <1>4 DEF Movement, DepositGenesis, TransferBetweenCells, ConsolidateCell, Withdraw,
     Reject
<1>5. CASE ReceiptLife
  BY <1>1, <1>5 DEF ReceiptLife, IssueReceipt, SettleReceipt, CancelReceipt, Reject
<1>6. CASE RouteControl
  BY <1>1, <1>6 DEF RouteControl, UpdateRouteFee, CloseRoute, Reject, vars
<1> QED
  BY <1>1, <1>3, <1>4, <1>5, <1>6 DEF Next, ClearError, vars

(***************************************************************************)
(* What a step may do to the routes: add one, and reprice or close one     *)
(* that nothing pends on.                                                  *)
(***************************************************************************)
NewFeeCell(n) == routes'[n].fee_cell = NoIndex \/ IsCell(routes'[n].fee_cell)

NewRoute(n) == NewFeeCell(n) /\ IsPolicy(routes'[n].policy) /\ ~routes'[n].closed

QuietNow(n) ==
    /\ ~RouteHasPendingReceipts(n)
    /\ UNCHANGED <<cells, cell_count, receipts, receipt_count>>

Uncommitted(n) == \A c \in DOMAIN cells : cells[c].route = n => cells[c].reserved_out = 0

RouteStep ==
    /\ RoutesKept
    /\ \A n \in DOMAIN routes' : \/ n \in DOMAIN routes
                                 \/ NewRoute(n)
    /\ \A n \in DOMAIN routes :
          \/ routes'[n] = routes[n]
          \/ /\ QuietNow(n)
             /\ routes'[n].fee_cell = routes[n].fee_cell \/ NewFeeCell(n)
             /\ routes'[n].closed => routes[n].closed \/ Uncommitted(n)

\* A new route names a policy and a fee cell that exist, and is open.
LEMMA AddRouteStep ==
    ASSUME NEW name, NEW asset, NEW policy, NEW b, NEW c,
           AddRoute(name, asset, policy, b, c), routes' # routes
    PROVE  RouteStep
<1> DEFINE route == [asset |-> asset, policy |-> policy, fee_bps |-> b,
                     fee_cell |-> c, closed |-> FALSE]
<1>1. name \notin DOMAIN routes /\ IsPolicy(policy) /\ (c = NoIndex \/ IsCell(c))
  BY DEF AddRoute, AddRouteError, Reject, IsRoute
<1>2. routes' = [n \in DOMAIN routes \cup {name} |-> IF n = name THEN route ELSE routes[n]]
  BY DEF AddRoute, Reject
<1>3. route.policy = policy /\ route.fee_cell = c /\ ~route.closed
  BY Zenon
<1>4. /\ DOMAIN routes' = DOMAIN routes \cup {name} /\ routes'[name] = route
      /\ \A n \in DOMAIN routes : routes'[n] = routes[n]
  BY <1>1, <1>2
<1> HIDE DEF route
<1> QED
  BY <1>1, <1>3, <1>4, Zenon DEF RouteStep, RoutesKept, NewRoute, NewFeeCell

\* Only an open route without pending receipts is repriced.
LEMMA UpdateRouteFeeStep ==
    ASSUME TypeOK, NEW name, NEW b, NEW c, UpdateRouteFee(name, b, c), routes' # routes
    PROVE  RouteStep
<1> DEFINE route == [routes[name] EXCEPT !.fee_bps = b, !.fee_cell = c]
<1>1. /\ name \in DOMAIN routes /\ QuietNow(name)
      /\ c = NoIndex \/ IsCell(c)
  BY DEF UpdateRouteFee, UpdateRouteFeeError, Reject, IsRoute, QuietNow
<1>2. /\ routes \in [DOMAIN routes -> RouteRecord] /\ routes[name] \in RouteRecord
  BY <1>1 DEF TypeOK, RoutesTyped
<1>3. routes' = [routes EXCEPT ![name] = route]
  BY <1>1, <1>2 DEF UpdateRouteFee, Reject
<1>4. /\ route.asset = routes[name].asset /\ route.policy = routes[name].policy
      /\ route.fee_cell = c /\ route.closed = routes[name].closed
  BY <1>2, Zenon DEF RouteRecord
<1>5. /\ DOMAIN routes' = DOMAIN routes /\ routes'[name] = route
      /\ \A n \in DOMAIN routes : n # name => routes'[n] = routes[n]
  BY <1>1, <1>2, <1>3
<1> HIDE DEF route
<1>6. RoutesKept
  BY <1>4, <1>5, Zenon DEF RoutesKept
<1> QED
  BY <1>1, <1>4, <1>5, <1>6, Zenon DEF RouteStep, NewFeeCell

\* Only a route without pending receipts and commitments is closed.
LEMMA CloseRouteStep ==
    ASSUME TypeOK, NEW name, CloseRoute(name), routes' # routes
    PROVE  RouteStep
<1> DEFINE route == [routes[name] EXCEPT !.closed = TRUE]
<1>1. name \in DOMAIN routes /\ QuietNow(name) /\ Uncommitted(name)
  BY DEF CloseRoute, CloseRouteError, Reject, IsRoute, QuietNow, Uncommitted, vars
<1>2. /\ routes \in [DOMAIN routes -> RouteRecord] /\ routes[name] \in RouteRecord
  BY <1>1 DEF TypeOK, RoutesTyped
<1>3. routes' = [routes EXCEPT ![name] = route]
  BY <1>1, <1>2 DEF CloseRoute, Reject, vars
<1>4. /\ route.asset = routes[name].asset /\ route.policy = routes[name].policy
      /\ route.fee_cell = routes[name].fee_cell
  BY <1>2, Zenon DEF RouteRecord
<1>5. /\ DOMAIN routes' = DOMAIN routes /\ routes'[name] = route
      /\ \A n \in DOMAIN routes : n # name => routes'[n] = routes[n]
  BY <1>1, <1>2, <1>3
<1> HIDE DEF route
<1>6. RoutesKept
  BY <1>4, <1>5, Zenon DEF RoutesKept
<1> QED
  BY <1>1, <1>4, <1>5, <1>6, Zenon DEF RouteStep

\* Routes change in these three calls only.
LEMMA RouteChanges ==
    ASSUME TypeOK, [Next]_vars
    PROVE  RouteStep
<1>1. CASE UNCHANGED routes
  BY <1>1, Zenon DEF RouteStep, RoutesKept
<1>2. CASE Setup
  BY <1>1, <1>2, AddRouteStep DEF Setup, AddPolicy, CreateCell, Reject
<1>3. CASE Movement
  BY <1>1, <1>3 DEF Movement, DepositGenesis, TransferBetweenCells, ConsolidateCell, Withdraw,
     Reject
<1>4. CASE ReceiptLife
  BY <1>1, <1>4 DEF ReceiptLife, IssueReceipt, SettleReceipt, CancelReceipt, Reject
<1>5. CASE RouteControl
  BY <1>1, <1>5, UpdateRouteFeeStep, CloseRouteStep DEF RouteControl
<1> QED
  BY <1>1, <1>2, <1>3, <1>4, <1>5 DEF Next, ClearError, vars

-----------------------------------------------------------------------------
(* Cells.                                                                  *)

\* No mutation of a cell changes who it is.
LEMMA MutationsKeepIdentity ==
    ASSUME NEW D, NEW cs \in [D -> CellRecord], NEW i \in D, NEW amount, NEW touched
    PROVE  /\ SameIdentity(cs, Debit(cs, i, amount))
           /\ SameIdentity(cs, Credit(cs, i, amount))
           /\ SameIdentity(cs, Reserve(cs, i, amount))
           /\ SameIdentity(cs, Release(cs, i, amount))
           /\ SameIdentity(cs, Stamp(cs, touched))
<1>1. SameIdentity(cs, Debit(cs, i, amount))
  BY DEF SameIdentity, Debit, CellRecord
<1>2. SameIdentity(cs, Credit(cs, i, amount))
  BY DEF SameIdentity, Credit, CellRecord
<1>3. SameIdentity(cs, Reserve(cs, i, amount))
  BY DEF SameIdentity, Reserve, CellRecord
<1>4. SameIdentity(cs, Release(cs, i, amount))
  BY DEF SameIdentity, Release, CellRecord
<1>5. SameIdentity(cs, Stamp(cs, touched))
  BY DEF SameIdentity, Stamp, CellRecord
<1> QED
  BY <1>1, <1>2, <1>3, <1>4, <1>5

(***************************************************************************)
(* What a step may do to the cells: add one on a route and policy that     *)
(* exist and agree, and commit reserves of cells on open routes only.      *)
(***************************************************************************)
NewCommitmentOpen(i) == IsRoute(cells[i].route) /\ ~routes[cells[i].route].closed

CommitsOnOpenRoutes(ds) ==
    \A i \in DOMAIN cells :
        cells[i].reserved_out = 0 /\ ds[i].reserved_out # 0 => NewCommitmentOpen(i)

NewCellRefers(i) ==
    /\ IsRoute(cells'[i].route) /\ IsPolicy(cells'[i].policy)
    /\ cells'[i].asset = routes[cells'[i].route].asset
    /\ cells'[i].policy = routes[cells'[i].route].policy
    /\ cells'[i].reserved_out = 0

CellStep ==
    /\ CellsKept
    /\ CommitsOnOpenRoutes(cells')
    /\ \A i \in DOMAIN cells' : i \in DOMAIN cells \/ NewCellRefers(i)

\* The calls that change existing cells change them and stamp them.
LEMMA StampedStep ==
    ASSUME TypeOK, NEW ds \in [DOMAIN cells -> CellRecord], NEW touched,
           cells' = Stamp(ds, touched), UNCHANGED cell_count,
           SameIdentity(cells, ds), CommitsOnOpenRoutes(ds)
    PROVE  CellStep
<1>1. DOMAIN cells' = DOMAIN cells /\ \A i \in DOMAIN cells : cells'[i] = Stamp(ds, touched)[i]
  BY DEF Stamp
<1>2. \A i \in DOMAIN cells :
         /\ cells'[i].owner = ds[i].owner /\ cells'[i].asset = ds[i].asset
         /\ cells'[i].route = ds[i].route /\ cells'[i].policy = ds[i].policy
         /\ cells'[i].reserved_out = ds[i].reserved_out
  <2>1. \A i \in DOMAIN cells : ds[i] \in CellRecord
    OBVIOUS
  <2> QED
    BY <1>1, <2>1 DEF Stamp, CellRecord
<1> QED
  BY <1>1, <1>2 DEF CellStep, CellsKept, SameIdentity, CommitsOnOpenRoutes

\* Payments and the stamp leave the commitments alone.
LEMMA PaymentsKeepCommitments ==
    ASSUME NEW D, NEW cs \in [D -> CellRecord], NEW i \in D, NEW amount
    PROVE  \A j \in D : /\ Debit(cs, i, amount)[j].reserved_out = cs[j].reserved_out
                        /\ Credit(cs, i, amount)[j].reserved_out = cs[j].reserved_out
<1>1. \A j \in D : cs[j] \in CellRecord
  OBVIOUS
<1> QED
  BY <1>1 DEF Debit, Credit, CellRecord

\* Releasing no more than is committed commits nothing.
LEMMA ReleaseCommitsNothing ==
    ASSUME NEW D, NEW cs \in [D -> CellRecord], NEW i \in D, NEW amount \in Amount, NEW j \in D,
           cs[i].reserved_out >= amount, cs[j].reserved_out = 0
    PROVE  Release(cs, i, amount)[j].reserved_out = 0
<1>1. cs[j] \in CellRecord /\ cs[j].reserved_out \in Amount
  BY DEF CellRecord
<1>2. CASE j # i
  BY <1>1, <1>2 DEF Release
<1>3. CASE j = i
  <2>1. amount = 0
    BY <1>3, AmountClosed
  <2>2. Release(cs, i, amount)[j].reserved_out = Minus(cs[j].reserved_out, amount)
    BY <1>1, <1>3 DEF Release, CellRecord
  <2> QED
    BY <2>1, <2>2, AmountAssumption DEF Minus
<1> QED
  BY <1>2, <1>3

\* A new cell agrees with its route and its policy (pdtl_create_cell).
LEMMA CreateCellStep ==
    ASSUME TypeOK, NEW owner, NEW asset, NEW route, NEW policy,
           CreateCell(owner, asset, route, policy), cells' # cells
    PROVE  CellStep
<1>1. /\ IsRoute(route) /\ IsPolicy(policy)
      /\ routes[route].asset = asset /\ routes[route].policy = policy
  BY DEF CreateCell, CreateCellError, Reject
<1>2. cells' = [i \in 0..cell_count |->
         IF i = cell_count THEN NewCell(owner, asset, route, policy) ELSE cells[i]]
  BY DEF CreateCell, Reject
<1>3. cell_count \in Nat /\ DOMAIN cells = 0..(cell_count - 1)
  BY Slots
<1>4. /\ DOMAIN cells' = 0..cell_count
      /\ cells'[cell_count] = NewCell(owner, asset, route, policy)
      /\ \A i \in DOMAIN cells : i \in 0..cell_count /\ cells'[i] = cells[i]
  BY <1>2, <1>3
<1>5. NewCellRefers(cell_count)
  BY <1>1, <1>4 DEF NewCellRefers, NewCell
<1>6. CellsKept /\ CommitsOnOpenRoutes(cells')
  BY <1>4 DEF CellsKept, SameIdentity, CommitsOnOpenRoutes
<1>7. \A i \in DOMAIN cells' : i \in DOMAIN cells \/ i = cell_count
  BY <1>3, <1>4
<1> QED
  BY <1>5, <1>6, <1>7 DEF CellStep

\* A deposit changes a balance (pdtl_deposit_genesis).
LEMMA DepositGenesisStep ==
    ASSUME TypeOK, NEW cell \in CellArgs, NEW amount \in CallAmounts,
           DepositGenesis(cell, amount), cells' # cells
    PROVE  CellStep
<1> DEFINE ds == [cells EXCEPT ![cell].reserve = Plus(@, amount)]
<1>1. cell \in DOMAIN cells /\ cells \in [DOMAIN cells -> CellRecord] /\ amount \in Amount
  BY Slots, LedgerAssumption DEF DepositGenesis, DepositGenesisError, Reject, TypeOK, CellsTyped
<1>2. cells' = Stamp(ds, {cell}) /\ UNCHANGED cell_count
  BY DEF DepositGenesis, Reject
<1>3. ds \in [DOMAIN cells -> CellRecord]
  BY <1>1, AmountClosed DEF CellRecord
<1>4. SameIdentity(cells, ds) /\ CommitsOnOpenRoutes(ds)
  BY <1>1 DEF SameIdentity, CommitsOnOpenRoutes, CellRecord
<1> HIDE DEF ds
<1> QED
  BY <1>2, <1>3, <1>4, StampedStep

\* A withdrawal changes a balance (pdtl_withdraw).
LEMMA WithdrawStep ==
    ASSUME TypeOK, NEW cell \in CellArgs, NEW amount \in CallAmounts,
           Withdraw(cell, amount), cells' # cells
    PROVE  CellStep
<1> DEFINE ds == [cells EXCEPT ![cell].reserve = Minus(@, amount),
                               ![cell].withdrawn = Plus(@, amount)]
<1>1. cell \in DOMAIN cells /\ cells \in [DOMAIN cells -> CellRecord] /\ amount \in Amount
  BY Slots, LedgerAssumption DEF Withdraw, WithdrawError, Reject, TypeOK, CellsTyped
<1>2. cells' = Stamp(ds, {cell}) /\ UNCHANGED cell_count
  BY DEF Withdraw, Reject
<1>3. ds \in [DOMAIN cells -> CellRecord]
  BY ZenonT(60), <1>1, AmountClosed DEF CellRecord
<1>4. SameIdentity(cells, ds) /\ CommitsOnOpenRoutes(ds)
  BY <1>1 DEF SameIdentity, CommitsOnOpenRoutes, CellRecord
<1> HIDE DEF ds
<1> QED
  BY <1>2, <1>3, <1>4, StampedStep

\* A transfer changes two balances (pdtl_transfer_between_cells).
LEMMA TransferStep ==
    ASSUME TypeOK, NEW from \in CellArgs, NEW to \in CellArgs, NEW amount \in CallAmounts,
           TransferBetweenCells(from, to, amount), cells' # cells
    PROVE  CellStep
<1> DEFINE paid == Debit(cells, from, amount)
           ds == Credit(paid, to, amount)
<1>1. /\ from \in DOMAIN cells /\ to \in DOMAIN cells /\ amount \in Amount
      /\ cells \in [DOMAIN cells -> CellRecord]
  BY Slots, LedgerAssumption DEF TransferBetweenCells, TransferError, Reject, TypeOK, CellsTyped
<1>2. cells' = Stamp(ds, {from, to}) /\ UNCHANGED cell_count
  BY DEF TransferBetweenCells, Reject
<1>3. paid \in [DOMAIN cells -> CellRecord] /\ SameIdentity(cells, paid)
  BY <1>1, CellMutations, MutationsKeepIdentity
<1>4. \A j \in DOMAIN cells : paid[j].reserved_out = cells[j].reserved_out
  BY <1>1, PaymentsKeepCommitments
<1> HIDE DEF paid
<1>5. ds \in [DOMAIN cells -> CellRecord] /\ SameIdentity(paid, ds)
  BY <1>1, <1>3, CellMutations, MutationsKeepIdentity
<1>6. \A j \in DOMAIN cells : ds[j].reserved_out = paid[j].reserved_out
  BY <1>1, <1>3, PaymentsKeepCommitments
<1> HIDE DEF ds
<1>7. SameIdentity(cells, ds) /\ CommitsOnOpenRoutes(ds)
  BY <1>3, <1>4, <1>5, <1>6 DEF SameIdentity, CommitsOnOpenRoutes
<1> QED
  BY <1>2, <1>5, <1>7, StampedStep

\* A consolidation changes two balances and a state (pdtl_consolidate_cell).
LEMMA ConsolidateStep ==
    ASSUME TypeOK, NEW target \in CellArgs, NEW source \in CellArgs,
           ConsolidateCell(target, source), cells' # cells
    PROVE  CellStep
<1> DEFINE moved == cells[source].reserve
           credited == Credit(cells, target, moved)
           ds == [credited EXCEPT ![source].reserve = 0, ![source].state = "closed"]
<1>1. /\ target \in DOMAIN cells /\ source \in DOMAIN cells
      /\ cells \in [DOMAIN cells -> CellRecord]
  BY Slots DEF ConsolidateCell, ConsolidateError, Reject, TypeOK, CellsTyped
<1>2. cells' = Stamp(ds, {source, target}) /\ UNCHANGED cell_count
  BY DEF ConsolidateCell, Reject
<1>3. moved \in Amount
  BY <1>1 DEF CellRecord
<1>4. credited \in [DOMAIN cells -> CellRecord] /\ SameIdentity(cells, credited)
  BY <1>1, <1>3, CellMutations, MutationsKeepIdentity
<1>5. \A j \in DOMAIN cells : credited[j].reserved_out = cells[j].reserved_out
  BY <1>1, PaymentsKeepCommitments
<1> HIDE DEF credited
<1>6. ds \in [DOMAIN cells -> CellRecord] /\ SameIdentity(credited, ds)
  <2>1. ds \in [DOMAIN cells -> CellRecord]
    BY ZenonT(60), <1>4, AmountClosed DEF CellRecord
  <2>2. SameIdentity(credited, ds)
    BY <1>4 DEF CellRecord, SameIdentity
  <2> QED
    BY <2>1, <2>2
<1>7. \A j \in DOMAIN cells : ds[j].reserved_out = credited[j].reserved_out
  BY <1>4 DEF CellRecord
<1> HIDE DEF ds
<1>8. SameIdentity(cells, ds) /\ CommitsOnOpenRoutes(ds)
  BY <1>4, <1>5, <1>6, <1>7 DEF SameIdentity, CommitsOnOpenRoutes
<1> QED
  BY <1>2, <1>6, <1>8, StampedStep

\* Issuing commits the reserve of a cell on an open route (pdtl_issue_receipt).
LEMMA IssueReceiptStep ==
    ASSUME TypeOK, NEW origin \in CellArgs, NEW beneficiary \in CellArgs,
           NEW gross \in CallAmounts, IssueReceipt(origin, beneficiary, gross), cells' # cells
    PROVE  CellStep
<1> DEFINE ds == Reserve(cells, origin, gross)
<1>1. /\ origin \in DOMAIN cells /\ gross \in Amount /\ NewCommitmentOpen(origin)
      /\ cells \in [DOMAIN cells -> CellRecord]
  BY Slots, LedgerAssumption DEF IssueReceipt, IssueError, Reject, TypeOK, CellsTyped,
     NewCommitmentOpen
<1>2. cells' = Stamp(ds, {origin}) /\ UNCHANGED cell_count
  BY DEF IssueReceipt, Reject
<1>3. ds \in [DOMAIN cells -> CellRecord] /\ SameIdentity(cells, ds)
  BY <1>1, CellMutations, MutationsKeepIdentity
<1>4. \A j \in DOMAIN cells : j # origin => ds[j] = cells[j]
  BY <1>1 DEF Reserve
<1> HIDE DEF ds
<1>5. CommitsOnOpenRoutes(ds)
  BY <1>1, <1>4 DEF CommitsOnOpenRoutes
<1> QED
  BY <1>2, <1>3, <1>5, StampedStep

\* Cancelling releases what the receipt committed (pdtl_cancel_receipt).
LEMMA CancelReceiptStep ==
    ASSUME TypeOK, NEW r \in ReceiptArgs, CancelReceipt(r), cells' # cells
    PROVE  CellStep
<1> DEFINE origin == receipts[r].origin_cell
           gross == receipts[r].gross
           ds == Release(cells, origin, gross)
<1>1. receipts[r] \in ReceiptRecord
  BY Slots DEF CancelReceipt, CancelError, Reject
<1>2. origin \in CellArgs /\ gross \in Amount
  BY <1>1 DEF ReceiptRecord, CellArgs
<1>3. /\ origin \in DOMAIN cells /\ cells[origin].reserved_out >= gross
      /\ cells \in [DOMAIN cells -> CellRecord]
  <2>1. IsCell(origin) /\ ~(cells[origin].reserved_out < gross)
    BY DEF CancelReceipt, CancelError, Reject
  <2>2. origin \in DOMAIN cells /\ cells[origin] \in CellRecord
    BY <1>2, <2>1, Slots
  <2>3. cells[origin].reserved_out \in Nat /\ gross \in Nat
    BY <1>2, <2>2, AmountClosed DEF CellRecord
  <2> QED
    BY <2>1, <2>2, <2>3 DEF TypeOK, CellsTyped
<1>4. cells' = Stamp(ds, {origin}) /\ UNCHANGED cell_count
  BY DEF CancelReceipt, Reject
<1>5. ds \in [DOMAIN cells -> CellRecord] /\ SameIdentity(cells, ds)
  BY <1>2, <1>3, CellMutations, MutationsKeepIdentity
<1>6. CommitsOnOpenRoutes(ds)
  BY <1>2, <1>3, ReleaseCommitsNothing DEF CommitsOnOpenRoutes
<1> HIDE DEF ds
<1> QED
  BY <1>4, <1>5, <1>6, StampedStep

\* Settling moves the gross and releases it (pdtl_apply_settlement).
LEMMA SettleReceiptStep ==
    ASSUME TypeOK, NEW r \in ReceiptArgs, NEW payer \in CellArgs, SettleReceipt(r, payer),
           cells' # cells
    PROVE  CellStep
<1> DEFINE receipt == receipts[r]
           origin == receipt.origin_cell
           fee_cell == routes[receipt.route].fee_cell
           paid == Debit(cells, payer, receipt.gross)
           credited == Credit(paid, receipt.beneficiary_cell, receipt.net)
           feePaid == IF fee_cell # NoIndex /\ receipt.fee > 0
                      THEN Credit(credited, fee_cell, receipt.fee) ELSE credited
           ds == Release(feePaid, origin, receipt.gross)
           touched == {payer, receipt.beneficiary_cell, origin, fee_cell}
<1>1. SettleError(r, payer) = "PDTL_OK" /\ cells' = Stamp(ds, touched) /\ UNCHANGED cell_count
  BY DEF SettleReceipt, SettledCells, Reject
<1>2. /\ receipt \in ReceiptRecord /\ payer \in DOMAIN cells
      /\ origin \in DOMAIN cells /\ receipt.beneficiary_cell \in DOMAIN cells
      /\ fee_cell \in DOMAIN cells \cup {NoIndex}
  BY <1>1, SettlementShape
<1>3. receipt.gross \in Amount /\ receipt.net \in Amount /\ receipt.fee \in Amount
  BY <1>2 DEF ReceiptRecord
<1>4. cells \in [DOMAIN cells -> CellRecord] /\ cells[origin].reserved_out >= receipt.gross
  <2>1. ~(cells[origin].reserved_out < receipt.gross)
    BY <1>1 DEF SettleError, ApplyError
  <2>2. cells \in [DOMAIN cells -> CellRecord]
    BY DEF TypeOK, CellsTyped
  <2>3. cells[origin].reserved_out \in Nat /\ receipt.gross \in Nat
    BY <1>2, <1>3, <2>2, AmountClosed DEF CellRecord
  <2> QED
    BY <2>1, <2>2, <2>3
<1>5. /\ paid \in [DOMAIN cells -> CellRecord] /\ SameIdentity(cells, paid)
      /\ \A j \in DOMAIN cells : paid[j].reserved_out = cells[j].reserved_out
  <2>1. paid \in [DOMAIN cells -> CellRecord]
    BY <1>2, <1>3, <1>4, CellMutations
  <2>2. SameIdentity(cells, paid)
    BY <1>2, <1>3, <1>4, MutationsKeepIdentity
  <2>3. \A j \in DOMAIN cells : paid[j].reserved_out = cells[j].reserved_out
    BY <1>2, <1>3, <1>4, PaymentsKeepCommitments
  <2> QED
    BY <2>1, <2>2, <2>3
<1> HIDE DEF paid
<1>6. /\ credited \in [DOMAIN cells -> CellRecord] /\ SameIdentity(paid, credited)
      /\ \A j \in DOMAIN cells : credited[j].reserved_out = paid[j].reserved_out
  <2>1. credited \in [DOMAIN cells -> CellRecord]
    BY <1>2, <1>3, <1>5, CellMutations
  <2>2. SameIdentity(paid, credited)
    BY <1>2, <1>3, <1>5, MutationsKeepIdentity
  <2>3. \A j \in DOMAIN cells : credited[j].reserved_out = paid[j].reserved_out
    BY <1>2, <1>3, <1>5, PaymentsKeepCommitments
  <2> QED
    BY <2>1, <2>2, <2>3
<1> HIDE DEF credited
<1>7. /\ feePaid \in [DOMAIN cells -> CellRecord] /\ SameIdentity(credited, feePaid)
      /\ \A j \in DOMAIN cells : feePaid[j].reserved_out = credited[j].reserved_out
  <2>1. CASE fee_cell # NoIndex /\ receipt.fee > 0
    <3>1. feePaid \in [DOMAIN cells -> CellRecord]
      BY <1>2, <1>3, <1>6, <2>1, CellMutations
    <3>2. SameIdentity(credited, feePaid)
      BY <1>2, <1>3, <1>6, <2>1, MutationsKeepIdentity
    <3>3. \A j \in DOMAIN cells : feePaid[j].reserved_out = credited[j].reserved_out
      BY <1>2, <1>3, <1>6, <2>1, PaymentsKeepCommitments
    <3> QED
      BY <3>1, <3>2, <3>3
  <2>2. CASE ~(fee_cell # NoIndex /\ receipt.fee > 0)
    BY <1>6, <2>2 DEF SameIdentity
  <2> QED
    BY <2>1, <2>2
<1> HIDE DEF feePaid
<1>8. ds \in [DOMAIN cells -> CellRecord] /\ SameIdentity(feePaid, ds)
  BY <1>2, <1>3, <1>7, CellMutations, MutationsKeepIdentity
<1>9. \A j \in DOMAIN cells : cells[j].reserved_out = 0 => ds[j].reserved_out = 0
  <2>1. \A j \in DOMAIN cells : feePaid[j].reserved_out = cells[j].reserved_out
    BY <1>5, <1>6, <1>7
  <2> QED
    BY <1>2, <1>3, <1>4, <1>7, <2>1, ReleaseCommitsNothing
<1> HIDE DEF ds, touched
<1>10. SameIdentity(cells, ds) /\ CommitsOnOpenRoutes(ds)
  BY <1>5, <1>6, <1>7, <1>8, <1>9 DEF SameIdentity, CommitsOnOpenRoutes
<1> QED
  BY <1>1, <1>8, <1>10, StampedStep

\* Every step keeps who the cells are.
LEMMA CellChanges ==
    ASSUME TypeOK, [Next]_vars
    PROVE  CellStep
<1>1. CASE UNCHANGED cells
  BY <1>1 DEF CellStep, CellsKept, SameIdentity, CommitsOnOpenRoutes
<1>2. CASE Setup
  BY ZenonT(60), <1>1, <1>2, CreateCellStep DEF Setup, AddPolicy, AddRoute, Reject
<1>3. CASE Movement
  BY <1>1, <1>3, DepositGenesisStep, TransferStep, ConsolidateStep, WithdrawStep DEF Movement
<1>4. CASE ReceiptLife
  BY <1>1, <1>4, IssueReceiptStep, SettleReceiptStep, CancelReceiptStep DEF ReceiptLife
<1>5. CASE RouteControl
  BY <1>1, <1>5 DEF RouteControl, UpdateRouteFee, CloseRoute, Reject, vars
<1> QED
  BY <1>1, <1>2, <1>3, <1>4, <1>5 DEF Next, ClearError, vars

-----------------------------------------------------------------------------
(* Receipts.                                                               *)

(***************************************************************************)
(* What a step may do to the receipts: issue one with the terms of its     *)
(* origin's route, and resolve pending ones.                               *)
(***************************************************************************)
IssuedNow(receipt) ==
    /\ IsCell(receipt.origin_cell) /\ IsCell(receipt.beneficiary_cell)
    /\ receipt.origin_cell \in DOMAIN cells
    /\ receipt.route = cells[receipt.origin_cell].route
    /\ receipt.policy = cells[receipt.origin_cell].policy
    /\ receipt.asset = cells[receipt.origin_cell].asset
    /\ receipt.fee + receipt.net = receipt.gross
    /\ receipt.paid_by_cell = NoIndex
    /\ IsRoute(receipt.route) /\ ~routes[receipt.route].closed
    /\ receipt.route_digest = routes[receipt.route]
    /\ receipt.fee = FeeOf(receipt.gross, routes[receipt.route].fee_bps)

PaidWithin(receipt) ==
    \/ receipt.paid_by_cell = NoIndex
    \/ /\ receipt.paid_by_cell \in DOMAIN cells
       /\ cells[receipt.paid_by_cell].route = receipt.route

Resolves(r) ==
    /\ receipts[r].status = "pending" /\ receipts'[r].status # "pending"
    /\ Terms(receipts'[r]) = Terms(receipts[r])
    /\ PaidWithin(receipts'[r])

ReceiptStep ==
    /\ \A r \in DOMAIN receipts : /\ r \in DOMAIN receipts'
                                  /\ receipts'[r] = receipts[r] \/ Resolves(r)
    /\ \A r \in DOMAIN receipts' :
          \/ r \in DOMAIN receipts
          \/ IssuedNow(receipts'[r]) /\ UNCHANGED routes

\* Fee and net make the gross: a fee is at most its gross (pdtl_issue_receipt).
LEMMA FeeAndNet ==
    ASSUME NEW gross \in Amount, NEW bps \in 0..BpsScale
    PROVE  FeeOf(gross, bps) + NetOf(gross, FeeOf(gross, bps)) = gross
<1> DEFINE fee == FeeOf(gross, bps)
<1>1. fee \in Nat /\ fee <= gross /\ gross \in Nat /\ gross < AmountModulus
  BY FeeWithinGross, AmountAssumption DEF Amount
<1>2. NetOf(gross, fee) = (gross - fee) % AmountModulus
  BY DEF NetOf, Minus
<1> HIDE DEF fee
<1>3. gross - fee \in Nat /\ gross - fee < AmountModulus
  BY <1>1, AmountAssumption
<1>4. (gross - fee) % AmountModulus = gross - fee
  BY <1>3, AmountAssumption
<1> QED
  BY <1>1, <1>2, <1>4 DEF fee

\* A new receipt has the terms of its origin's route (pdtl_issue_receipt).
LEMMA IssuedStep ==
    ASSUME TypeOK, NEW origin \in CellArgs, NEW beneficiary \in CellArgs,
           NEW gross \in CallAmounts, IssueReceipt(origin, beneficiary, gross),
           receipts' # receipts
    PROVE  ReceiptStep
<1> DEFINE receipt == NewReceipt(origin, beneficiary, gross)
           route == routes[cells[origin].route]
           fee == FeeOf(gross, route.fee_bps)
<1>1. IssueError(origin, beneficiary, gross) = "PDTL_OK" /\ UNCHANGED routes
  BY DEF IssueReceipt, Reject
<1>2. /\ IsCell(origin) /\ IsCell(beneficiary)
      /\ IsRoute(cells[origin].route) /\ ~route.closed
  BY <1>1 DEF IssueError
<1>3. origin \in DOMAIN cells /\ gross \in Amount /\ route.fee_bps \in 0..BpsScale
  <2>1. route \in RouteRecord
    BY <1>2 DEF TypeOK, RoutesTyped, IsRoute
  <2> QED
    BY <1>2, <2>1, Slots, LedgerAssumption DEF RouteRecord
<1>4. receipt = [origin_cell |-> origin, beneficiary_cell |-> beneficiary,
                 paid_by_cell |-> NoIndex, asset |-> cells[origin].asset,
                 route |-> cells[origin].route, policy |-> cells[origin].policy,
                 gross |-> gross, fee |-> fee, net |-> NetOf(gross, fee),
                 route_digest |-> route, status |-> "pending"]
  BY DEF NewReceipt
<1>5. fee + NetOf(gross, fee) = gross
  BY <1>3, FeeAndNet
<1>6. receipts' = [r \in 0..receipt_count |->
                     IF r = receipt_count THEN receipt ELSE receipts[r]]
  BY DEF IssueReceipt, Reject
<1> HIDE DEF receipt, fee
<1>7. /\ receipt.origin_cell = origin /\ receipt.beneficiary_cell = beneficiary
      /\ receipt.paid_by_cell = NoIndex /\ receipt.asset = cells[origin].asset
      /\ receipt.route = cells[origin].route /\ receipt.policy = cells[origin].policy
      /\ receipt.gross = gross /\ receipt.fee = fee /\ receipt.net = NetOf(gross, fee)
      /\ receipt.route_digest = route
  BY <1>4, Zenon
<1>8. IssuedNow(receipt)
  BY <1>2, <1>3, <1>5, <1>7, Zenon DEF IssuedNow, fee
<1>9. receipt_count \in Nat /\ DOMAIN receipts = 0..(receipt_count - 1)
  BY Slots
<1>10. /\ DOMAIN receipts' = 0..receipt_count /\ receipts'[receipt_count] = receipt
       /\ \A r \in DOMAIN receipts : r \in 0..receipt_count /\ receipts'[r] = receipts[r]
       /\ \A r \in 0..receipt_count : r \in DOMAIN receipts \/ r = receipt_count
  BY <1>6, <1>9
<1> QED
  BY <1>1, <1>8, <1>10, Zenon DEF ReceiptStep

\* Changing payer and status of a pending receipt resolves it.
LEMMA ResolvedStep ==
    ASSUME TypeOK, NEW r \in DOMAIN receipts, receipts[r].status = "pending",
           NEW payer, NEW status \in {"settled", "cancelled"},
           receipts' = [receipts EXCEPT ![r].paid_by_cell = payer, ![r].status = status],
           payer = NoIndex \/ (payer \in DOMAIN cells /\ cells[payer].route = receipts[r].route)
    PROVE  ReceiptStep
<1> DEFINE resolved == [receipts[r] EXCEPT !.paid_by_cell = payer, !.status = status]
<1>1. receipts[r] \in ReceiptRecord /\ DOMAIN receipts' = DOMAIN receipts
  BY DEF TypeOK, ReceiptsTyped
<1>2. /\ resolved.paid_by_cell = payer /\ resolved.status # "pending"
      /\ resolved.route = receipts[r].route
  BY <1>1 DEF ReceiptRecord
<1>3. Terms(resolved) = Terms(receipts[r])
  BY <1>1 DEF Terms, ReceiptRecord
<1>4. receipts'[r] = resolved /\ \A q \in DOMAIN receipts : q # r => receipts'[q] = receipts[q]
  BY <1>1
<1> HIDE DEF resolved
<1>5. Resolves(r)
  BY <1>2, <1>3, <1>4 DEF Resolves, PaidWithin
<1> QED
  BY <1>1, <1>4, <1>5 DEF ReceiptStep

\* A settlement resolves a pending receipt, paid on its own route (pdtl_settle_receipt).
LEMMA SettledStep ==
    ASSUME TypeOK, NEW r \in ReceiptArgs, NEW payer \in CellArgs, SettleReceipt(r, payer),
           receipts' # receipts
    PROVE  ReceiptStep
<1>1. SettleError(r, payer) = "PDTL_OK"
  BY DEF SettleReceipt, Reject
<1>2. receipts' = [receipts EXCEPT ![r].paid_by_cell = payer, ![r].status = "settled"]
  BY DEF SettleReceipt, Reject
<1>3. r \in DOMAIN receipts /\ payer \in DOMAIN cells
  BY <1>1, SettlementShape
<1>4. receipts[r].status = "pending" /\ cells[payer].route = receipts[r].route
  BY <1>1 DEF SettleError, ShapeError, Compatible
<1> QED
  BY <1>2, <1>3, <1>4, ResolvedStep

\* A cancellation resolves a pending receipt, paid by nobody (pdtl_cancel_receipt).
LEMMA CancelledStep ==
    ASSUME TypeOK, NEW r \in ReceiptArgs, CancelReceipt(r), receipts' # receipts
    PROVE  ReceiptStep
<1>1. IsReceipt(r) /\ receipts[r].status = "pending"
  BY DEF CancelReceipt, CancelError, Reject
<1>2. receipts' = [receipts EXCEPT ![r].paid_by_cell = NoIndex, ![r].status = "cancelled"]
  BY DEF CancelReceipt, Reject
<1>3. r \in DOMAIN receipts
  BY <1>1, Slots
<1> QED
  BY <1>1, <1>2, <1>3, ResolvedStep

\* Receipts change in these three calls only.
LEMMA ReceiptChanges ==
    ASSUME TypeOK, [Next]_vars
    PROVE  ReceiptStep
<1>1. CASE UNCHANGED receipts
  BY <1>1 DEF ReceiptStep
<1>2. CASE Setup
  BY ZenonT(60), <1>1, <1>2 DEF Setup, AddPolicy, AddRoute, CreateCell, Reject
<1>3. CASE Movement
  BY <1>1, <1>3 DEF Movement, DepositGenesis, TransferBetweenCells, ConsolidateCell, Withdraw,
     Reject
<1>4. CASE ReceiptLife
  BY <1>1, <1>4, IssuedStep, SettledStep, CancelledStep DEF ReceiptLife
<1>5. CASE RouteControl
  BY <1>1, <1>5 DEF RouteControl, UpdateRouteFee, CloseRoute, Reject, vars
<1> QED
  BY <1>1, <1>2, <1>3, <1>4, <1>5 DEF Next, ClearError, vars

-----------------------------------------------------------------------------
(***************************************************************************)
(* The inductive invariant.  ReceiptsResolveOnce speaks of the payers of   *)
(* receipts that were resolved before, hence PayersWithin.                 *)
(***************************************************************************)
PayersWithin == \A r \in DOMAIN receipts : PaidWithin(receipts[r])

ReferenceInv ==
    TypeOK /\ ReferencesOK /\ PendingTermsCurrent /\ ClosedRouteQuiet /\ PayersWithin

\* The empty ledger refers to nothing.
LEMMA InitReferences == Init => ReferenceInv
<1> SUFFICES ASSUME Init PROVE ReferenceInv
  OBVIOUS
<1>1. DOMAIN routes = {} /\ DOMAIN cells = {} /\ DOMAIN receipts = {}
  BY DEF Init
<1>2. TypeOK
  BY InitType
<1> QED
  BY <1>1, <1>2 DEF ReferenceInv, ReferencesOK, RoutesRefer, CellsRefer, ReceiptsRefer,
     PendingTermsCurrent, ClosedRouteQuiet, PayersWithin

\* What exists goes on existing.
LEMMA NothingVanishes ==
    ASSUME TypeOK, [Next]_vars
    PROVE  /\ \A n : IsPolicy(n) => n \in DOMAIN policies'
           /\ \A n : IsRoute(n) => n \in DOMAIN routes'
           /\ \A i \in Nat : IsCell(i) => i \in DOMAIN cells /\ i \in DOMAIN cells' /\ i < cell_count'
<1>1. \A n : IsPolicy(n) => n \in DOMAIN policies'
  BY PolicyChanges DEF PoliciesKept, IsPolicy
<1>2. \A n : IsRoute(n) => n \in DOMAIN routes'
  BY RouteChanges DEF RouteStep, RoutesKept, IsRoute
<1>3. ASSUME NEW i \in Nat, IsCell(i)
      PROVE  i \in DOMAIN cells /\ i \in DOMAIN cells' /\ i < cell_count'
  <2>1. cell_count \in Nat /\ DOMAIN cells = 0..(cell_count - 1)
    BY Slots
  <2>2. cell_count' \in Nat /\ DOMAIN cells' = 0..(cell_count' - 1)
    <3>1. TypeOK'
      BY NextType
    <3> QED
      BY <3>1 DEF TypeOK, CellsTyped
  <2>3. i \in DOMAIN cells
    BY <1>3, <2>1 DEF IsCell
  <2>4. i \in DOMAIN cells'
    BY <2>3, CellChanges DEF CellStep, CellsKept
  <2>5. i < cell_count'
    <3>1. i \in 0..(cell_count' - 1)
      BY <2>2, <2>4, Zenon
    <3>2. \A n \in Nat : i \in 0..(n - 1) => i < n
      OBVIOUS
    <3> QED
      BY <2>2, <3>1, <3>2
  <2> QED
    BY <2>3, <2>4, <2>5
<1> QED
  BY <1>1, <1>2, <1>3

\* The fields that make the terms of a receipt.
LEMMA TermsAreFields ==
    ASSUME NEW a \in ReceiptRecord, NEW b \in ReceiptRecord, Terms(a) = Terms(b)
    PROVE  /\ a.origin_cell = b.origin_cell /\ a.beneficiary_cell = b.beneficiary_cell
           /\ a.asset = b.asset /\ a.route = b.route /\ a.policy = b.policy
           /\ a.gross = b.gross /\ a.fee = b.fee /\ a.net = b.net
           /\ a.route_digest = b.route_digest
<1>1. /\ Terms(a).origin_cell = a.origin_cell /\ Terms(a).beneficiary_cell = a.beneficiary_cell
      /\ Terms(a).asset = a.asset /\ Terms(a).route = a.route /\ Terms(a).policy = a.policy
      /\ Terms(a).gross = a.gross /\ Terms(a).fee = a.fee /\ Terms(a).net = a.net
      /\ Terms(a).route_digest = a.route_digest
  BY DEF Terms, ReceiptRecord
<1>2. /\ Terms(b).origin_cell = b.origin_cell /\ Terms(b).beneficiary_cell = b.beneficiary_cell
      /\ Terms(b).asset = b.asset /\ Terms(b).route = b.route /\ Terms(b).policy = b.policy
      /\ Terms(b).gross = b.gross /\ Terms(b).fee = b.fee /\ Terms(b).net = b.net
      /\ Terms(b).route_digest = b.route_digest
  BY DEF Terms, ReceiptRecord
<1> QED
  BY <1>1, <1>2, Zenon

\* A receipt after a step: the same, resolved now, or issued now.
LEMMA ReceiptAfter ==
    ASSUME TypeOK, [Next]_vars, NEW r \in DOMAIN receipts'
    PROVE  /\ receipts'[r] \in ReceiptRecord
           /\ \/ /\ r \in DOMAIN receipts
                 /\ receipts'[r] = receipts[r] \/ Resolves(r)
                 /\ receipts[r] \in ReceiptRecord
                 /\ Terms(receipts'[r]) = Terms(receipts[r])
              \/ IssuedNow(receipts'[r]) /\ UNCHANGED routes
<1>1. receipts'[r] \in ReceiptRecord
  <2>1. TypeOK'
    BY NextType
  <2> QED
    BY <2>1 DEF TypeOK, ReceiptsTyped
<1>2. CASE r \in DOMAIN receipts
  <2>1. receipts[r] \in ReceiptRecord
    BY <1>2 DEF TypeOK, ReceiptsTyped
  <2>2. receipts'[r] = receipts[r] \/ Resolves(r)
    BY <1>2, ReceiptChanges DEF ReceiptStep
  <2> QED
    BY <1>1, <1>2, <2>1, <2>2 DEF Resolves
<1>3. CASE r \notin DOMAIN receipts
  BY <1>1, <1>3, ReceiptChanges DEF ReceiptStep
<1> QED
  BY <1>2, <1>3

\* Routes go on referring to policies and cells that exist.
LEMMA RoutesReferStep ==
    ASSUME TypeOK, RoutesRefer, [Next]_vars
    PROVE  RoutesRefer'
<1> SUFFICES ASSUME NEW n \in DOMAIN routes'
             PROVE  /\ routes'[n].policy \in DOMAIN policies'
                    /\ routes'[n].fee_cell = NoIndex \/ routes'[n].fee_cell < cell_count'
  BY DEF RoutesRefer, IsPolicy, IsCell
<1>1. routes'[n].fee_cell \in Nat
  <2>1. TypeOK'
    BY NextType
  <2>2. routes'[n] \in RouteRecord
    BY <2>1 DEF TypeOK, RoutesTyped
  <2> QED
    BY <2>2, LedgerAssumption DEF RouteRecord, CellSlots
<1>2. NewFeeCell(n) => routes'[n].fee_cell = NoIndex \/ routes'[n].fee_cell < cell_count'
  BY <1>1, NothingVanishes DEF NewFeeCell
<1>3. CASE n \notin DOMAIN routes
  <2>1. NewRoute(n)
    BY <1>3, RouteChanges DEF RouteStep
  <2> QED
    BY <1>2, <2>1, NothingVanishes DEF NewRoute
<1>4. CASE n \in DOMAIN routes
  <2>1. IsPolicy(routes[n].policy) /\ (routes[n].fee_cell = NoIndex \/ IsCell(routes[n].fee_cell))
    BY <1>4 DEF RoutesRefer
  <2>2. routes'[n].policy = routes[n].policy
    BY <1>4, RouteChanges DEF RouteStep, RoutesKept
  <2>3. routes'[n].fee_cell = routes[n].fee_cell \/ NewFeeCell(n)
    BY <1>4, RouteChanges DEF RouteStep
  <2> QED
    BY <1>1, <1>2, <2>1, <2>2, <2>3, NothingVanishes
<1> QED
  BY <1>3, <1>4

\* Cells go on agreeing with routes and policies that exist.
LEMMA CellsReferStep ==
    ASSUME TypeOK, CellsRefer, [Next]_vars
    PROVE  CellsRefer'
<1> SUFFICES ASSUME NEW i \in DOMAIN cells'
             PROVE  /\ cells'[i].policy \in DOMAIN policies' /\ cells'[i].route \in DOMAIN routes'
                    /\ cells'[i].asset = routes'[cells'[i].route].asset
                    /\ cells'[i].policy = routes'[cells'[i].route].policy
  BY DEF CellsRefer, IsPolicy, IsRoute
<1>1. /\ IsPolicy(cells'[i].policy) /\ IsRoute(cells'[i].route)
      /\ cells'[i].asset = routes[cells'[i].route].asset
      /\ cells'[i].policy = routes[cells'[i].route].policy
  <2>1. CASE i \in DOMAIN cells
    BY <2>1, CellChanges DEF CellStep, CellsKept, SameIdentity, CellsRefer
  <2>2. CASE i \notin DOMAIN cells
    BY <2>2, CellChanges DEF CellStep, NewCellRefers
  <2> QED
    BY <2>1, <2>2
<1> QED
  BY <1>1, PolicyChanges, RouteChanges DEF PoliciesKept, RouteStep, RoutesKept, IsPolicy, IsRoute

\* Receipts go on agreeing with cells that exist.
LEMMA ReceiptsReferStep ==
    ASSUME TypeOK, ReceiptsRefer, [Next]_vars
    PROVE  ReceiptsRefer'
<1> SUFFICES ASSUME NEW r \in DOMAIN receipts'
             PROVE  /\ receipts'[r].origin_cell < cell_count'
                    /\ receipts'[r].beneficiary_cell < cell_count'
                    /\ receipts'[r].route = cells'[receipts'[r].origin_cell].route
                    /\ receipts'[r].policy = cells'[receipts'[r].origin_cell].policy
                    /\ receipts'[r].asset = cells'[receipts'[r].origin_cell].asset
                    /\ receipts'[r].fee + receipts'[r].net = receipts'[r].gross
  BY DEF ReceiptsRefer, IsCell
<1> DEFINE receipt == receipts'[r]
<1>1. receipt \in ReceiptRecord /\ receipt.origin_cell \in Nat /\ receipt.beneficiary_cell \in Nat
  BY ReceiptAfter DEF ReceiptRecord, CellSlots
<1>2. /\ IsCell(receipt.origin_cell) /\ IsCell(receipt.beneficiary_cell)
      /\ receipt.route = cells[receipt.origin_cell].route
      /\ receipt.policy = cells[receipt.origin_cell].policy
      /\ receipt.asset = cells[receipt.origin_cell].asset
      /\ receipt.fee + receipt.net = receipt.gross
  <2>1. CASE IssuedNow(receipt)
    BY <2>1 DEF IssuedNow
  <2>2. CASE ~IssuedNow(receipt)
    <3>1. /\ r \in DOMAIN receipts /\ receipts[r] \in ReceiptRecord
          /\ Terms(receipt) = Terms(receipts[r])
      BY <2>2, ReceiptAfter
    <3> QED
      BY <1>1, <3>1, TermsAreFields DEF ReceiptsRefer
  <2> QED
    BY <2>1, <2>2
<1> HIDE DEF receipt
<1>3. /\ receipt.origin_cell \in DOMAIN cells
      /\ receipt.origin_cell < cell_count' /\ receipt.beneficiary_cell < cell_count'
  BY <1>1, <1>2, NothingVanishes
<1>4. /\ cells'[receipt.origin_cell].route = cells[receipt.origin_cell].route
      /\ cells'[receipt.origin_cell].policy = cells[receipt.origin_cell].policy
      /\ cells'[receipt.origin_cell].asset = cells[receipt.origin_cell].asset
  BY <1>3, CellChanges DEF CellStep, CellsKept, SameIdentity
<1> QED
  BY <1>2, <1>3, <1>4 DEF receipt

\* A pending receipt was issued by this step or pending before, on the same terms.
LEMMA PendingAfter ==
    ASSUME TypeOK, [Next]_vars, NEW r \in DOMAIN receipts', receipts'[r].status = "pending"
    PROVE  \/ r \in DOMAIN receipts /\ receipts'[r] = receipts[r]
           \/ IssuedNow(receipts'[r]) /\ UNCHANGED routes
BY ReceiptAfter DEF Resolves

\* Pending receipts keep current terms: their route is left alone.
LEMMA PendingTermsStep ==
    ASSUME TypeOK, PendingTermsCurrent, [Next]_vars
    PROVE  PendingTermsCurrent'
<1> SUFFICES ASSUME NEW r \in DOMAIN receipts', receipts'[r].status = "pending"
             PROVE  /\ receipts'[r].route \in DOMAIN routes'
                    /\ receipts'[r].route_digest = routes'[receipts'[r].route]
                    /\ receipts'[r].fee =
                          FeeOf(receipts'[r].gross, routes'[receipts'[r].route].fee_bps)
  BY DEF PendingTermsCurrent, IsRoute, FeeOf
<1>1. CASE IssuedNow(receipts'[r]) /\ UNCHANGED routes
  BY <1>1 DEF IssuedNow, IsRoute
<1>2. CASE r \in DOMAIN receipts /\ receipts'[r] = receipts[r]
  <2> DEFINE name == receipts[r].route
  <2>1. /\ name \in DOMAIN routes /\ receipts[r].route_digest = routes[name]
        /\ receipts[r].fee = FeeOf(receipts[r].gross, routes[name].fee_bps)
    BY <1>2 DEF PendingTermsCurrent, IsRoute
  <2>2. RouteHasPendingReceipts(name)
    BY <1>2 DEF RouteHasPendingReceipts
  <2>3. name \in DOMAIN routes' /\ routes'[name] = routes[name]
    BY <2>1, <2>2, RouteChanges DEF RouteStep, RoutesKept, QuietNow
  <2> QED
    BY <1>2, <2>1, <2>3
<1> QED
  BY <1>1, <1>2, PendingAfter

\* A closed route stays quiet.
LEMMA ClosedRouteStep ==
    ASSUME TypeOK, ClosedRouteQuiet, [Next]_vars
    PROVE  ClosedRouteQuiet'
<1> SUFFICES ASSUME NEW n \in DOMAIN routes', routes'[n].closed
             PROVE  /\ \A r \in DOMAIN receipts' :
                          ~(receipts'[r].status = "pending" /\ receipts'[r].route = n)
                    /\ \A c \in DOMAIN cells' :
                          cells'[c].route = n => cells'[c].reserved_out = 0
  BY DEF ClosedRouteQuiet, RouteHasPendingReceipts
<1>1. n \in DOMAIN routes
  BY RouteChanges DEF RouteStep, NewRoute
<1>2. CASE routes[n].closed
  <2>1. ~RouteHasPendingReceipts(n) /\ Uncommitted(n)
    BY <1>1, <1>2 DEF ClosedRouteQuiet, Uncommitted
  <2>2. ASSUME NEW r \in DOMAIN receipts', receipts'[r].status = "pending",
               receipts'[r].route = n
        PROVE  FALSE
    BY <1>2, <2>1, <2>2, PendingAfter DEF RouteHasPendingReceipts, IssuedNow
  <2>3. ASSUME NEW c \in DOMAIN cells', cells'[c].route = n
        PROVE  cells'[c].reserved_out = 0
    <3>1. CASE c \notin DOMAIN cells
      BY <3>1, CellChanges DEF CellStep, NewCellRefers
    <3>2. CASE c \in DOMAIN cells
      <4>1. cells[c].route = n /\ cells[c].reserved_out = 0
        BY <2>1, <2>3, <3>2, CellChanges DEF CellStep, CellsKept, SameIdentity, Uncommitted
      <4> QED
        BY <1>2, <3>2, <4>1, CellChanges DEF CellStep, CommitsOnOpenRoutes, NewCommitmentOpen
    <3> QED
      BY <3>1, <3>2
  <2> QED
    BY <2>2, <2>3
<1>3. CASE ~routes[n].closed
  <2>1. routes'[n] # routes[n]
    BY <1>3, Zenon
  <2>2. QuietNow(n) /\ Uncommitted(n)
    BY <1>1, <1>3, <2>1, RouteChanges, Zenon DEF RouteStep
  <2> QED
    BY <2>2 DEF QuietNow, Uncommitted, RouteHasPendingReceipts
<1> QED
  BY <1>2, <1>3

\* Payers stay cells of the receipt's route.
LEMMA PayersStep ==
    ASSUME TypeOK, PayersWithin, [Next]_vars
    PROVE  PayersWithin'
<1> SUFFICES ASSUME NEW r \in DOMAIN receipts'
             PROVE  \/ receipts'[r].paid_by_cell = NoIndex
                    \/ /\ receipts'[r].paid_by_cell \in DOMAIN cells'
                       /\ cells'[receipts'[r].paid_by_cell].route = receipts'[r].route
  BY DEF PayersWithin, PaidWithin
<1>1. PaidWithin(receipts'[r])
  BY ReceiptAfter DEF PayersWithin, Resolves, IssuedNow, PaidWithin
<1> QED
  BY <1>1, CellChanges DEF PaidWithin, CellStep, CellsKept, SameIdentity

\* Every call keeps the references.
LEMMA NextReferences ==
    ASSUME ReferenceInv, [Next]_vars
    PROVE  ReferenceInv'
<1>1. TypeOK'
  BY NextType DEF ReferenceInv
<1>2. ReferencesOK'
  BY RoutesReferStep, CellsReferStep, ReceiptsReferStep DEF ReferenceInv, ReferencesOK
<1>3. PendingTermsCurrent' /\ ClosedRouteQuiet' /\ PayersWithin'
  BY PendingTermsStep, ClosedRouteStep, PayersStep DEF ReferenceInv
<1> QED
  BY <1>1, <1>2, <1>3 DEF ReferenceInv

\* The reference invariant holds of every ledger any callers can make.
THEOREM ReferencesHold == Spec => []ReferenceInv
<1>1. ReferenceInv /\ [Next]_vars => ReferenceInv'
  BY NextReferences
<1> QED
  BY <1>1, InitReferences, PTL DEF Spec

(***************************************************************************)
(* pdtl_get_cell, pdtl_find_policy and pdtl_find_route never fail on an    *)
(* index or a name read from the ledger, and copies agree.                 *)
(***************************************************************************)
THEOREM ReferencesCorrect == Spec => []ReferencesOK
<1>1. ReferenceInv => ReferencesOK
  BY DEF ReferenceInv
<1> QED
  BY <1>1, ReferencesHold, PTL

\* The terms a receipt is settled on are those its route has at that time.
THEOREM TermsCorrect == Spec => []PendingTermsCurrent
<1>1. ReferenceInv => PendingTermsCurrent
  BY DEF ReferenceInv
<1> QED
  BY <1>1, ReferencesHold, PTL

\* Once a route is closed nothing pends or is committed on it.
THEOREM ClosingCorrect == Spec => []ClosedRouteQuiet
<1>1. ReferenceInv => ClosedRouteQuiet
  BY DEF ReferenceInv
<1> QED
  BY <1>1, ReferencesHold, PTL

(***************************************************************************)
(* A receipt keeps its terms, is settled or cancelled at most once, and is *)
(* paid by a cell of its own route.                                        *)
(***************************************************************************)
THEOREM ResolutionCorrect == Spec => ReceiptsResolveOnce
<1> DEFINE Once == \A r \in DOMAIN receipts :
                     /\ Terms(receipts'[r]) = Terms(receipts[r])
                     /\ receipts[r].status # "pending" => receipts'[r] = receipts[r]
                     /\ receipts'[r].paid_by_cell # NoIndex =>
                           cells[receipts'[r].paid_by_cell].route = receipts[r].route
<1>1. ReferenceInv /\ [Next]_vars => [Once]_vars
  <2> SUFFICES ASSUME ReferenceInv, [Next]_vars, NEW r \in DOMAIN receipts
               PROVE  /\ Terms(receipts'[r]) = Terms(receipts[r])
                      /\ receipts[r].status # "pending" => receipts'[r] = receipts[r]
                      /\ receipts'[r].paid_by_cell # NoIndex =>
                            cells[receipts'[r].paid_by_cell].route = receipts[r].route
    OBVIOUS
  <2>1. TypeOK /\ PaidWithin(receipts[r]) /\ r \in DOMAIN receipts'
    BY ReceiptChanges DEF ReferenceInv, PayersWithin, ReceiptStep
  <2>2. receipts'[r] = receipts[r] \/ Resolves(r)
    BY <2>1, ReceiptChanges DEF ReceiptStep
  <2>3. CASE receipts'[r] = receipts[r]
    BY <2>1, <2>3 DEF PaidWithin
  <2>4. CASE Resolves(r)
    <3>1. receipts[r] \in ReceiptRecord /\ receipts'[r] \in ReceiptRecord
      BY <2>1, ReceiptAfter DEF TypeOK, ReceiptsTyped
    <3>2. receipts'[r].route = receipts[r].route
      BY <2>4, <3>1, TermsAreFields DEF Resolves
    <3> QED
      BY <2>4, <3>2 DEF Resolves, PaidWithin
  <2> QED
    BY <2>2, <2>3, <2>4
<1>2. Spec => [][Once]_vars
  BY <1>1, ReferencesHold, PTL DEF Spec
<1> QED
  BY <1>2 DEF ReceiptsResolveOnce

-----------------------------------------------------------------------------
(***************************************************************************)
(* The journal: what it says of cells and receipts.  Each call that        *)
(* changes a cell or a receipt ends with up to three appends; as long as   *)
(* the journal has room for them all, they tell what the call did.         *)
(***************************************************************************)

\* After the appends: as long as there is room, all the entries are there.
Written(entries) ==
    /\ Len(entries) \in 1..3 /\ DOMAIN entries = 1..Len(entries)
    /\ JournalHasRoom' =>
          /\ JournalHasRoom
          /\ Len(journal') = Len(journal) + Len(entries)
          /\ \A k \in 1..Len(journal) : journal'[k] = journal[k]
          /\ \A k \in DOMAIN entries : journal'[Len(journal) + k] = entries[k]

LEMMA AppendWrites ==
    ASSUME TypeOK, NEW S, NEW entries \in Seq(S), Len(entries) \in 1..3,
           AppendJournal(entries)
    PROVE  Written(entries)
<1> DEFINE room == MaxJournal - Len(journal)
           taken == IF Len(entries) <= room THEN Len(entries) ELSE room
           part == SubSeq(entries, 1, taken)
           T == EntryRecord \cup S
<1>1. /\ journal \in Seq(T) /\ entries \in Seq(T) /\ Len(entries) \in 1..3
      /\ Len(journal) \in Nat /\ Len(journal) <= MaxJournal /\ MaxJournal \in Nat
      /\ DOMAIN entries = 1..Len(entries)
  BY LedgerAssumption DEF TypeOK, JournalTyped
<1>2. /\ taken \in Nat /\ Len(entries) \in Nat /\ taken <= Len(entries)
      /\ taken < room => taken = Len(entries)
  BY <1>1
<1>3. journal' = journal \o part
  BY DEF AppendJournal
<1>4. Len(journal) + taken < MaxJournal => taken < room /\ Len(journal) < MaxJournal
  BY <1>1, <1>2
<1> HIDE DEF T, taken, room
<1>5. /\ part \in Seq(T) /\ Len(part) = taken
      /\ \A i \in 1..taken : part[i] = entries[i]
  <2>1. \A i \in 1..taken : entries[i] \in T
    <3>1. \A i \in 1..taken : i \in 1..Len(entries)
      BY <1>2
    <3> QED
      BY <1>1, <3>1, ElementOfSeq
  <2>2. /\ part \in Seq(T)
        /\ Len(part) = IF 1 <= taken THEN taken - 1 + 1 ELSE 0
        /\ \A i \in 1..(taken - 1 + 1) : part[i] = entries[1 + i - 1]
    BY <1>2, <2>1, SubSeqProperties
  <2> HIDE DEF part
  <2>3. Len(part) = taken /\ 1..(taken - 1 + 1) = 1..taken
    BY <1>2, <2>2
  <2>4. \A i \in 1..taken : 1 + i - 1 = i
    OBVIOUS
  <2> QED
    BY <2>2, <2>3, <2>4
<1> HIDE DEF part
<1>6. /\ Len(journal') = Len(journal) + taken
      /\ \A k \in 1..Len(journal) : journal'[k] = journal[k]
      /\ \A k \in 1..taken : journal'[Len(journal) + k] = part[k]
  <2> DEFINE n == Len(journal)
  <2>1. /\ Len(journal') = n + taken
        /\ \A i \in 1..(n + taken) :
              journal'[i] = IF i <= n THEN journal[i] ELSE part[i - n]
    BY <1>1, <1>3, <1>5, ConcatProperties
  <2>2. n \in Nat /\ taken \in Nat
    BY <1>1, <1>2
  <2> HIDE DEF n
  <2>3. \A k \in 1..n : k \in 1..(n + taken) /\ k <= n
    BY <2>2
  <2>4. \A k \in 1..taken : /\ n + k \in 1..(n + taken) /\ ~(n + k <= n)
                            /\ (n + k) - n = k
    BY <2>2
  <2> QED
    BY <2>1, <2>3, <2>4 DEF n
<1>7. JournalHasRoom' => JournalHasRoom /\ taken = Len(entries)
  BY <1>2, <1>4, <1>6 DEF JournalHasRoom
<1> QED
  BY <1>1, <1>5, <1>6, <1>7 DEF Written

\* The entries of a journal about the reserve of a cell, and those of a kind about a receipt.
AboutCell(entries, c) ==
    {k \in DOMAIN entries : entries[k].kind \in ReserveKinds /\ entries[k].cell = c}

AboutReceipt(entries, r, kind) ==
    {k \in DOMAIN entries : entries[k].receipt = r /\ entries[k].kind = kind}

\* What a call did to the cells, its entries tell, and its stamp marks.
CellsRecorded(entries) ==
    /\ DOMAIN cells \subseteq DOMAIN cells'
    /\ \A c \in DOMAIN cells :
          /\ cells'[c] = cells[c] \/ cells'[c].sequence = NextSequence
          /\ cells'[c].reserve = cells[c].reserve \/ AboutCell(entries, c) # {}
    /\ \A c \in DOMAIN cells' \ DOMAIN cells :
          cells'[c].reserve = 0 /\ cells'[c].sequence = NextSequence
    /\ \A k \in DOMAIN entries :
          entries[k].kind \in ReserveKinds =>
             /\ entries[k].cell \in DOMAIN cells
             /\ entries[k].after_balance = cells'[entries[k].cell].reserve

\* What a call did to the receipts, its entries tell.
StatusTold(entries, r, status, kind) ==
    receipts'[r].status = status <=>
        \/ r \in DOMAIN receipts /\ receipts[r].status = status
        \/ AboutReceipt(entries, r, kind) # {}

ReceiptsRecorded(entries) ==
    /\ DOMAIN receipts \subseteq DOMAIN receipts'
    /\ \A r \in DOMAIN receipts : AboutReceipt(entries, r, "receipt_issued") = {}
    /\ \A r \in DOMAIN receipts' \ DOMAIN receipts :
          AboutReceipt(entries, r, "receipt_issued") = {1}
    /\ \A r \in DOMAIN receipts' : /\ StatusTold(entries, r, "settled", "receipt_settled")
                                   /\ StatusTold(entries, r, "cancelled", "receipt_cancelled")
    /\ \A k \in DOMAIN entries : entries[k].receipt \in DOMAIN receipts' \cup {NoIndex}

Recorded(entries) == Written(entries) /\ CellsRecorded(entries) /\ ReceiptsRecorded(entries)

Silent == UNCHANGED <<cells, receipts, journal>>

\* No receipt has the index that stands for none.
LEMMA NoReceiptThere ==
    ASSUME TypeOK
    PROVE  NoIndex \notin DOMAIN receipts
BY Slots, LedgerAssumption DEF ReceiptSlots

\* A call that changes no receipt and whose entries name none.
LEMMA NoReceiptTold ==
    ASSUME TypeOK, UNCHANGED receipts, NEW entries,
           \A k \in DOMAIN entries : entries[k].receipt = NoIndex
    PROVE  ReceiptsRecorded(entries)
<1>1. \A r \in DOMAIN receipts : \A kind : AboutReceipt(entries, r, kind) = {}
  BY NoReceiptThere DEF AboutReceipt
<1> QED
  BY <1>1 DEF ReceiptsRecorded, StatusTold

\* A call that changes no cell and whose entries are about none.
LEMMA NoCellTold ==
    ASSUME UNCHANGED cells, NEW entries,
           \A k \in DOMAIN entries : entries[k].kind \notin ReserveKinds
    PROVE  CellsRecorded(entries)
BY DEF CellsRecorded

\* A call that mutates cells, stamps them, and tells each reserve it changed.
LEMMA StampedTold ==
    ASSUME TypeOK, NEW ds \in [DOMAIN cells -> CellRecord], NEW touched,
           cells' = Stamp(ds, touched),
           \A c \in DOMAIN cells : c \in touched \/ ds[c] = cells[c],
           NEW entries,
           \A c \in DOMAIN cells : ds[c].reserve = cells[c].reserve \/ AboutCell(entries, c) # {},
           \A k \in DOMAIN entries : entries[k].kind \in ReserveKinds =>
              /\ entries[k].cell \in DOMAIN cells
              /\ entries[k].after_balance = cells'[entries[k].cell].reserve
    PROVE  CellsRecorded(entries)
<1>1. DOMAIN cells' = DOMAIN cells
  BY DEF Stamp
<1>2. ASSUME NEW c \in DOMAIN cells
      PROVE  /\ cells'[c] = cells[c] \/ cells'[c].sequence = NextSequence
             /\ cells'[c].reserve = ds[c].reserve
  <2>1. ds[c] \in CellRecord
    OBVIOUS
  <2>2. CASE c \in touched
    <3>1. cells'[c] = [ds[c] EXCEPT !.sequence = NextSequence]
      BY <2>2 DEF Stamp
    <3> QED
      BY <2>1, <3>1 DEF CellRecord
  <2>3. CASE c \notin touched
    <3>1. cells'[c] = ds[c]
      BY <2>3 DEF Stamp
    <3> QED
      BY <2>3, <3>1
  <2> QED
    BY <2>2, <2>3
<1> QED
  BY <1>1, <1>2 DEF CellsRecorded

\* One, two or three entries; a settlement appends the third, or none, to two.
LEMMA Entries ==
    ASSUME NEW a, NEW b, NEW c
    PROVE  /\ <<a>> \in Seq({a, b, c}) /\ Len(<<a>>) = 1 /\ DOMAIN <<a>> = {1} /\ <<a>>[1] = a
           /\ <<a, b>> \in Seq({a, b, c}) /\ Len(<<a, b>>) = 2 /\ DOMAIN <<a, b>> = {1, 2}
           /\ <<a, b>>[1] = a /\ <<a, b>>[2] = b /\ <<a, b>> \o <<>> = <<a, b>>
<1> DEFINE S == {a, b, c}
           two == <<a, b>>
<1>1. /\ <<a>> \in Seq(S) /\ Len(<<a>>) = 1 /\ DOMAIN <<a>> = {1} /\ <<a>>[1] = a
  OBVIOUS
<1>2. /\ two \in Seq(S) /\ Len(two) = 2 /\ DOMAIN two = {1, 2}
      /\ two[1] = a /\ two[2] = b
  OBVIOUS
<1> HIDE DEF S, two
<1>3. two \o <<>> = two
  BY <1>2, ConcatEmptySeq
<1> QED
  BY <1>1, <1>2, <1>3, Zenon DEF S, two

LEMMA ThreeEntries ==
    ASSUME NEW a, NEW b, NEW c, NEW three, three = <<a, b>> \o <<c>>
    PROVE  /\ three \in Seq({a, b, c}) /\ Len(three) = 3 /\ DOMAIN three = {1, 2, 3}
           /\ three[1] = a /\ three[2] = b /\ three[3] = c
<1> DEFINE S == {a, b, c}
           two == <<a, b>>
           one == <<c>>
<1>1. /\ two \in Seq(S) /\ Len(two) = 2 /\ two[1] = a /\ two[2] = b
      /\ one \in Seq(S) /\ Len(one) = 1 /\ one[1] = c
  OBVIOUS
<1> HIDE DEF S, two, one
<1>2. /\ three \in Seq(S) /\ Len(three) = Len(two) + Len(one)
      /\ \A i \in 1..(Len(two) + Len(one)) :
            three[i] = IF i <= Len(two) THEN two[i] ELSE one[i - Len(two)]
  <2>1. three = two \o one
    BY DEF two, one
  <2>2. /\ two \o one \in Seq(S) /\ Len(two \o one) = Len(two) + Len(one)
        /\ \A i \in 1..(Len(two) + Len(one)) :
              (two \o one)[i] = IF i <= Len(two) THEN two[i] ELSE one[i - Len(two)]
    BY <1>1, ConcatProperties
  <2> QED
    BY <2>1, <2>2, Zenon
<1>3. Len(three) = 3 /\ \A i \in 1..3 : three[i] = IF i <= 2 THEN two[i] ELSE one[i - 2]
  BY <1>1, <1>2
<1>4. DOMAIN three = 1..3
  <2>1. DOMAIN three = 1..Len(three)
    BY <1>2, LenProperties
  <2> QED
    BY <2>1, <1>3
<1>5. three[1] = a /\ three[2] = b /\ three[3] = c
  BY <1>1, <1>3
<1>6. 1..3 = {1, 2, 3}
  OBVIOUS
<1> QED
  BY <1>2, <1>3, <1>4, <1>5, <1>6, Zenon DEF S

\* One entry, or two, that a call appends are written.
LEMMA WritesOne ==
    ASSUME TypeOK, NEW a, AppendJournal(<<a>>)
    PROVE  Written(<<a>>)
<1>1. <<a>> \in Seq({a}) /\ Len(<<a>>) \in 1..3
  BY Entries
<1> QED
  BY <1>1, AppendWrites

LEMMA WritesTwo ==
    ASSUME TypeOK, NEW a, NEW b, AppendJournal(<<a, b>>)
    PROVE  Written(<<a, b>>)
<1>1. <<a, b>> \in Seq({a, b}) /\ Len(<<a, b>>) \in 1..3
  BY Entries
<1> QED
  BY <1>1, AppendWrites

\* Creating a cell is told and moves nothing (pdtl_create_cell).
LEMMA CreateCellTold ==
    ASSUME TypeOK, NEW owner, NEW asset, NEW route, NEW policy,
           CreateCell(owner, asset, route, policy), ~Silent
    PROVE  \E entries : Recorded(entries)
<1> DEFINE entry == Entry("cell_created", cell_count, NoIndex, NoIndex, 0, 0, 0)
<1>1. /\ cells' = [i \in 0..cell_count |->
                     IF i = cell_count THEN NewCell(owner, asset, route, policy) ELSE cells[i]]
      /\ AppendJournal(<<entry>>) /\ UNCHANGED receipts
  BY DEF CreateCell, Reject, Silent
<1>2. entry.kind = "cell_created" /\ entry.receipt = NoIndex
  BY DEF Entry
<1> HIDE DEF entry
<1>3. DOMAIN <<entry>> = {1} /\ <<entry>>[1] = entry
  BY Entries
<1>4. Written(<<entry>>)
  BY <1>1, WritesOne
<1>5. ReceiptsRecorded(<<entry>>)
  BY <1>1, <1>2, <1>3, NoReceiptTold
<1>6. CellsRecorded(<<entry>>)
  <2>1. cell_count \in Nat /\ DOMAIN cells = 0..(cell_count - 1)
    BY Slots
  <2>2. /\ DOMAIN cells' = 0..cell_count
        /\ \A c \in DOMAIN cells : c \in DOMAIN cells' /\ cells'[c] = cells[c]
        /\ cells'[cell_count] = NewCell(owner, asset, route, policy)
    BY <1>1, <2>1
  <2>3. \A c \in DOMAIN cells' \ DOMAIN cells : c = cell_count
    BY <2>1, <2>2
  <2>4. /\ NewCell(owner, asset, route, policy).reserve = 0
        /\ NewCell(owner, asset, route, policy).sequence = NextSequence
    BY DEF NewCell
  <2>5. \A k \in DOMAIN <<entry>> : <<entry>>[k].kind \notin ReserveKinds
    BY <1>2, <1>3 DEF ReserveKinds
  <2> QED
    BY <2>2, <2>3, <2>4, <2>5 DEF CellsRecorded
<1> QED
  BY <1>4, <1>5, <1>6 DEF Recorded

\* A deposit tells the new reserve (pdtl_deposit_genesis).
LEMMA DepositTold ==
    ASSUME TypeOK, NEW cell \in CellArgs, NEW amount \in CallAmounts,
           DepositGenesis(cell, amount), ~Silent
    PROVE  \E entries : Recorded(entries)
<1> DEFINE entry == Entry("genesis_deposit", cell, NoIndex, NoIndex, amount,
                          cells[cell].reserve, cells'[cell].reserve)
           ds == [cells EXCEPT ![cell].reserve = Plus(@, amount)]
<1>1. /\ cells' = Stamp(ds, {cell}) /\ AppendJournal(<<entry>>) /\ UNCHANGED receipts
      /\ IsCell(cell)
  BY DEF DepositGenesis, DepositGenesisError, Reject, Silent
<1>2. /\ entry.kind = "genesis_deposit" /\ entry.receipt = NoIndex /\ entry.cell = cell
      /\ entry.after_balance = cells'[cell].reserve
  BY DEF Entry
<1>3. /\ cell \in DOMAIN cells /\ cells[cell] \in CellRecord /\ amount \in Amount
      /\ cells \in [DOMAIN cells -> CellRecord]
  BY <1>1, Slots, LedgerAssumption DEF TypeOK, CellsTyped
<1>4. /\ ds \in [DOMAIN cells -> CellRecord]
      /\ \A c \in DOMAIN cells : c # cell => ds[c] = cells[c]
  BY <1>3, AmountClosed DEF CellRecord
<1> HIDE DEF entry, ds
<1>5. DOMAIN <<entry>> = {1} /\ <<entry>>[1] = entry
  BY Entries
<1>6. Written(<<entry>>)
  BY <1>1, WritesOne
<1>7. ReceiptsRecorded(<<entry>>)
  BY <1>1, <1>2, <1>5, NoReceiptTold
<1>8. AboutCell(<<entry>>, cell) # {}
  BY <1>2, <1>5 DEF AboutCell, ReserveKinds
<1>9. CellsRecorded(<<entry>>)
  BY <1>1, <1>2, <1>3, <1>4, <1>5, <1>8, StampedTold
<1> QED
  BY <1>6, <1>7, <1>9 DEF Recorded

\* A withdrawal tells the new reserve (pdtl_withdraw).
LEMMA WithdrawTold ==
    ASSUME TypeOK, NEW cell \in CellArgs, NEW amount \in CallAmounts,
           Withdraw(cell, amount), ~Silent
    PROVE  \E entries : Recorded(entries)
<1> DEFINE entry == Entry("withdrawal", cell, NoIndex, NoIndex, amount,
                          cells[cell].reserve, cells'[cell].reserve)
           ds == [cells EXCEPT ![cell].reserve = Minus(@, amount),
                               ![cell].withdrawn = Plus(@, amount)]
<1>1. /\ cells' = Stamp(ds, {cell}) /\ AppendJournal(<<entry>>) /\ UNCHANGED receipts
      /\ IsCell(cell)
  BY DEF Withdraw, WithdrawError, Reject, Silent
<1>2. /\ entry.kind = "withdrawal" /\ entry.receipt = NoIndex /\ entry.cell = cell
      /\ entry.after_balance = cells'[cell].reserve
  BY DEF Entry
<1>3. /\ cell \in DOMAIN cells /\ cells[cell] \in CellRecord /\ amount \in Amount
      /\ cells \in [DOMAIN cells -> CellRecord]
  BY <1>1, Slots, LedgerAssumption DEF TypeOK, CellsTyped
<1>4. /\ ds \in [DOMAIN cells -> CellRecord]
      /\ \A c \in DOMAIN cells : c # cell => ds[c] = cells[c]
  <2>1. ds \in [DOMAIN cells -> CellRecord]
    BY ZenonT(60), <1>3, AmountClosed DEF CellRecord
  <2> QED
    BY <1>3, <2>1
<1> HIDE DEF entry, ds
<1>5. DOMAIN <<entry>> = {1} /\ <<entry>>[1] = entry
  BY Entries
<1>6. Written(<<entry>>)
  BY <1>1, WritesOne
<1>7. ReceiptsRecorded(<<entry>>)
  BY <1>1, <1>2, <1>5, NoReceiptTold
<1>8. AboutCell(<<entry>>, cell) # {}
  BY <1>2, <1>5 DEF AboutCell, ReserveKinds
<1>9. CellsRecorded(<<entry>>)
  BY <1>1, <1>2, <1>3, <1>4, <1>5, <1>8, StampedTold
<1> QED
  BY <1>6, <1>7, <1>9 DEF Recorded

\* A mutation changes one cell; commitments are not reserves.
LEMMA MutationsElsewhere ==
    ASSUME NEW D, NEW cs \in [D -> CellRecord], NEW i \in D, NEW amount
    PROVE  /\ \A c \in D : c # i => Debit(cs, i, amount)[c] = cs[c]
           /\ \A c \in D : c # i => Credit(cs, i, amount)[c] = cs[c]
           /\ \A c \in D : c # i => Reserve(cs, i, amount)[c] = cs[c]
           /\ \A c \in D : c # i => Release(cs, i, amount)[c] = cs[c]
           /\ \A c \in D : Reserve(cs, i, amount)[c].reserve = cs[c].reserve
           /\ \A c \in D : Release(cs, i, amount)[c].reserve = cs[c].reserve
<1>1. \A c \in D : c # i => Debit(cs, i, amount)[c] = cs[c]
  BY DEF Debit
<1>2. \A c \in D : c # i => Credit(cs, i, amount)[c] = cs[c]
  BY DEF Credit
<1>3. \A c \in D : c # i => Reserve(cs, i, amount)[c] = cs[c]
  BY DEF Reserve
<1>4. \A c \in D : c # i => Release(cs, i, amount)[c] = cs[c]
  BY DEF Release
<1>5. cs[i] \in CellRecord
  OBVIOUS
<1>6. \A c \in D : Reserve(cs, i, amount)[c].reserve = cs[c].reserve
  BY <1>5 DEF Reserve, CellRecord
<1>7. \A c \in D : Release(cs, i, amount)[c].reserve = cs[c].reserve
  BY <1>5 DEF Release, CellRecord
<1> QED
  BY <1>1, <1>2, <1>3, <1>4, <1>6, <1>7

\* Two entries about the reserves of two cells, which may be the same.
LEMMA TwoTold ==
    ASSUME NEW a, NEW b, a.kind \in ReserveKinds, b.kind \in ReserveKinds
    PROVE  AboutCell(<<a, b>>, a.cell) # {} /\ AboutCell(<<a, b>>, b.cell) # {}
<1>1. DOMAIN <<a, b>> = {1, 2} /\ <<a, b>>[1] = a /\ <<a, b>>[2] = b
  BY Entries
<1> QED
  BY <1>1 DEF AboutCell

\* A transfer tells both new reserves (pdtl_transfer_between_cells).
LEMMA TransferTold ==
    ASSUME TypeOK, NEW from \in CellArgs, NEW to \in CellArgs, NEW amount \in CallAmounts,
           TransferBetweenCells(from, to, amount), ~Silent
    PROVE  \E entries : Recorded(entries)
<1> DEFINE sent == Entry("cell_transfer", from, to, NoIndex, amount,
                         cells[from].reserve, cells'[from].reserve)
           received == Entry("cell_transfer", to, from, NoIndex, amount,
                             cells[to].reserve, cells'[to].reserve)
           paid == Debit(cells, from, amount)
           ds == Credit(paid, to, amount)
<1>1. /\ cells' = Stamp(ds, {from, to}) /\ AppendJournal(<<sent, received>>)
      /\ UNCHANGED receipts /\ IsCell(from) /\ IsCell(to)
  BY DEF TransferBetweenCells, TransferError, Reject, Silent
<1>2. /\ sent.kind = "cell_transfer" /\ sent.receipt = NoIndex /\ sent.cell = from
      /\ sent.after_balance = cells'[from].reserve
      /\ received.kind = "cell_transfer" /\ received.receipt = NoIndex /\ received.cell = to
      /\ received.after_balance = cells'[to].reserve
  BY DEF Entry
<1>3. /\ from \in DOMAIN cells /\ to \in DOMAIN cells /\ amount \in Amount
      /\ cells \in [DOMAIN cells -> CellRecord]
  BY <1>1, Slots, LedgerAssumption DEF TypeOK, CellsTyped
<1>4. paid \in [DOMAIN cells -> CellRecord] /\ \A c \in DOMAIN cells : c # from => paid[c] = cells[c]
  BY <1>3, CellMutations, MutationsElsewhere
<1> HIDE DEF sent, received, paid
<1>5. ds \in [DOMAIN cells -> CellRecord] /\ \A c \in DOMAIN cells : c # to => ds[c] = paid[c]
  BY <1>3, <1>4, CellMutations, MutationsElsewhere
<1> HIDE DEF ds
<1>6. /\ DOMAIN <<sent, received>> = {1, 2}
      /\ <<sent, received>>[1] = sent /\ <<sent, received>>[2] = received
  BY Entries
<1>7. Written(<<sent, received>>)
  BY <1>1, WritesTwo
<1>8. ReceiptsRecorded(<<sent, received>>)
  BY <1>1, <1>2, <1>6, NoReceiptTold
<1>9. AboutCell(<<sent, received>>, from) # {} /\ AboutCell(<<sent, received>>, to) # {}
  BY <1>2, TwoTold DEF ReserveKinds
<1>10. CellsRecorded(<<sent, received>>)
  <2>1. \A c \in DOMAIN cells : c \in {from, to} \/ ds[c] = cells[c]
    BY <1>4, <1>5
  <2>2. \A c \in DOMAIN cells : ds[c].reserve = cells[c].reserve
                                \/ AboutCell(<<sent, received>>, c) # {}
    BY <1>9, <2>1
  <2>3. \A k \in DOMAIN <<sent, received>> :
           /\ <<sent, received>>[k].cell \in DOMAIN cells
           /\ <<sent, received>>[k].after_balance = cells'[<<sent, received>>[k].cell].reserve
    BY <1>2, <1>3, <1>6
  <2> QED
    BY <1>1, <1>5, <2>1, <2>2, <2>3, StampedTold
<1> QED
  BY <1>7, <1>8, <1>10 DEF Recorded

\* A consolidation tells the empty source and the new target (pdtl_consolidate_cell).
LEMMA ConsolidateTold ==
    ASSUME TypeOK, NEW target \in CellArgs, NEW source \in CellArgs,
           ConsolidateCell(target, source), ~Silent
    PROVE  \E entries : Recorded(entries)
<1> DEFINE moved == cells[source].reserve
           gone == Entry("cell_consolidated", source, target, NoIndex, moved, moved, 0)
           got == Entry("cell_consolidated", target, source, NoIndex, moved,
                        cells[target].reserve, cells'[target].reserve)
           credited == Credit(cells, target, moved)
           ds == [credited EXCEPT ![source].reserve = 0, ![source].state = "closed"]
<1>1. /\ cells' = Stamp(ds, {source, target}) /\ AppendJournal(<<gone, got>>)
      /\ UNCHANGED receipts /\ IsCell(target) /\ IsCell(source)
  BY DEF ConsolidateCell, ConsolidateError, Reject, Silent
<1>2. /\ gone.kind = "cell_consolidated" /\ gone.receipt = NoIndex /\ gone.cell = source
      /\ gone.after_balance = 0
      /\ got.kind = "cell_consolidated" /\ got.receipt = NoIndex /\ got.cell = target
      /\ got.after_balance = cells'[target].reserve
  BY DEF Entry
<1>3. /\ target \in DOMAIN cells /\ source \in DOMAIN cells
      /\ cells \in [DOMAIN cells -> CellRecord]
  BY <1>1, Slots DEF TypeOK, CellsTyped
<1>4. moved \in Amount
  BY <1>3 DEF CellRecord
<1>5. /\ credited \in [DOMAIN cells -> CellRecord]
      /\ \A c \in DOMAIN cells : c # target => credited[c] = cells[c]
  BY <1>3, <1>4, CellMutations, MutationsElsewhere
<1> HIDE DEF gone, got, moved, credited
<1>6. /\ ds \in [DOMAIN cells -> CellRecord] /\ ds[source].reserve = 0
      /\ \A c \in DOMAIN cells : c # source => ds[c] = credited[c]
  <2>1. credited[source] \in CellRecord /\ 0 \in Amount
    BY <1>3, <1>5, AmountClosed
  <2>2. [credited[source] EXCEPT !.reserve = 0, !.state = "closed"] \in CellRecord
    BY <2>1 DEF CellRecord
  <2>3. ds = [credited EXCEPT ![source] =
                 [credited[source] EXCEPT !.reserve = 0, !.state = "closed"]]
    BY <1>3, <1>5
  <2>4. [credited[source] EXCEPT !.reserve = 0, !.state = "closed"].reserve = 0
    BY <2>1 DEF CellRecord
  <2> QED
    BY <1>3, <1>5, <2>2, <2>3, <2>4
<1> HIDE DEF ds
<1>7. /\ DOMAIN <<gone, got>> = {1, 2} /\ <<gone, got>>[1] = gone /\ <<gone, got>>[2] = got
  BY Entries
<1>8. Written(<<gone, got>>)
  BY <1>1, WritesTwo
<1>9. ReceiptsRecorded(<<gone, got>>)
  BY <1>1, <1>2, <1>7, NoReceiptTold
<1>10. AboutCell(<<gone, got>>, source) # {} /\ AboutCell(<<gone, got>>, target) # {}
  BY <1>2, TwoTold DEF ReserveKinds
<1>11. CellsRecorded(<<gone, got>>)
  <2>1. \A c \in DOMAIN cells : c \in {source, target} \/ ds[c] = cells[c]
    BY <1>5, <1>6
  <2>2. \A c \in DOMAIN cells : ds[c].reserve = cells[c].reserve
                                \/ AboutCell(<<gone, got>>, c) # {}
    BY <1>10, <2>1
  <2>3. cells'[source].reserve = 0
    <3>1. cells'[source] = [ds[source] EXCEPT !.sequence = NextSequence]
      BY <1>1, <1>3, <1>6 DEF Stamp
    <3>2. ds[source] \in CellRecord
      BY <1>3, <1>6
    <3> QED
      BY <1>6, <3>1, <3>2 DEF CellRecord
  <2>4. \A k \in DOMAIN <<gone, got>> :
           /\ <<gone, got>>[k].cell \in DOMAIN cells
           /\ <<gone, got>>[k].after_balance = cells'[<<gone, got>>[k].cell].reserve
    BY <1>2, <1>3, <1>7, <2>3
  <2> QED
    BY <1>1, <1>6, <2>1, <2>2, <2>4, StampedTold
<1> QED
  BY <1>8, <1>9, <1>11 DEF Recorded

\* Issuing tells the new receipt; a commitment is no reserve (pdtl_issue_receipt).
LEMMA IssueTold ==
    ASSUME TypeOK, NEW origin \in CellArgs, NEW beneficiary \in CellArgs,
           NEW gross \in CallAmounts, IssueReceipt(origin, beneficiary, gross), ~Silent
    PROVE  \E entries : Recorded(entries)
<1> DEFINE entry == Entry("receipt_issued", origin, beneficiary, receipt_count, gross,
                          cells[origin].reserved_out, cells'[origin].reserved_out)
           ds == Reserve(cells, origin, gross)
           new == NewReceipt(origin, beneficiary, gross)
<1>1. /\ cells' = Stamp(ds, {origin}) /\ AppendJournal(<<entry>>) /\ IsCell(origin)
      /\ receipts' = [r \in 0..receipt_count |-> IF r = receipt_count THEN new ELSE receipts[r]]
  BY DEF IssueReceipt, IssueError, Reject, Silent
<1>2. entry.kind = "receipt_issued" /\ entry.receipt = receipt_count /\ new.status = "pending"
  BY DEF Entry, NewReceipt
<1>3. /\ origin \in DOMAIN cells /\ gross \in Amount
      /\ cells \in [DOMAIN cells -> CellRecord]
  BY <1>1, Slots, LedgerAssumption DEF TypeOK, CellsTyped
<1>4. /\ ds \in [DOMAIN cells -> CellRecord]
      /\ \A c \in DOMAIN cells : c # origin => ds[c] = cells[c]
      /\ \A c \in DOMAIN cells : ds[c].reserve = cells[c].reserve
  BY <1>3, CellMutations, MutationsElsewhere
<1> HIDE DEF entry, ds, new
<1>5. DOMAIN <<entry>> = {1} /\ <<entry>>[1] = entry
  BY Entries
<1>6. Written(<<entry>>)
  BY <1>1, WritesOne
<1>7. CellsRecorded(<<entry>>)
  <2>1. \A k \in DOMAIN <<entry>> : <<entry>>[k].kind \notin ReserveKinds
    BY <1>2, <1>5 DEF ReserveKinds
  <2>2. \A c \in DOMAIN cells : c \in {origin} \/ ds[c] = cells[c]
    BY <1>4
  <2> QED
    BY <1>1, <1>4, <2>1, <2>2, StampedTold
<1>8. ReceiptsRecorded(<<entry>>)
  <2>1. /\ DOMAIN receipts = 0..(receipt_count - 1) /\ receipt_count \in Nat
        /\ DOMAIN receipts' = 0..receipt_count
    BY <1>1, Slots
  <2>2. /\ \A r \in DOMAIN receipts : r \in DOMAIN receipts' /\ r # receipt_count
        /\ \A r \in DOMAIN receipts' \ DOMAIN receipts : r = receipt_count
        /\ receipt_count \in DOMAIN receipts' /\ receipt_count \notin DOMAIN receipts
    BY <2>1
  <2>3. /\ \A r \in DOMAIN receipts : receipts'[r] = receipts[r]
        /\ receipts'[receipt_count] = new
    BY <1>1, <2>1
  <2>4. /\ \A r \in DOMAIN receipts : \A kind : AboutReceipt(<<entry>>, r, kind) = {}
        /\ AboutReceipt(<<entry>>, receipt_count, "receipt_issued") = {1}
        /\ AboutReceipt(<<entry>>, receipt_count, "receipt_settled") = {}
        /\ AboutReceipt(<<entry>>, receipt_count, "receipt_cancelled") = {}
    BY <1>2, <1>5, <2>2 DEF AboutReceipt
  <2>5. ASSUME NEW r \in DOMAIN receipts'
        PROVE  /\ StatusTold(<<entry>>, r, "settled", "receipt_settled")
               /\ StatusTold(<<entry>>, r, "cancelled", "receipt_cancelled")
    <3>1. CASE r \in DOMAIN receipts
      BY <2>3, <2>4, <3>1 DEF StatusTold
    <3>2. CASE r = receipt_count
      BY <1>2, <2>2, <2>3, <2>4, <3>2 DEF StatusTold
    <3> QED
      BY <2>2, <3>1, <3>2
  <2>6. \A k \in DOMAIN <<entry>> : <<entry>>[k].receipt \in DOMAIN receipts' \cup {NoIndex}
    BY <1>2, <1>5, <2>2
  <2> QED
    BY <2>2, <2>4, <2>5, <2>6 DEF ReceiptsRecorded
<1> QED
  BY <1>6, <1>7, <1>8 DEF Recorded

\* The receipts after one of them is resolved.
OnlyResolved(r, status) ==
    /\ DOMAIN receipts' = DOMAIN receipts /\ receipts'[r].status = status
    /\ \A q \in DOMAIN receipts : q # r => receipts'[q] = receipts[q]

LEMMA ResolvingOne ==
    ASSUME TypeOK, NEW r \in DOMAIN receipts, NEW payer, NEW status,
           receipts' = [receipts EXCEPT ![r].paid_by_cell = payer, ![r].status = status]
    PROVE  OnlyResolved(r, status)
<1>1. receipts[r] \in ReceiptRecord
  BY DEF TypeOK, ReceiptsTyped
<1>2. receipts'[r] = [receipts[r] EXCEPT !.paid_by_cell = payer, !.status = status]
  OBVIOUS
<1>3. receipts'[r].status = status
  BY <1>1, <1>2 DEF ReceiptRecord
<1> QED
  BY <1>3 DEF OnlyResolved

\* A call that resolves one receipt tells how, in each entry.
LEMMA ResolvedTold ==
    ASSUME NEW r \in DOMAIN receipts, receipts[r].status = "pending", NEW status, NEW kind,
           \/ status = "settled" /\ kind = "receipt_settled"
           \/ status = "cancelled" /\ kind = "receipt_cancelled",
           OnlyResolved(r, status),
           NEW entries, 1 \in DOMAIN entries,
           \A k \in DOMAIN entries : entries[k].receipt = r /\ entries[k].kind = kind
    PROVE  ReceiptsRecorded(entries)
<1>1. /\ DOMAIN receipts' = DOMAIN receipts /\ receipts'[r].status = status
      /\ \A q \in DOMAIN receipts : q # r => receipts'[q] = receipts[q]
  BY DEF OnlyResolved
<1>2. \/ status = "settled" /\ kind = "receipt_settled"
      \/ status = "cancelled" /\ kind = "receipt_cancelled"
  OBVIOUS
<1>3. /\ \A q \in DOMAIN receipts : \A any : q # r => AboutReceipt(entries, q, any) = {}
      /\ \A any : any # kind => AboutReceipt(entries, r, any) = {}
      /\ AboutReceipt(entries, r, kind) # {}
  BY DEF AboutReceipt
<1>4. \A q \in DOMAIN receipts : AboutReceipt(entries, q, "receipt_issued") = {}
  BY <1>2, <1>3
<1>5. ASSUME NEW q \in DOMAIN receipts'
      PROVE  /\ StatusTold(entries, q, "settled", "receipt_settled")
             /\ StatusTold(entries, q, "cancelled", "receipt_cancelled")
  <2>1. CASE q # r
    BY <1>1, <1>3, <2>1 DEF StatusTold
  <2>2. CASE q = r
    BY <1>1, <1>2, <1>3, <2>2 DEF StatusTold
  <2> QED
    BY <2>1, <2>2
<1> QED
  BY <1>1, <1>4, <1>5 DEF ReceiptsRecorded

\* Cancelling tells the receipt; a release is no reserve (pdtl_cancel_receipt).
LEMMA CancelTold ==
    ASSUME TypeOK, NEW r \in ReceiptArgs, CancelReceipt(r), ~Silent
    PROVE  \E entries : Recorded(entries)
<1> DEFINE origin == receipts[r].origin_cell
           gross == receipts[r].gross
           entry == Entry("receipt_cancelled", origin, receipts[r].beneficiary_cell, r, gross,
                          cells[origin].reserved_out, cells'[origin].reserved_out)
           ds == Release(cells, origin, gross)
<1>1. /\ cells' = Stamp(ds, {origin}) /\ AppendJournal(<<entry>>)
      /\ IsReceipt(r) /\ IsCell(origin) /\ receipts[r].status = "pending"
      /\ receipts' = [receipts EXCEPT ![r].paid_by_cell = NoIndex, ![r].status = "cancelled"]
  BY DEF CancelReceipt, CancelError, Reject, Silent
<1>2. entry.kind = "receipt_cancelled" /\ entry.receipt = r
  BY DEF Entry
<1>3. r \in DOMAIN receipts /\ origin \in CellArgs /\ gross \in Amount
  <2>1. r \in DOMAIN receipts /\ receipts[r] \in ReceiptRecord
    BY <1>1, Slots
  <2> QED
    BY <2>1 DEF ReceiptRecord, CellArgs
<1>4. origin \in DOMAIN cells /\ cells \in [DOMAIN cells -> CellRecord]
  BY <1>1, <1>3, Slots DEF TypeOK, CellsTyped
<1> HIDE DEF entry, origin, gross
<1>5. /\ ds \in [DOMAIN cells -> CellRecord]
      /\ \A c \in DOMAIN cells : c # origin => ds[c] = cells[c]
      /\ \A c \in DOMAIN cells : ds[c].reserve = cells[c].reserve
  BY <1>3, <1>4, CellMutations, MutationsElsewhere
<1> HIDE DEF ds
<1>6. DOMAIN <<entry>> = {1} /\ <<entry>>[1] = entry
  BY Entries
<1>7. Written(<<entry>>)
  BY <1>1, WritesOne
<1>8. CellsRecorded(<<entry>>)
  <2>1. \A k \in DOMAIN <<entry>> : <<entry>>[k].kind \notin ReserveKinds
    BY <1>2, <1>6 DEF ReserveKinds
  <2>2. \A c \in DOMAIN cells : c \in {origin} \/ ds[c] = cells[c]
    BY <1>5
  <2> QED
    BY <1>1, <1>5, <2>1, <2>2, StampedTold
<1>9. ReceiptsRecorded(<<entry>>)
  <2>1. \A k \in DOMAIN <<entry>> : /\ <<entry>>[k].receipt = r
                                    /\ <<entry>>[k].kind = "receipt_cancelled"
    BY <1>2, <1>6
  <2>2. 1 \in DOMAIN <<entry>>
    BY <1>6
  <2>3. OnlyResolved(r, "cancelled")
    BY <1>1, <1>3, ResolvingOne
  <2> QED
    BY <1>1, <1>3, <2>1, <2>2, <2>3, ResolvedTold
<1> QED
  BY <1>7, <1>8, <1>9 DEF Recorded

\* Repricing or closing a route touches neither (pdtl_update_route_fee, pdtl_close_route).
LEMMA RouteControlTold ==
    ASSUME TypeOK, RouteControl, ~Silent
    PROVE  \E entries : Recorded(entries)
<1>1. ASSUME NEW a, AppendJournal(<<a>>), UNCHANGED <<cells, receipts>>,
             a.kind \notin ReserveKinds, a.receipt = NoIndex
      PROVE  Recorded(<<a>>)
  <2>1. DOMAIN <<a>> = {1} /\ <<a>>[1] = a
    BY Entries
  <2>2. Written(<<a>>)
    BY <1>1, WritesOne
  <2>3. CellsRecorded(<<a>>)
    BY <1>1, <2>1, NoCellTold
  <2>4. ReceiptsRecorded(<<a>>)
    BY <1>1, <2>1, NoReceiptTold
  <2> QED
    BY <2>2, <2>3, <2>4 DEF Recorded
<1>2. ASSUME NEW n, NEW b, NEW c, UpdateRouteFee(n, b, c)
      PROVE  \E entries : Recorded(entries)
  <2> DEFINE a == Entry("route_fee_updated", c, NoIndex, NoIndex, b, routes[n].fee_bps, b)
  <2>1. AppendJournal(<<a>>) /\ UNCHANGED <<cells, receipts>>
    BY <1>2 DEF UpdateRouteFee, Reject, Silent
  <2>2. a.kind \notin ReserveKinds /\ a.receipt = NoIndex
    BY DEF Entry, ReserveKinds
  <2> HIDE DEF a
  <2> QED
    BY <1>1, <2>1, <2>2
<1>3. ASSUME NEW n, CloseRoute(n)
      PROVE  \E entries : Recorded(entries)
  <2> DEFINE a == Entry("route_closed", NoIndex, NoIndex, NoIndex, 0, 0, 0)
  <2>1. AppendJournal(<<a>>) /\ UNCHANGED <<cells, receipts>>
    BY <1>3 DEF CloseRoute, Reject, Silent, vars
  <2>2. a.kind \notin ReserveKinds /\ a.receipt = NoIndex
    BY DEF Entry, ReserveKinds
  <2> HIDE DEF a
  <2> QED
    BY <1>1, <2>1, <2>2
<1> QED
  BY <1>2, <1>3 DEF RouteControl

\* The two or three entries of a settlement.
SettlementList(entries, a, b, c, more) ==
    /\ entries \in Seq({a, b, c}) /\ Len(entries) \in 1..3
    /\ 1 \in DOMAIN entries /\ 2 \in DOMAIN entries /\ entries[1] = a /\ entries[2] = b
    /\ more => 3 \in DOMAIN entries /\ entries[3] = c
    /\ \A k \in DOMAIN entries : \/ entries[k] \in {a, b}
                                 \/ more /\ entries[k] = c

LEMMA SettlementEntries ==
    ASSUME NEW a, NEW b, NEW c, NEW more \in BOOLEAN, NEW entries,
           entries = <<a, b>> \o IF more THEN <<c>> ELSE <<>>
    PROVE  SettlementList(entries, a, b, c, more)
<1> DEFINE three == <<a, b>> \o <<c>>
           two == <<a, b>>
<1>1. /\ three \in Seq({a, b, c}) /\ Len(three) = 3 /\ DOMAIN three = {1, 2, 3}
      /\ three[1] = a /\ three[2] = b /\ three[3] = c
  <2>1. three = <<a, b>> \o <<c>>
    OBVIOUS
  <2> HIDE DEF three
  <2> QED
    BY <2>1, ThreeEntries
<1>2. /\ two \in Seq({a, b, c}) /\ Len(two) = 2 /\ DOMAIN two = {1, 2}
      /\ two[1] = a /\ two[2] = b
  BY Entries
<1>3. ~more => entries = two
  BY Entries
<1>4. more => entries = three
  OBVIOUS
<1> HIDE DEF three, two
<1>5. CASE entries = three /\ more
  BY <1>1, <1>5 DEF SettlementList
<1>6. CASE entries = two /\ ~more
  BY <1>2, <1>6 DEF SettlementList
<1> QED
  BY <1>3, <1>4, <1>5, <1>6

\* A settlement tells the receipt and each reserve it changes (pdtl_apply_settlement).
LEMMA SettleTold ==
    ASSUME TypeOK, NEW r \in ReceiptArgs, NEW payer \in CellArgs,
           SettleReceipt(r, payer), ~Silent
    PROVE  \E entries : Recorded(entries)
<1> DEFINE receipt == receipts[r]
           origin == receipt.origin_cell
           to == receipt.beneficiary_cell
           fee_cell == routes[receipt.route].fee_cell
           more == fee_cell # NoIndex /\ receipt.fee > 0
           paid == Debit(cells, payer, receipt.gross)
           credited == Credit(paid, to, receipt.net)
           feePaid == IF more THEN Credit(credited, fee_cell, receipt.fee) ELSE credited
           ds == Release(feePaid, origin, receipt.gross)
           touched == {payer, to, origin, fee_cell}
           a == Entry("receipt_settled", payer, to, r, receipt.gross,
                      cells[payer].reserve, cells'[payer].reserve)
           b == Entry("receipt_settled", to, payer, r, receipt.net,
                      cells[to].reserve, cells'[to].reserve)
           c == Entry("receipt_settled", fee_cell, payer, r, receipt.fee,
                      cells[fee_cell].reserve, cells'[fee_cell].reserve)
           entries == <<a, b>> \o IF more THEN <<c>> ELSE <<>>
<1>1. /\ SettleError(r, payer) = "PDTL_OK" /\ cells' = Stamp(ds, touched)
      /\ receipts' = [receipts EXCEPT ![r].paid_by_cell = payer, ![r].status = "settled"]
      /\ AppendJournal(entries)
  BY DEF SettleReceipt, SettledCells, Reject, Silent
<1>2. /\ r \in DOMAIN receipts /\ receipt \in ReceiptRecord /\ payer \in DOMAIN cells
      /\ origin \in DOMAIN cells /\ to \in DOMAIN cells
      /\ fee_cell \in DOMAIN cells \cup {NoIndex}
  BY <1>1, SettlementShape
<1>3. /\ receipt.gross \in Amount /\ receipt.net \in Amount /\ receipt.fee \in Amount
      /\ cells \in [DOMAIN cells -> CellRecord] /\ receipt.status = "pending"
  <2>1. receipt.gross \in Amount /\ receipt.net \in Amount /\ receipt.fee \in Amount
    BY <1>2 DEF ReceiptRecord
  <2>2. receipt.status = "pending"
    BY <1>1 DEF SettleError, ShapeError
  <2> QED
    BY <2>1, <2>2 DEF TypeOK, CellsTyped
<1>4. /\ a.kind = "receipt_settled" /\ a.receipt = r /\ a.cell = payer
      /\ a.after_balance = cells'[payer].reserve
      /\ b.kind = "receipt_settled" /\ b.receipt = r /\ b.cell = to
      /\ b.after_balance = cells'[to].reserve
      /\ c.kind = "receipt_settled" /\ c.receipt = r /\ c.cell = fee_cell
      /\ c.after_balance = cells'[fee_cell].reserve
  BY DEF Entry
<1>5. more \in BOOLEAN /\ (more => fee_cell \in DOMAIN cells)
  BY <1>2
<1>6. /\ paid \in [DOMAIN cells -> CellRecord]
      /\ \A i \in DOMAIN cells : i # payer => paid[i] = cells[i]
  <2>1. paid \in [DOMAIN cells -> CellRecord]
    BY <1>2, <1>3, CellMutations
  <2> QED
    BY <1>2, <1>3, <2>1, MutationsElsewhere
<1> HIDE DEF a, b, c, paid
<1>7. /\ credited \in [DOMAIN cells -> CellRecord]
      /\ \A i \in DOMAIN cells : i # to => credited[i] = paid[i]
  <2>1. credited \in [DOMAIN cells -> CellRecord]
    BY <1>2, <1>3, <1>6, CellMutations
  <2> QED
    BY <1>2, <1>3, <1>6, <2>1, MutationsElsewhere
<1> HIDE DEF credited
<1>8. /\ feePaid \in [DOMAIN cells -> CellRecord]
      /\ \A i \in DOMAIN cells : feePaid[i] = credited[i] \/ (more /\ i = fee_cell)
  <2>1. CASE more
    <3>1. Credit(credited, fee_cell, receipt.fee) \in [DOMAIN cells -> CellRecord]
      BY <1>3, <1>5, <1>7, <2>1, CellMutations
    <3>2. \A i \in DOMAIN cells : i # fee_cell =>
             Credit(credited, fee_cell, receipt.fee)[i] = credited[i]
      BY <1>3, <1>5, <1>7, <2>1, MutationsElsewhere
    <3>3. feePaid = Credit(credited, fee_cell, receipt.fee)
      BY <2>1
    <3> HIDE DEF feePaid
    <3> QED
      BY <2>1, <3>1, <3>2, <3>3
  <2>2. CASE ~more
    <3>1. feePaid = credited
      BY <2>2
    <3> HIDE DEF feePaid
    <3> QED
      BY <1>7, <3>1
  <2> QED
    BY <2>1, <2>2
<1> HIDE DEF feePaid
<1>9. /\ ds \in [DOMAIN cells -> CellRecord]
      /\ \A i \in DOMAIN cells : i # origin => ds[i] = feePaid[i]
      /\ \A i \in DOMAIN cells : ds[i].reserve = feePaid[i].reserve
  <2>1. ds \in [DOMAIN cells -> CellRecord]
    BY <1>2, <1>3, <1>8, CellMutations
  <2> QED
    BY <1>2, <1>3, <1>8, <2>1, MutationsElsewhere
<1> HIDE DEF ds
<1>10. SettlementList(entries, a, b, c, more)
  <2>1. more \in BOOLEAN
    BY <1>5
  <2> HIDE DEF more
  <2>2. entries = <<a, b>> \o IF more THEN <<c>> ELSE <<>>
    BY DEF more
  <2> HIDE DEF entries
  <2> QED
    BY <2>1, <2>2, SettlementEntries, Zenon
<1> HIDE DEF entries
<1>11. Written(entries)
  BY <1>1, <1>10, AppendWrites DEF SettlementList
<1>12. ReceiptsRecorded(entries)
  <2>1. OnlyResolved(r, "settled")
    BY <1>1, <1>2, ResolvingOne
  <2>2. \A k \in DOMAIN entries : entries[k].receipt = r /\ entries[k].kind = "receipt_settled"
    BY <1>4, <1>10 DEF SettlementList
  <2> QED
    BY <1>2, <1>3, <1>10, <2>1, <2>2, ResolvedTold DEF SettlementList
<1>13. CellsRecorded(entries)
  <2>1. \A k \in DOMAIN entries :
           /\ entries[k].cell \in DOMAIN cells
           /\ entries[k].after_balance = cells'[entries[k].cell].reserve
    BY <1>2, <1>4, <1>5, <1>10 DEF SettlementList
  <2>2. /\ AboutCell(entries, payer) # {} /\ AboutCell(entries, to) # {}
        /\ more => AboutCell(entries, fee_cell) # {}
    BY <1>4, <1>10 DEF SettlementList, AboutCell, ReserveKinds
  <2>3. \A i \in DOMAIN cells : ds[i].reserve = cells[i].reserve \/ AboutCell(entries, i) # {}
    BY <1>6, <1>7, <1>8, <1>9, <2>2
  <2>4. \A i \in DOMAIN cells : i \in touched \/ ds[i] = cells[i]
    BY <1>6, <1>7, <1>8, <1>9
  <2> HIDE DEF touched
  <2> QED
    BY <1>1, <1>9, <2>1, <2>3, <2>4, StampedTold
<1> QED
  BY <1>11, <1>12, <1>13 DEF Recorded

\* Every call that changes a cell, a receipt or the journal is told.
LEMMA NextRecorded ==
    ASSUME TypeOK, [Next]_vars, ~Silent
    PROVE  \E entries : Recorded(entries)
<1>1. CASE Setup
  BY ZenonT(60), <1>1, CreateCellTold DEF Setup, AddPolicy, AddRoute, Reject, Silent
<1>2. CASE Movement
  BY <1>2, DepositTold, TransferTold, ConsolidateTold, WithdrawTold DEF Movement
<1>3. CASE ReceiptLife
  BY <1>3, IssueTold, SettleTold, CancelTold DEF ReceiptLife
<1>4. CASE RouteControl
  BY <1>4, RouteControlTold
<1>5. CASE ClearError \/ UNCHANGED vars
  BY <1>5 DEF ClearError, vars, Silent
<1> QED
  BY <1>1, <1>2, <1>3, <1>4, <1>5 DEF Next

\* The journal after a call, as long as it has room: what was there, then the entries.
LEMMA JournalParts ==
    ASSUME TypeOK, TypeOK', NEW entries, Written(entries), JournalHasRoom'
    PROVE  /\ JournalHasRoom /\ Len(journal) \in Nat /\ Len(journal') \in Nat
           /\ Len(journal) + 1 <= Len(journal')
           /\ DOMAIN entries = 1..Len(entries) /\ Len(entries) \in 1..3
           /\ \A k \in DOMAIN journal : /\ k \in DOMAIN journal' /\ journal'[k] = journal[k]
                                        /\ k \in Nat /\ k <= Len(journal)
           /\ \A j \in DOMAIN entries : /\ Len(journal) + j \in DOMAIN journal'
                                        /\ journal'[Len(journal) + j] = entries[j]
           /\ \A k \in DOMAIN journal' : \/ k \in DOMAIN journal
                                         \/ \E j \in DOMAIN entries : k = Len(journal) + j
<1> DEFINE n == Len(journal)
           m == Len(entries)
           D == DOMAIN journal
           E == DOMAIN journal'
           F == DOMAIN entries
<1>1. n \in Nat /\ Len(journal') \in Nat
  BY DEF TypeOK, JournalTyped
<1>2. /\ F = 1..m /\ m \in 1..3 /\ JournalHasRoom /\ Len(journal') = n + m
      /\ \A k \in 1..n : journal'[k] = journal[k]
      /\ \A k \in F : journal'[n + k] = entries[k]
  BY DEF Written
<1>3. D = 1..n /\ E = 1..Len(journal')
  BY DEF TypeOK, JournalTyped
<1> HIDE DEF n, m, D, E, F
<1>4. E = 1..(n + m)
  BY <1>2, <1>3
<1>5. \A k \in 1..n : k \in 1..(n + m) /\ k \in Nat /\ k <= n
  BY <1>1, <1>2
<1>6. \A j \in 1..m : n + j \in 1..(n + m)
  BY <1>1, <1>2
<1>7. \A k \in 1..(n + m) : \/ k \in 1..n
                            \/ \E j \in 1..m : k = n + j
  <2> SUFFICES ASSUME NEW k \in 1..(n + m), k \notin 1..n
               PROVE  k - n \in 1..m /\ k = n + (k - n)
    OBVIOUS
  <2> QED
    BY <1>1, <1>2
<1>8. n + 1 <= n + m
  BY <1>1, <1>2
<1>9. \A k \in D : k \in E /\ journal'[k] = journal[k] /\ k \in Nat /\ k <= n
  BY <1>2, <1>3, <1>4, <1>5
<1>10. \A j \in F : n + j \in E /\ journal'[n + j] = entries[j]
  BY <1>2, <1>4, <1>6
<1>11. \A k \in E : k \in D \/ \E j \in F : k = n + j
  BY <1>2, <1>3, <1>4, <1>7
<1> QED
  BY <1>1, <1>2, <1>8, <1>9, <1>10, <1>11 DEF n, m, D, E, F

-----------------------------------------------------------------------------
(***************************************************************************)
(* The invariant: while there is room no stamp is ahead of the journal,    *)
(* and no entry speaks of a cell or a receipt still to come.  Without the  *)
(* second a new cell might be born with a history.                         *)
(***************************************************************************)
StampsWithin == \A c \in DOMAIN cells : cells[c].sequence <= Len(journal)

EntriesRefer ==
    \A k \in DOMAIN journal :
        /\ journal[k].receipt \in DOMAIN receipts \cup {NoIndex}
        /\ journal[k].kind \in ReserveKinds => journal[k].cell \in DOMAIN cells

JournalSound == JournalHasRoom => StampsWithin /\ EntriesRefer

JournalInv == TypeOK /\ JournalSound /\ JournalBalancesCurrent /\ JournalTellsReceipts

\* The empty journal has nothing to tell.
LEMMA InitJournal == Init => JournalInv
<1> SUFFICES ASSUME Init PROVE JournalInv
  OBVIOUS
<1>1. TypeOK
  BY InitType
<1>2. DOMAIN cells = {} /\ DOMAIN receipts = {} /\ DOMAIN journal = {}
  <2>1. cell_count = 0 /\ receipt_count = 0 /\ journal = <<>>
    BY DEF Init
  <2>2. DOMAIN cells = 0..(0 - 1) /\ DOMAIN receipts = 0..(0 - 1)
    BY <1>1, <2>1, Slots
  <2> QED
    BY <2>1, <2>2
<1>3. JournalSound
  BY <1>2 DEF JournalSound, StampsWithin, EntriesRefer
<1>4. JournalBalancesCurrent
  BY <1>2 DEF JournalBalancesCurrent
<1>5. JournalTellsReceipts
  BY <1>2 DEF JournalTellsReceipts
<1> QED
  BY <1>1, <1>3, <1>4, <1>5 DEF JournalInv

LEMMA SoundStep ==
    ASSUME TypeOK, TypeOK', JournalSound, NEW entries, Recorded(entries)
    PROVE  JournalSound'
<1> SUFFICES ASSUME JournalHasRoom'
             PROVE  StampsWithin' /\ EntriesRefer'
  BY DEF JournalSound
<1>1. CellsRecorded(entries) /\ ReceiptsRecorded(entries) /\ Written(entries)
  BY DEF Recorded
<1>2. /\ JournalHasRoom /\ Len(journal) \in Nat /\ Len(journal') \in Nat
      /\ Len(journal) + 1 <= Len(journal')
  BY <1>1, JournalParts
<1>3. StampsWithin /\ EntriesRefer
  BY <1>2 DEF JournalSound
<1>4. StampsWithin'
  <2> SUFFICES ASSUME NEW c \in DOMAIN cells'
               PROVE  cells'[c].sequence <= Len(journal')
    BY DEF StampsWithin
  <2>1. CASE cells'[c].sequence = NextSequence
    BY <1>2, <2>1 DEF NextSequence
  <2>2. CASE c \in DOMAIN cells /\ cells'[c] = cells[c]
    <3>1. cells[c].sequence <= Len(journal) /\ cells[c].sequence \in Nat
      BY <1>3, <2>2 DEF StampsWithin, TypeOK, CellsTyped, CellRecord
    <3> QED
      BY <1>2, <2>2, <3>1
  <2> QED
    BY <1>1, <2>1, <2>2 DEF CellsRecorded
<1>5. EntriesRefer'
  <2> SUFFICES ASSUME NEW k \in DOMAIN journal'
               PROVE  /\ journal'[k].receipt \in DOMAIN receipts' \cup {NoIndex}
                      /\ journal'[k].kind \in ReserveKinds => journal'[k].cell \in DOMAIN cells'
    BY DEF EntriesRefer
  <2>1. CASE k \in DOMAIN journal
    <3>1. journal'[k] = journal[k]
      BY <1>1, <2>1, JournalParts
    <3> QED
      BY <1>1, <1>3, <2>1, <3>1 DEF EntriesRefer, CellsRecorded, ReceiptsRecorded
  <2>2. CASE \E j \in DOMAIN entries : k = Len(journal) + j
    <3>1. PICK j \in DOMAIN entries : k = Len(journal) + j
      BY <2>2
    <3>2. journal'[k] = entries[j]
      BY <1>1, <3>1, JournalParts
    <3> QED
      BY <1>1, <3>1, <3>2 DEF CellsRecorded, ReceiptsRecorded
  <2> QED
    BY <1>1, <2>1, <2>2, JournalParts
<1> QED
  BY <1>4, <1>5

\* Of one to three entries, those of a kind have a last one.
LEMMA LastOf ==
    ASSUME NEW n \in 1..3, NEW T \in SUBSET (1..n), T # {}
    PROVE  \E k \in T : \A j \in T : j <= k
<1>1. \A j \in T : j = 1 \/ j = 2 \/ j = 3
  OBVIOUS
<1>2. PICK i \in T : TRUE
  OBVIOUS
<1>3. CASE 3 \in T
  BY <1>1, <1>3
<1>4. CASE 3 \notin T /\ 2 \in T
  BY <1>1, <1>4
<1>5. CASE 3 \notin T /\ 2 \notin T
  BY <1>1, <1>2, <1>5
<1> QED
  BY <1>3, <1>4, <1>5

\* The last entry about a cell's reserve ends at what the cell has.
LEMMA BalancesStep ==
    ASSUME TypeOK, TypeOK', JournalSound, JournalBalancesCurrent,
           NEW entries, Recorded(entries)
    PROVE  JournalBalancesCurrent'
<1> DEFINE Last(about, c) ==
             IF about = {} THEN cells'[c].reserve = 0
             ELSE \E k \in about : /\ \A j \in about : j <= k
                                   /\ journal'[k].after_balance = cells'[c].reserve
<1> SUFFICES ASSUME JournalHasRoom', NEW c \in DOMAIN cells'
             PROVE  Last(AboutCell(journal', c), c)
  BY DEF JournalBalancesCurrent, AboutCell
<1>1. CellsRecorded(entries) /\ Written(entries)
  BY DEF Recorded
<1>2. /\ JournalHasRoom /\ Len(journal) \in Nat
      /\ DOMAIN entries = 1..Len(entries) /\ Len(entries) \in 1..3
  BY <1>1, JournalParts
<1>3. EntriesRefer
  BY <1>2 DEF JournalSound
<1>4. CASE AboutCell(entries, c) = {}
  <2>1. AboutCell(journal', c) = AboutCell(journal, c)
    <3>1. \A k \in DOMAIN journal : k \in DOMAIN journal' /\ journal'[k] = journal[k]
      BY <1>1, JournalParts
    <3>2. \A k \in DOMAIN journal' : \/ k \in DOMAIN journal
                                     \/ \E j \in DOMAIN entries : journal'[k] = entries[j]
      BY <1>1, JournalParts
    <3>3. \A j \in DOMAIN entries : ~(entries[j].kind \in ReserveKinds /\ entries[j].cell = c)
      BY <1>4 DEF AboutCell
    <3> QED
      BY <3>1, <3>2, <3>3 DEF AboutCell
  <2>2. CASE c \in DOMAIN cells
    <3>1. cells'[c].reserve = cells[c].reserve
      BY <1>1, <1>4, <2>2 DEF CellsRecorded
    <3>2. \A k \in AboutCell(journal, c) : journal'[k] = journal[k]
      BY <1>1, JournalParts DEF AboutCell
    <3>3. IF AboutCell(journal, c) = {} THEN cells[c].reserve = 0
          ELSE \E k \in AboutCell(journal, c) :
                  /\ \A j \in AboutCell(journal, c) : j <= k
                  /\ journal[k].after_balance = cells[c].reserve
      BY <1>2, <2>2 DEF JournalBalancesCurrent, AboutCell
    <3> QED
      BY <2>1, <3>1, <3>2, <3>3
  <2>3. CASE c \notin DOMAIN cells
    <3>1. AboutCell(journal, c) = {}
      BY <1>3, <2>3 DEF EntriesRefer, AboutCell
    <3>2. cells'[c].reserve = 0
      BY <1>1, <2>3 DEF CellsRecorded
    <3> QED
      BY <2>1, <3>1, <3>2
  <2> QED
    BY <2>2, <2>3
<1>5. CASE AboutCell(entries, c) # {}
  <2>1. PICK j \in AboutCell(entries, c) : \A i \in AboutCell(entries, c) : i <= j
    <3>1. AboutCell(entries, c) \in SUBSET (1..Len(entries))
      BY <1>2 DEF AboutCell
    <3> QED
      BY <1>2, <1>5, <3>1, LastOf
  <2>2. /\ j \in DOMAIN entries /\ entries[j].kind \in ReserveKinds /\ entries[j].cell = c
        /\ entries[j].after_balance = cells'[c].reserve
    BY <1>1, <2>1 DEF AboutCell, CellsRecorded
  <2>3. /\ Len(journal) + j \in DOMAIN journal' /\ journal'[Len(journal) + j] = entries[j]
    BY <1>1, <2>2, JournalParts
  <2>4. Len(journal) + j \in AboutCell(journal', c)
    BY <2>2, <2>3 DEF AboutCell
  <2>5. ASSUME NEW k \in AboutCell(journal', c) PROVE k <= Len(journal) + j
    <3>1. j \in Nat
      BY <1>2, <2>2
    <3>2. CASE k \in DOMAIN journal
      <4>1. k \in Nat /\ k <= Len(journal)
        BY <1>1, <3>2, JournalParts
      <4> QED
        BY <1>2, <3>1, <4>1
    <3>3. CASE \E i \in DOMAIN entries : k = Len(journal) + i
      <4>1. PICK i \in DOMAIN entries : k = Len(journal) + i
        BY <3>3
      <4>2. journal'[k] = entries[i]
        BY <1>1, <4>1, JournalParts
      <4>3. i <= j
        BY <2>1, <4>1, <4>2 DEF AboutCell
      <4>4. i \in Nat
        BY <1>2, <4>1
      <4> QED
        BY <1>2, <3>1, <4>1, <4>3, <4>4
    <3>4. k \in DOMAIN journal'
      BY DEF AboutCell
    <3> QED
      BY <1>1, <3>2, <3>3, <3>4, JournalParts
  <2> QED
    BY <2>2, <2>3, <2>4, <2>5
<1> QED
  BY <1>4, <1>5

\* The entries about a receipt after a call: those from before, and its own.
LEMMA AboutAfter ==
    ASSUME TypeOK, TypeOK', NEW entries, Written(entries), JournalHasRoom', NEW r, NEW kind
    PROVE  AboutReceipt(journal', r, kind) =
              AboutReceipt(journal, r, kind)
                \cup {Len(journal) + j : j \in AboutReceipt(entries, r, kind)}
<1>1. \A k \in DOMAIN journal : k \in DOMAIN journal' /\ journal'[k] = journal[k]
  BY JournalParts
<1>2. \A j \in DOMAIN entries : /\ Len(journal) + j \in DOMAIN journal'
                                /\ journal'[Len(journal) + j] = entries[j]
  BY JournalParts
<1>3. \A k \in DOMAIN journal' : \/ k \in DOMAIN journal
                                 \/ \E j \in DOMAIN entries : k = Len(journal) + j
  BY JournalParts
<1>4. ASSUME NEW k \in AboutReceipt(journal', r, kind)
      PROVE  \/ k \in AboutReceipt(journal, r, kind)
             \/ \E j \in AboutReceipt(entries, r, kind) : k = Len(journal) + j
  BY <1>1, <1>2, <1>3 DEF AboutReceipt
<1>5. ASSUME NEW k \in AboutReceipt(journal, r, kind)
      PROVE  k \in AboutReceipt(journal', r, kind)
  BY <1>1 DEF AboutReceipt
<1>6. ASSUME NEW j \in AboutReceipt(entries, r, kind)
      PROVE  Len(journal) + j \in AboutReceipt(journal', r, kind)
  BY <1>2 DEF AboutReceipt
<1> QED
  BY <1>4, <1>5, <1>6

\* What the journal tells of a receipt.
Told(r) ==
    /\ Cardinality(AboutReceipt(journal, r, "receipt_issued")) = 1
    /\ receipts[r].status = "settled" <=> AboutReceipt(journal, r, "receipt_settled") # {}
    /\ receipts[r].status = "cancelled" <=> AboutReceipt(journal, r, "receipt_cancelled") # {}

LEMMA TellsMeans ==
    JournalTellsReceipts <=> (JournalHasRoom => \A r \in DOMAIN receipts : Told(r))
BY DEF JournalTellsReceipts, Told, AboutReceipt

\* Each receipt is issued once and resolved as told.
LEMMA TellsStep ==
    ASSUME TypeOK, TypeOK', JournalSound, JournalTellsReceipts,
           NEW entries, Recorded(entries)
    PROVE  JournalTellsReceipts'
<1> SUFFICES ASSUME JournalHasRoom', NEW r \in DOMAIN receipts'
             PROVE  Told(r)'
  BY DEF JournalTellsReceipts, Told, AboutReceipt
<1>1. ReceiptsRecorded(entries) /\ Written(entries)
  BY DEF Recorded
<1>2. JournalHasRoom /\ EntriesRefer
  BY <1>1, JournalParts DEF JournalSound
<1>3. \A kind : AboutReceipt(journal', r, kind) =
                  AboutReceipt(journal, r, kind)
                    \cup {Len(journal) + j : j \in AboutReceipt(entries, r, kind)}
  BY <1>1, AboutAfter
<1>4. /\ StatusTold(entries, r, "settled", "receipt_settled")
      /\ StatusTold(entries, r, "cancelled", "receipt_cancelled")
  BY <1>1 DEF ReceiptsRecorded
<1>5. \A kind : AboutReceipt(journal', r, kind) # {} <=>
                  AboutReceipt(journal, r, kind) # {} \/ AboutReceipt(entries, r, kind) # {}
  BY <1>3
<1>6. CASE r \in DOMAIN receipts
  <2>1. Told(r)
    BY <1>2, <1>6, TellsMeans
  <2>2. AboutReceipt(journal', r, "receipt_issued") = AboutReceipt(journal, r, "receipt_issued")
    <3>1. AboutReceipt(entries, r, "receipt_issued") = {}
      BY <1>1, <1>6 DEF ReceiptsRecorded
    <3>2. {Len(journal) + j : j \in {}} = {}
      OBVIOUS
    <3> QED
      BY <1>3, <3>1, <3>2
  <2>3. Cardinality(AboutReceipt(journal', r, "receipt_issued")) = 1
    BY <2>1, <2>2 DEF Told
  <2>4. receipts'[r].status = "settled" <=> AboutReceipt(journal', r, "receipt_settled") # {}
    BY <1>4, <1>5, <1>6, <2>1 DEF Told, StatusTold
  <2>5. receipts'[r].status = "cancelled" <=> AboutReceipt(journal', r, "receipt_cancelled") # {}
    BY <1>4, <1>5, <1>6, <2>1 DEF Told, StatusTold
  <2> QED
    BY <2>3, <2>4, <2>5 DEF Told, AboutReceipt
<1>7. CASE r \notin DOMAIN receipts
  <2>1. r # NoIndex
    <3>1. (NoIndex \notin DOMAIN receipts)'
      BY NoReceiptThere, PTL
    <3> QED
      BY <3>1
  <2>2. \A kind : AboutReceipt(journal, r, kind) = {}
    BY <1>2, <1>7, <2>1 DEF EntriesRefer, AboutReceipt
  <2>3. AboutReceipt(journal', r, "receipt_issued") = {Len(journal) + 1}
    BY <1>1, <1>3, <1>7, <2>2 DEF ReceiptsRecorded
  <2>4. Cardinality(AboutReceipt(journal', r, "receipt_issued")) = 1
    BY <2>3, FS_Singleton
  <2>5. receipts'[r].status = "settled" <=> AboutReceipt(journal', r, "receipt_settled") # {}
    BY <1>4, <1>5, <1>7, <2>2 DEF StatusTold
  <2>6. receipts'[r].status = "cancelled" <=> AboutReceipt(journal', r, "receipt_cancelled") # {}
    BY <1>4, <1>5, <1>7, <2>2 DEF StatusTold
  <2> QED
    BY <2>4, <2>5, <2>6 DEF Told, AboutReceipt
<1> QED
  BY <1>6, <1>7

\* Every step keeps the invariant.
LEMMA NextJournal == JournalInv /\ [Next]_vars => JournalInv'
<1> SUFFICES ASSUME JournalInv, [Next]_vars PROVE JournalInv'
  OBVIOUS
<1>1. /\ TypeOK /\ JournalSound /\ JournalBalancesCurrent /\ JournalTellsReceipts
  BY DEF JournalInv
<1>2. TypeOK'
  BY <1>1, NextType
<1>3. CASE Silent
  <2>1. JournalSound'
    BY <1>1, <1>3 DEF Silent, JournalSound, JournalHasRoom, StampsWithin, EntriesRefer
  <2>2. JournalBalancesCurrent'
    <3>1. cells' = cells /\ journal' = journal
      BY <1>3 DEF Silent
    <3>2. JournalBalancesCurrent
      BY <1>1
    <3> QED
      BY <3>1, <3>2 DEF JournalBalancesCurrent, JournalHasRoom
  <2>3. JournalTellsReceipts'
    <3>1. receipts' = receipts /\ journal' = journal
      BY <1>3 DEF Silent
    <3>2. JournalTellsReceipts
      BY <1>1
    <3>3. JournalHasRoom' => \A r \in DOMAIN receipts : Told(r)
      BY <3>1, <3>2, TellsMeans DEF JournalHasRoom
    <3>4. ASSUME NEW r, Told(r) PROVE Told(r)'
      <4>1. \A kind : AboutReceipt(journal', r, kind) = AboutReceipt(journal, r, kind)
        BY <3>1
      <4>2. Cardinality(AboutReceipt(journal', r, "receipt_issued")) = 1
        BY <3>4, <4>1 DEF Told
      <4> QED
        BY <3>1, <3>4, <4>1, <4>2 DEF Told, AboutReceipt
    <3>5. JournalHasRoom' => \A r \in DOMAIN receipts' : Told(r)'
      BY <3>1, <3>3, <3>4
    <3> QED
      BY <3>5 DEF JournalTellsReceipts, Told, AboutReceipt
  <2> QED
    BY <1>2, <2>1, <2>2, <2>3 DEF JournalInv
<1>4. CASE ~Silent
  <2>1. PICK entries : Recorded(entries)
    BY <1>1, <1>4, NextRecorded
  <2>2. JournalSound'
    BY <1>1, <1>2, <2>1, SoundStep
  <2>3. JournalBalancesCurrent'
    BY <1>1, <1>2, <2>1, BalancesStep
  <2>4. JournalTellsReceipts'
    BY <1>1, <1>2, <2>1, TellsStep
  <2> QED
    BY <1>2, <2>2, <2>3, <2>4 DEF JournalInv
<1> QED
  BY <1>3, <1>4

LEMMA JournalHolds == Spec => []JournalInv
<1> QED
  BY InitJournal, NextJournal, PTL DEF Spec

(***************************************************************************)
(* While the journal has room, the last entry about a cell's reserve ends  *)
(* at what the cell has, whichever cells of a settlement coincide          *)
(* (pdtl_append_journal at the end of each call).                          *)
(***************************************************************************)
THEOREM BalancesTold == Spec => []JournalBalancesCurrent
BY JournalHolds, PTL DEF JournalInv

(***************************************************************************)
(* While the journal has room it has one entry for the issue of each       *)
(* receipt, and a receipt is settled or cancelled exactly if it says so.   *)
(***************************************************************************)
THEOREM ReceiptsTold == Spec => []JournalTellsReceipts
BY JournalHolds, PTL DEF JournalInv

(***************************************************************************)
(* While the journal has room the sequence number that pdtl_touch_cell     *)
(* gives is a version: no cell is ahead of the journal, and each change    *)
(* of a cell raises its number.                                            *)
(***************************************************************************)
THEOREM StampsOrder == Spec => StampsAdvance
<1> DEFINE Advance == JournalHasRoom =>
                        \A c \in DOMAIN cells : /\ cells[c].sequence <= Len(journal)
                                                /\ cells'[c] # cells[c] =>
                                                      cells'[c].sequence > cells[c].sequence
<1>1. JournalInv /\ [Next]_vars => [Advance]_vars
  <2> SUFFICES ASSUME JournalInv, [Next]_vars, JournalHasRoom, NEW c \in DOMAIN cells
               PROVE  /\ cells[c].sequence <= Len(journal)
                      /\ cells'[c] # cells[c] => cells'[c].sequence > cells[c].sequence
    OBVIOUS
  <2>1. TypeOK /\ cells[c].sequence <= Len(journal)
    BY DEF JournalInv, JournalSound, StampsWithin
  <2>2. cells[c].sequence \in Nat /\ Len(journal) \in Nat
    BY <2>1 DEF TypeOK, CellsTyped, CellRecord, JournalTyped
  <2>3. cells'[c] = cells[c] \/ cells'[c].sequence = NextSequence
    BY <2>1, NextRecorded DEF Silent, Recorded, CellsRecorded
  <2>4. NextSequence = Len(journal) + 1
    BY DEF NextSequence
  <2> QED
    BY <2>1, <2>2, <2>3, <2>4
<1>2. Spec => [][Advance]_vars
  BY <1>1, JournalHolds, PTL DEF Spec
<1> QED
  BY <1>2 DEF StampsAdvance

=============================================================================
