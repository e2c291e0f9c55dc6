--------------------------- MODULE LedgerCallProofs ---------------------------
(***************************************************************************)
(* What each call does, in arithmetic over the integers.  Ledger describes *)
(* a call by the mutations the code makes one after the other on 64-bit    *)
(* fields of cells that may coincide; in a solvent ledger none of them     *)
(* wraps, and a call is one equation for the reserve and one for the       *)
(* commitment of every cell.  NextCall is that description of every step;  *)
(* what follows it is proved from it alone: the floor, the receipts that   *)
(* can be resolved and, in the last section, that the ledger implements    *)
(* the escrow, since each effect is one of its actions or none.            *)
(***************************************************************************)
EXTENDS LedgerSolvencyProofs, LedgerRefinement

-----------------------------------------------------------------------------
(* The effects of the calls.                                               *)

At(c, a, amount) == IF c = a THEN amount ELSE 0

\* a debit and two credits
Paid(ds, from, amount, to, net, feeTo, fee) ==
    \A c \in DOMAIN cells :
        ds[c].reserve = cells[c].reserve - At(c, from, amount) + At(c, to, net)
                                         + At(c, feeTo, fee)

Unpaid(ds) == \A c \in DOMAIN cells : ds[c].reserve = cells[c].reserve

Held(ds, origin, change) ==
    \A c \in DOMAIN cells : ds[c].reserved_out = cells[c].reserved_out + At(c, origin, change)

Unheld(ds) == \A c \in DOMAIN cells : ds[c].reserved_out = cells[c].reserved_out

StatesKept(ds) == \A c \in DOMAIN cells : ds[c].state = cells[c].state

\* the cell has the amount on top of its commitments and its minimum reserve
Spare(c, amount) ==
    /\ amount <= cells[c].reserve
    /\ amount > 0 => cells[c].reserve >= cells[c].reserved_out + MinReserveOf(c) + amount

NothingMoves == UNCHANGED <<cells, cell_count, receipts, receipt_count, totals>>

CellOpened ==
    /\ cell_count' = cell_count + 1
    /\ DOMAIN cells' = 0..cell_count
    /\ \A c \in DOMAIN cells : cells'[c] = cells[c]
    /\ cells'[cell_count].reserve = 0 /\ cells'[cell_count].state = "open"
    /\ UNCHANGED <<receipts, receipt_count, totals>>

Deposited(c, amount) ==
    /\ \A d \in DOMAIN cells : cells'[d].reserve = cells[d].reserve + At(d, c, amount)
    /\ Unheld(cells') /\ StatesKept(cells')
    /\ totals'.initial_supply = totals.initial_supply + amount
    /\ totals'.external_withdrawals = totals.external_withdrawals
    /\ UNCHANGED <<receipts, receipt_count>>

Withdrawn(c, amount) ==
    /\ Spare(c, amount)
    /\ \A d \in DOMAIN cells : cells'[d].reserve = cells[d].reserve - At(d, c, amount)
    /\ Unheld(cells') /\ StatesKept(cells')
    /\ totals'.initial_supply = totals.initial_supply
    /\ totals'.external_withdrawals = totals.external_withdrawals + amount
    /\ UNCHANGED <<receipts, receipt_count>>

Transferred(from, to, amount) ==
    /\ Spare(from, amount)
    /\ Paid(cells', from, amount, to, amount, to, 0)
    /\ Unheld(cells') /\ StatesKept(cells')
    /\ UNCHANGED <<receipts, receipt_count, totals>>

Merged(target, source) ==
    /\ source # target /\ cells[source].reserved_out = 0
    /\ Paid(cells', source, cells[source].reserve, target, cells[source].reserve, target, 0)
    /\ Unheld(cells')
    /\ \A c \in DOMAIN cells :
          cells'[c].state = IF c = source THEN "closed" ELSE cells[c].state
    /\ UNCHANGED <<receipts, receipt_count, totals>>

Issued(origin, beneficiary, gross) ==
    /\ Spare(origin, gross) /\ cells[origin].state = "open"
    /\ Unpaid(cells') /\ Held(cells', origin, gross) /\ StatesKept(cells')
    /\ receipt_count' = receipt_count + 1
    /\ receipts' = [r \in 0..receipt_count |->
          IF r = receipt_count THEN NewReceipt(origin, beneficiary, gross) ELSE receipts[r]]
    /\ UNCHANGED totals

\* the part of the fee that a cell gets
FeeCredit(c, fee_cell, fee) == IF fee_cell = NoIndex THEN 0 ELSE At(c, fee_cell, fee)

SettledFor(ds, receipt, payer, fee_cell) ==
    \A c \in DOMAIN cells :
        ds[c].reserve = cells[c].reserve - At(c, payer, receipt.gross)
                          + At(c, receipt.beneficiary_cell, receipt.net)
                          + FeeCredit(c, fee_cell, receipt.fee)

Settled(r, payer) ==
    LET receipt == receipts[r]
    IN  /\ receipt.status = "pending" /\ receipt.gross <= cells[receipt.origin_cell].reserved_out
        /\ receipt.gross <= cells[payer].reserve
        /\ payer # receipt.origin_cell => Spare(payer, receipt.gross)
        /\ SettledFor(cells', receipt, payer, receipt.route_digest.fee_cell)
        /\ Held(cells', receipt.origin_cell, -receipt.gross) /\ StatesKept(cells')
        /\ receipts' = [receipts EXCEPT ![r].paid_by_cell = payer, ![r].status = "settled"]
        /\ UNCHANGED <<receipt_count, totals>>

Cancelled(r) ==
    LET receipt == receipts[r]
    IN  /\ receipt.status = "pending" /\ receipt.gross <= cells[receipt.origin_cell].reserved_out
        /\ Unpaid(cells') /\ Held(cells', receipt.origin_cell, -receipt.gross)
        /\ StatesKept(cells')
        /\ receipts' = [receipts EXCEPT ![r].paid_by_cell = NoIndex, ![r].status = "cancelled"]
        /\ UNCHANGED <<receipt_count, totals>>

\* the cells go on being the same cells
SameCells == UNCHANGED cell_count /\ DOMAIN cells' = DOMAIN cells

Call ==
    \/ NothingMoves
    \/ CellOpened
    \/ /\ SameCells
       /\ \/ \E c \in DOMAIN cells, amount \in CallAmounts : Deposited(c, amount)
          \/ \E c \in DOMAIN cells, amount \in CallAmounts : Withdrawn(c, amount)
          \/ \E f, t \in DOMAIN cells, amount \in CallAmounts : Transferred(f, t, amount)
          \/ \E t, s \in DOMAIN cells : Merged(t, s)
          \/ \E o, b \in DOMAIN cells, gross \in CallAmounts : Issued(o, b, gross)
          \/ \E r \in DOMAIN receipts, p \in DOMAIN cells : Settled(r, p)
          \/ \E r \in DOMAIN receipts : Cancelled(r)

-----------------------------------------------------------------------------
(* From the mutations to the effects.                                      *)

\* What the last part of every call, the stamp, leaves alone.
LEMMA StampKeeps ==
    ASSUME NEW n \in Nat, NEW ds \in [0..(n - 1) -> CellRecord], NEW touched
    PROVE  /\ DOMAIN Stamp(ds, touched) = 0..(n - 1)
           /\ \A c \in 0..(n - 1) : /\ Stamp(ds, touched)[c].reserve = ds[c].reserve
                           /\ Stamp(ds, touched)[c].reserved_out = ds[c].reserved_out
                           /\ Stamp(ds, touched)[c].state = ds[c].state
<1>1. \A c \in 0..(n - 1) : ds[c] \in CellRecord
  OBVIOUS
<1> QED
  BY <1>1 DEF Stamp, CellRecord

\* Payments and commitments leave the states alone.
SameStates(cs, ds, n) == \A j \in 0..(n - 1) : ds[j].state = cs[j].state

LEMMA MutationsKeepState ==
    ASSUME NEW n \in Nat, NEW cs \in [0..(n - 1) -> CellRecord], NEW i \in 0..(n - 1),
           NEW amount \in Amount
    PROVE  /\ SameStates(cs, Debit(cs, i, amount), n)
           /\ SameStates(cs, Credit(cs, i, amount), n)
           /\ SameStates(cs, Reserve(cs, i, amount), n)
           /\ SameStates(cs, Release(cs, i, amount), n)
<1>1. \A j \in 0..(n - 1) : cs[j] \in CellRecord
  OBVIOUS
<1> QED
  BY <1>1 DEF SameStates, Debit, Credit, Reserve, Release, CellRecord

\* What a call has done to the cells before the stamp, it has done to the ledger.
LEMMA Stamped ==
    ASSUME SolvencyInv, SupplyFits, NEW ds \in [0..(cell_count - 1) -> CellRecord],
           NEW touched, cells' = Stamp(ds, touched), UNCHANGED cell_count
    PROVE  /\ SameCells
           /\ \A c \in DOMAIN cells : /\ cells'[c].reserve = ds[c].reserve
                                      /\ cells'[c].reserved_out = ds[c].reserved_out
                                      /\ cells'[c].state = ds[c].state
<1>1. cell_count \in Nat /\ DOMAIN cells = 0..(cell_count - 1)
  BY Holdings
<1>2. /\ DOMAIN Stamp(ds, touched) = 0..(cell_count - 1)
      /\ \A c \in 0..(cell_count - 1) : /\ Stamp(ds, touched)[c].reserve = ds[c].reserve
                                        /\ Stamp(ds, touched)[c].reserved_out = ds[c].reserved_out
                                        /\ Stamp(ds, touched)[c].state = ds[c].state
  BY <1>1, StampKeeps
<1> QED
  BY <1>1, <1>2 DEF SameCells

\* A deposit (pdtl_deposit_genesis).
LEMMA DepositEffect ==
    ASSUME SolvencyInv, SupplyFits, NEW cell \in CellArgs, NEW amount \in CallAmounts,
           DepositGenesis(cell, amount), totals.initial_supply + amount <= MaxSupply,
           ~NothingMoves
    PROVE  SameCells /\ cell \in DOMAIN cells /\ Deposited(cell, amount)
<1> DEFINE ds == [cells EXCEPT ![cell].reserve = Plus(@, amount)]
<1>1. /\ cells' = Stamp(ds, {cell}) /\ UNCHANGED <<cell_count, receipts, receipt_count>>
      /\ totals' = [totals EXCEPT !.initial_supply = Plus(@, amount)]
      /\ IsCell(cell)
  BY DEF DepositGenesis, DepositGenesisError, Reject, NothingMoves
<1>2. cell \in DOMAIN cells /\ amount \in Amount /\ amount \in Nat
  BY <1>1, Slots, LedgerAssumption, AmountClosed DEF SolvencyInv, ReferenceInv
<1>3. /\ cells \in [0..(cell_count - 1) -> CellRecord] /\ DOMAIN cells = 0..(cell_count - 1)
      /\ cells[cell] \in CellRecord /\ cells[cell].reserve \in Amount
      /\ cells[cell].reserve \in Nat /\ cells[cell].reserve <= Reserves(cells, cell_count)
  BY <1>2, CellHolds, Holdings, ReservesBound
<1>4. Plus(cells[cell].reserve, amount) = cells[cell].reserve + amount
  <2>1. cells[cell].reserve + amount < AmountModulus
    BY <1>2, <1>3, Room
  <2> QED
    BY <1>2, <1>3, <2>1, NoWrap
<1>5. /\ totals'.initial_supply = totals.initial_supply + amount
      /\ totals'.external_withdrawals = totals.external_withdrawals
  <2>1. totals.initial_supply + amount < AmountModulus
    BY <1>2, Room
  <2>2. Plus(totals.initial_supply, amount) = totals.initial_supply + amount
    BY <1>2, <2>1, Holdings, NoWrap DEF TotalsRecord
  <2> QED
    BY <1>1, <2>2, Holdings DEF TotalsRecord
<1>6. ds \in [0..(cell_count - 1) -> CellRecord]
  BY <1>2, <1>3, AmountClosed DEF CellRecord
<1>7. /\ ds[cell].reserve = cells[cell].reserve + amount
      /\ ds[cell].reserved_out = cells[cell].reserved_out
      /\ ds[cell].state = cells[cell].state
      /\ \A j \in DOMAIN cells : j # cell => ds[j] = cells[j]
  BY <1>2, <1>3, <1>4 DEF CellRecord
<1> HIDE DEF ds
<1>8. /\ SameCells
      /\ \A c \in DOMAIN cells : /\ cells'[c].reserve = ds[c].reserve
                                 /\ cells'[c].reserved_out = ds[c].reserved_out
                                 /\ cells'[c].state = ds[c].state
  BY <1>1, <1>6, Stamped
<1>9. Unheld(cells') /\ StatesKept(cells')
  BY <1>7, <1>8 DEF Unheld, StatesKept
<1>10. \A d \in DOMAIN cells : cells'[d].reserve = cells[d].reserve + At(d, cell, amount)
  BY <1>7, <1>8, CellHolds DEF At
<1> QED
  BY <1>1, <1>2, <1>5, <1>8, <1>9, <1>10 DEF Deposited

\* A withdrawal (pdtl_withdraw).
LEMMA WithdrawEffect ==
    ASSUME SolvencyInv, SupplyFits, NEW cell \in CellArgs, NEW amount \in CallAmounts,
           Withdraw(cell, amount), ~NothingMoves
    PROVE  SameCells /\ cell \in DOMAIN cells /\ Withdrawn(cell, amount)
<1> DEFINE ds == [cells EXCEPT ![cell].reserve = Minus(@, amount),
                               ![cell].withdrawn = Plus(@, amount)]
<1>1. /\ cells' = Stamp(ds, {cell}) /\ UNCHANGED <<cell_count, receipts, receipt_count>>
      /\ totals' = [totals EXCEPT !.external_withdrawals = Plus(@, amount)]
      /\ IsCell(cell) /\ ~(Available(cell) < amount)
  BY DEF Withdraw, WithdrawError, Reject, NothingMoves
<1>2. cell \in DOMAIN cells /\ amount \in Amount /\ amount \in Nat
  BY <1>1, Slots, LedgerAssumption, AmountClosed DEF SolvencyInv, ReferenceInv
<1>3. /\ cells \in [0..(cell_count - 1) -> CellRecord] /\ DOMAIN cells = 0..(cell_count - 1)
      /\ cells[cell] \in CellRecord /\ cells[cell].reserve \in Amount
      /\ cells[cell].reserve \in Nat /\ cells[cell].reserve <= Reserves(cells, cell_count)
  BY <1>2, CellHolds, Holdings, ReservesBound
<1>4. Spare(cell, amount)
  BY <1>1, <1>2, AvailableMeans DEF Spare
<1>5. Minus(cells[cell].reserve, amount) = cells[cell].reserve - amount
  BY <1>2, <1>3, <1>4, NoWrap DEF Spare
<1>6. /\ totals'.initial_supply = totals.initial_supply
      /\ totals'.external_withdrawals = totals.external_withdrawals + amount
  <2>1. totals.external_withdrawals \in Amount
    BY Holdings DEF TotalsRecord
  <2>2. totals.external_withdrawals + amount < AmountModulus
    BY <1>2, <1>3, <1>4, Room DEF Spare
  <2>3. Plus(totals.external_withdrawals, amount) = totals.external_withdrawals + amount
    BY <1>2, <2>1, <2>2, NoWrap
  <2> QED
    BY <1>1, <2>3, Holdings DEF TotalsRecord
<1>7. ds \in [0..(cell_count - 1) -> CellRecord]
  BY <1>2, <1>3, AmountClosed DEF CellRecord
<1>8. /\ ds[cell].reserve = cells[cell].reserve - amount
      /\ ds[cell].reserved_out = cells[cell].reserved_out
      /\ ds[cell].state = cells[cell].state
      /\ \A j \in DOMAIN cells : j # cell => ds[j] = cells[j]
  BY <1>2, <1>3, <1>5 DEF CellRecord
<1> HIDE DEF ds
<1>9. /\ SameCells
      /\ \A c \in DOMAIN cells : /\ cells'[c].reserve = ds[c].reserve
                                 /\ cells'[c].reserved_out = ds[c].reserved_out
                                 /\ cells'[c].state = ds[c].state
  BY <1>1, <1>7, Stamped
<1>10. Unheld(cells') /\ StatesKept(cells')
  BY <1>8, <1>9 DEF Unheld, StatesKept
<1>11. \A d \in DOMAIN cells : cells'[d].reserve = cells[d].reserve - At(d, cell, amount)
  BY <1>8, <1>9, CellHolds DEF At
<1> QED
  BY <1>1, <1>2, <1>4, <1>6, <1>9, <1>10, <1>11 DEF Withdrawn

\* A transfer, perhaps of a cell to itself (pdtl_transfer_between_cells).
LEMMA TransferEffect ==
    ASSUME SolvencyInv, SupplyFits, NEW from \in CellArgs, NEW to \in CellArgs,
           NEW amount \in CallAmounts, TransferBetweenCells(from, to, amount), ~NothingMoves
    PROVE  /\ SameCells /\ from \in DOMAIN cells /\ to \in DOMAIN cells
           /\ Transferred(from, to, amount)
<1> DEFINE paid == Debit(cells, from, amount)
           ds == Credit(paid, to, amount)
           n == cell_count
<1>1. /\ cells' = Stamp(ds, {from, to})
      /\ UNCHANGED <<cell_count, receipts, receipt_count, totals>>
      /\ IsCell(from) /\ IsCell(to) /\ ~(Available(from) < amount)
  BY DEF TransferBetweenCells, TransferError, Reject, NothingMoves
<1>2. TypeOK
  BY DEF SolvencyInv, ReferenceInv
<1>3. /\ from \in 0..(n - 1) /\ to \in 0..(n - 1) /\ amount \in Amount /\ amount \in Nat
      /\ n \in Nat /\ DOMAIN cells = 0..(n - 1) /\ cells \in [0..(n - 1) -> CellRecord]
  BY <1>1, <1>2, Slots, LedgerAssumption, AmountClosed, Holdings
<1>4. Spare(from, amount)
  BY <1>1, <1>3, AvailableMeans DEF Spare
<1>5. /\ Reserves(cells, n) \in Nat /\ Reserves(cells, n) < AmountModulus
      /\ AmountModulus \in Nat /\ \A c \in 0..(n - 1) : cells[c].reserve \in Nat
  <2>1. \A c \in 0..(n - 1) : cells[c].reserve \in Nat
    BY <1>3, CellHolds
  <2> QED
    BY <2>1, Room
<1> HIDE DEF n
<1>6. /\ paid \in [0..(n - 1) -> CellRecord]
      /\ paid[from].reserve = cells[from].reserve - amount
      /\ \A j \in 0..(n - 1) : j # from => paid[j] = cells[j]
      /\ \A j \in 0..(n - 1) : paid[j].reserved_out = cells[j].reserved_out
      /\ Reserves(paid, n) = Reserves(cells, n) - amount
  BY <1>3, <1>4, DebitReserves DEF Spare
<1>7. \A j \in 0..(n - 1) : paid[j].state = cells[j].state
  <2>1. SameStates(cells, paid, n)
    BY <1>3, MutationsKeepState
  <2> QED
    BY <2>1 DEF SameStates
<1> HIDE DEF paid
<1>8. Reserves(paid, n) + amount < AmountModulus
  BY <1>3, <1>5, <1>6
<1>9. /\ ds \in [0..(n - 1) -> CellRecord]
      /\ ds[to].reserve = paid[to].reserve + amount
      /\ \A j \in 0..(n - 1) : j # to => ds[j] = paid[j]
      /\ \A j \in 0..(n - 1) : ds[j].reserved_out = paid[j].reserved_out
  BY <1>3, <1>6, <1>8, CreditReserves
<1>10. \A j \in 0..(n - 1) : ds[j].state = paid[j].state
  <2>1. SameStates(paid, ds, n)
    BY <1>3, <1>6, MutationsKeepState
  <2> QED
    BY <2>1 DEF SameStates
<1> HIDE DEF ds
<1>11. /\ SameCells
       /\ \A c \in DOMAIN cells : /\ cells'[c].reserve = ds[c].reserve
                                  /\ cells'[c].reserved_out = ds[c].reserved_out
                                  /\ cells'[c].state = ds[c].state
  BY <1>1, <1>9, Stamped DEF n
<1>12. Unheld(cells') /\ StatesKept(cells')
  BY <1>3, <1>6, <1>7, <1>9, <1>10, <1>11 DEF Unheld, StatesKept
<1>13. Paid(cells', from, amount, to, amount, to, 0)
  <2>1. ASSUME NEW c \in 0..(n - 1)
        PROVE  ds[c].reserve = cells[c].reserve - At(c, from, amount) + At(c, to, amount)
                                 + At(c, to, 0)
    <3>1. cells[c].reserve \in Nat /\ amount \in Nat
      BY <1>3, <1>5
    <3>2. paid[c].reserve = cells[c].reserve - At(c, from, amount)
      BY <1>6, <3>1 DEF At
    <3>3. At(c, from, amount) \in Nat
      BY <3>1 DEF At
    <3> QED
      BY <1>9, <3>1, <3>2, <3>3 DEF At
  <2> QED
    BY <1>3, <1>11, <2>1 DEF Paid
<1> QED
  BY <1>1, <1>3, <1>4, <1>11, <1>12, <1>13 DEF Transferred

\* A consolidation (pdtl_consolidate_cell).
LEMMA ConsolidateEffect ==
    ASSUME SolvencyInv, SupplyFits, NEW target \in CellArgs, NEW source \in CellArgs,
           ConsolidateCell(target, source), ~NothingMoves
    PROVE  /\ SameCells /\ target \in DOMAIN cells /\ source \in DOMAIN cells
           /\ Merged(target, source)
<1> DEFINE moved == cells[source].reserve
           credited == Credit(cells, target, moved)
           ds == [credited EXCEPT ![source].reserve = 0, ![source].state = "closed"]
           n == cell_count
<1>1. /\ cells' = Stamp(ds, {source, target})
      /\ UNCHANGED <<cell_count, receipts, receipt_count, totals>>
      /\ IsCell(source) /\ IsCell(target) /\ source # target
      /\ cells[source].reserved_out = 0
  BY DEF ConsolidateCell, ConsolidateError, Idle, Reject, NothingMoves
<1>2. TypeOK
  BY DEF SolvencyInv, ReferenceInv
<1>3. /\ source \in 0..(n - 1) /\ target \in 0..(n - 1)
      /\ n \in Nat /\ DOMAIN cells = 0..(n - 1) /\ cells \in [0..(n - 1) -> CellRecord]
  BY <1>1, <1>2, Slots, Holdings
<1>4. \A c \in 0..(n - 1) : /\ cells[c] \in CellRecord /\ cells[c].reserve \in Amount
                            /\ cells[c].reserve \in Nat
  BY <1>3, CellHolds
<1> HIDE DEF n
<1>5. moved + cells[target].reserve < AmountModulus
  <2>1. moved + cells[target].reserve <= Reserves(cells, n)
    BY <1>1, <1>3, TwoReserves
  <2>2. Reserves(cells, n) \in Nat /\ Reserves(cells, n) < AmountModulus /\ AmountModulus \in Nat
    BY Room DEF n
  <2>3. moved \in Nat /\ cells[target].reserve \in Nat
    BY <1>3, <1>4
  <2> HIDE DEF moved
  <2> QED
    BY ONLY <2>1, <2>2, <2>3
<1>6. Plus(cells[target].reserve, moved) = cells[target].reserve + moved
  BY <1>3, <1>4, <1>5, NoWrap
<1>7. /\ credited \in [0..(n - 1) -> CellRecord]
      /\ credited[target].reserve = cells[target].reserve + moved
      /\ \A j \in 0..(n - 1) : /\ j # target => credited[j] = cells[j]
                               /\ credited[j].reserved_out = cells[j].reserved_out
                               /\ credited[j].state = cells[j].state
  <2>1. credited \in [0..(n - 1) -> CellRecord]
    BY <1>3, <1>4, CellMutations
  <2>2. \A j \in 0..(n - 1) : credited[j].state = cells[j].state
    <3>1. SameStates(cells, credited, n)
      BY <1>3, <1>4, MutationsKeepState
    <3> QED
      BY <3>1 DEF SameStates
  <2> QED
    BY <1>3, <1>4, <1>6, <2>1, <2>2 DEF Credit, CellRecord
<1> HIDE DEF credited
<1>8. /\ ds \in [0..(n - 1) -> CellRecord]
      /\ ds[source].reserve = 0 /\ ds[source].state = "closed"
      /\ ds[source].reserved_out = credited[source].reserved_out
      /\ \A j \in 0..(n - 1) : j # source => ds[j] = credited[j]
  <2>1. credited[source] \in CellRecord
    BY <1>3, <1>7
  <2>2. ds \in [0..(n - 1) -> CellRecord]
    BY <1>3, <1>7, <2>1, AmountClosed DEF CellRecord
  <2>3. /\ ds[source].reserve = 0 /\ ds[source].state = "closed"
        /\ ds[source].reserved_out = credited[source].reserved_out
    BY <1>3, <1>7, <2>1 DEF CellRecord
  <2>4. \A j \in 0..(n - 1) : j # source => ds[j] = credited[j]
    BY <1>3, <1>7
  <2> QED
    BY <2>2, <2>3, <2>4
<1> HIDE DEF ds
<1>9. /\ SameCells
      /\ \A c \in DOMAIN cells : /\ cells'[c].reserve = ds[c].reserve
                                 /\ cells'[c].reserved_out = ds[c].reserved_out
                                 /\ cells'[c].state = ds[c].state
  BY <1>1, <1>8, Stamped DEF n
<1>10. Unheld(cells')
  BY <1>3, <1>7, <1>8, <1>9 DEF Unheld
<1>11. \A c \in DOMAIN cells :
          cells'[c].state = IF c = source THEN "closed" ELSE cells[c].state
  BY <1>3, <1>7, <1>8, <1>9
<1>12. Paid(cells', source, moved, target, moved, target, 0)
  <2>1. ASSUME NEW c \in 0..(n - 1)
        PROVE  ds[c].reserve = cells[c].reserve - At(c, source, moved) + At(c, target, moved)
                                 + At(c, target, 0)
    <3>1. CASE c = source
      BY <1>1, <1>4, <1>8, <3>1 DEF At
    <3>2. CASE c = target
      BY <1>1, <1>3, <1>4, <1>7, <1>8, <3>2 DEF At
    <3>3. CASE c # source /\ c # target
      BY <1>4, <1>7, <1>8, <3>3 DEF At
    <3> QED
      BY <3>1, <3>2, <3>3
  <2> QED
    BY <1>3, <1>9, <2>1 DEF Paid
<1> QED
  BY <1>1, <1>3, <1>9, <1>10, <1>11, <1>12 DEF Merged

\* A new receipt commits its gross (pdtl_issue_receipt).
LEMMA IssueEffect ==
    ASSUME SolvencyInv, SupplyFits, NEW origin \in CellArgs, NEW beneficiary \in CellArgs,
           NEW gross \in CallAmounts, IssueReceipt(origin, beneficiary, gross), ~NothingMoves
    PROVE  /\ SameCells /\ origin \in DOMAIN cells /\ beneficiary \in DOMAIN cells
           /\ Issued(origin, beneficiary, gross)
<1> DEFINE ds == Reserve(cells, origin, gross)
           n == cell_count
<1>1. /\ cells' = Stamp(ds, {origin}) /\ UNCHANGED <<cell_count, totals>>
      /\ receipt_count' = receipt_count + 1
      /\ receipts' = [r \in 0..receipt_count |->
            IF r = receipt_count THEN NewReceipt(origin, beneficiary, gross) ELSE receipts[r]]
      /\ IsCell(origin) /\ IsCell(beneficiary) /\ ~(Available(origin) < gross)
      /\ cells[origin].state = "open"
  BY DEF IssueReceipt, IssueError, Reject, NothingMoves
<1>2. TypeOK
  BY DEF SolvencyInv, ReferenceInv
<1>3. /\ origin \in 0..(n - 1) /\ beneficiary \in 0..(n - 1)
      /\ gross \in Amount /\ gross \in Nat
      /\ n \in Nat /\ DOMAIN cells = 0..(n - 1) /\ cells \in [0..(n - 1) -> CellRecord]
  BY <1>1, <1>2, Slots, LedgerAssumption, AmountClosed, Holdings
<1>4. Spare(origin, gross)
  BY <1>1, <1>3, AvailableMeans DEF Spare
<1>5. /\ cells[origin] \in CellRecord
      /\ cells[origin].reserve \in Nat /\ cells[origin].reserve < AmountModulus
      /\ cells[origin].reserved_out \in Amount /\ cells[origin].reserved_out \in Nat
      /\ cells[origin].reserved_out < AmountModulus /\ MinReserveOf(origin) \in Nat
      /\ AmountModulus \in Nat
  BY <1>3, CellHolds, Room
<1>6. Plus(cells[origin].reserved_out, gross) = cells[origin].reserved_out + gross
  <2>1. cells[origin].reserved_out + gross < AmountModulus
    BY <1>3, <1>4, <1>5 DEF Spare
  <2> QED
    BY <1>3, <1>5, <2>1, NoWrap
<1> HIDE DEF n
<1>7. /\ ds \in [0..(n - 1) -> CellRecord]
      /\ ds[origin].reserved_out = cells[origin].reserved_out + gross
      /\ ds[origin].reserve = cells[origin].reserve
      /\ \A j \in 0..(n - 1) : j # origin => ds[j] = cells[j]
  <2>1. ds \in [0..(n - 1) -> CellRecord]
    BY <1>3, CellMutations
  <2> QED
    BY <1>3, <1>5, <1>6, <2>1 DEF Reserve, CellRecord
<1>8. \A j \in 0..(n - 1) : ds[j].state = cells[j].state
  <2>1. SameStates(cells, ds, n)
    BY <1>3, MutationsKeepState
  <2> QED
    BY <2>1 DEF SameStates
<1> HIDE DEF ds
<1>9. /\ SameCells
      /\ \A c \in DOMAIN cells : /\ cells'[c].reserve = ds[c].reserve
                                 /\ cells'[c].reserved_out = ds[c].reserved_out
                                 /\ cells'[c].state = ds[c].state
  BY <1>1, <1>7, Stamped DEF n
<1>10. Unpaid(cells') /\ StatesKept(cells')
  BY <1>3, <1>7, <1>8, <1>9 DEF Unpaid, StatesKept
<1>11. Held(cells', origin, gross)
  BY <1>3, <1>7, <1>9, CellHolds DEF Held, At
<1> QED
  BY <1>1, <1>3, <1>4, <1>9, <1>10, <1>11 DEF Issued

\* A cancellation gives the commitment back (pdtl_cancel_receipt).
LEMMA CancelEffect ==
    ASSUME SolvencyInv, SupplyFits, NEW r \in ReceiptArgs, CancelReceipt(r), ~NothingMoves
    PROVE  SameCells /\ r \in DOMAIN receipts /\ Cancelled(r)
<1> DEFINE origin == receipts[r].origin_cell
           gross == receipts[r].gross
           ds == Release(cells, origin, gross)
           n == cell_count
<1>1. /\ cells' = Stamp(ds, {origin}) /\ UNCHANGED <<cell_count, receipt_count, totals>>
      /\ receipts' = [receipts EXCEPT ![r].paid_by_cell = NoIndex, ![r].status = "cancelled"]
      /\ IsReceipt(r) /\ receipts[r].status = "pending" /\ IsCell(origin)
      /\ ~(cells[origin].reserved_out < gross)
  BY DEF CancelReceipt, CancelError, Reject, NothingMoves
<1>2. TypeOK
  BY DEF SolvencyInv, ReferenceInv
<1>3. r \in DOMAIN receipts /\ receipts[r] \in ReceiptRecord
  BY <1>1, <1>2, Slots
<1>4. /\ n \in Nat /\ DOMAIN cells = 0..(n - 1) /\ cells \in [0..(n - 1) -> CellRecord]
  BY Holdings
<1>5. origin \in 0..(n - 1) /\ gross \in Amount /\ gross \in Nat
  BY <1>1, <1>2, <1>3, <1>4, Slots, AmountClosed DEF ReceiptRecord, CellArgs
<1>6. cells[origin].reserved_out \in Nat /\ gross <= cells[origin].reserved_out
  BY <1>1, <1>4, <1>5, CellHolds
<1> HIDE DEF origin, gross, n
<1>7. /\ ds \in [0..(n - 1) -> CellRecord]
      /\ ds[origin].reserved_out = cells[origin].reserved_out - gross
      /\ \A j \in 0..(n - 1) : j # origin => ds[j] = cells[j]
      /\ \A j \in 0..(n - 1) : ds[j].reserve = cells[j].reserve
  BY <1>4, <1>5, <1>6, ReleaseReserves
<1>8. \A j \in 0..(n - 1) : ds[j].state = cells[j].state
  <2>1. SameStates(cells, ds, n)
    BY <1>4, <1>5, MutationsKeepState
  <2> QED
    BY <2>1 DEF SameStates
<1> HIDE DEF ds
<1>9. /\ SameCells
      /\ \A c \in DOMAIN cells : /\ cells'[c].reserve = ds[c].reserve
                                 /\ cells'[c].reserved_out = ds[c].reserved_out
                                 /\ cells'[c].state = ds[c].state
  BY <1>1, <1>7, Stamped DEF n
<1>10. Unpaid(cells') /\ StatesKept(cells')
  BY <1>4, <1>7, <1>8, <1>9 DEF Unpaid, StatesKept
<1>11. Held(cells', origin, -gross)
  BY <1>4, <1>5, <1>7, <1>9, CellHolds DEF Held, At
<1> QED
  BY <1>1, <1>3, <1>6, <1>9, <1>10, <1>11 DEF Cancelled, origin, gross

\* What a payment does to the reserves, and that it leaves the states alone.
FeeAdded(cs, ds, n, fee_cell, fee) ==
    \A j \in 0..(n - 1) : /\ ds[j].reserve = cs[j].reserve + FeeCredit(j, fee_cell, fee)
                          /\ ds[j].state = cs[j].state

PaymentMade(cs, ds, n, payer, gross, to, net, fee_cell, fee) ==
    \A j \in 0..(n - 1) :
        /\ ds[j].reserve = cs[j].reserve - At(j, payer, gross) + At(j, to, net)
                             + FeeCredit(j, fee_cell, fee)
        /\ ds[j].state = cs[j].state

\* The fee goes to the fee cell if there is one.
LEMMA FeeEffect ==
    ASSUME NEW n \in Nat, NEW cs \in [0..(n - 1) -> CellRecord], NEW fee_cell,
           NEW fee \in Amount, fee_cell # NoIndex => fee_cell \in 0..(n - 1),
           Reserves(cs, n) + fee < AmountModulus
    PROVE  FeeAdded(cs, FeePaid(cs, fee_cell, fee), n, fee_cell, fee)
<1>1. fee \in Nat /\ \A j \in 0..(n - 1) : cs[j].reserve \in Nat
  BY AmountClosed, ReservesBound
<1>2. CASE fee_cell # NoIndex /\ fee > 0
  <2> DEFINE ds == Credit(cs, fee_cell, fee)
  <2>1. /\ ds[fee_cell].reserve = cs[fee_cell].reserve + fee
        /\ \A j \in 0..(n - 1) : j # fee_cell => ds[j] = cs[j]
    BY <1>2, CreditReserves
  <2>2. \A j \in 0..(n - 1) : ds[j].state = cs[j].state
    <3>1. SameStates(cs, ds, n)
      BY <1>2, MutationsKeepState
    <3> QED
      BY <3>1 DEF SameStates
  <2>3. FeePaid(cs, fee_cell, fee) = ds
    BY <1>2 DEF FeePaid
  <2> HIDE DEF ds
  <2> QED
    BY <1>1, <1>2, <2>1, <2>2, <2>3 DEF FeeAdded, FeeCredit, At
<1>3. CASE ~(fee_cell # NoIndex /\ fee > 0)
  <2>1. FeePaid(cs, fee_cell, fee) = cs /\ (fee_cell = NoIndex \/ fee = 0)
    BY <1>1, <1>3 DEF FeePaid
  <2> QED
    BY <1>1, <2>1 DEF FeeAdded, FeeCredit, At
<1> QED
  BY <1>2, <1>3

\* The payments of a settlement, whichever of its cells coincide.
LEMMA PaymentEffect ==
    ASSUME NEW n \in Nat, NEW cs \in [0..(n - 1) -> CellRecord],
           NEW payer \in 0..(n - 1), NEW to \in 0..(n - 1), NEW fee_cell,
           NEW gross \in Amount, NEW net \in Amount, NEW fee \in Amount,
           fee + net = gross, gross <= cs[payer].reserve,
           fee_cell # NoIndex => fee_cell \in 0..(n - 1),
           Reserves(cs, n) < AmountModulus
    PROVE  PaymentMade(cs, SettlementPaid(cs, payer, to, fee_cell, gross, net, fee), n,
                       payer, gross, to, net, fee_cell, fee)
<1> DEFINE paid == Debit(cs, payer, gross)
           credited == Credit(paid, to, net)
           ds == FeePaid(credited, fee_cell, fee)
<1>1. /\ gross \in Nat /\ net \in Nat /\ fee \in Nat /\ AmountModulus \in Nat
      /\ Reserves(cs, n) \in Nat
      /\ \A j \in 0..(n - 1) : cs[j].reserve \in Nat
  BY AmountClosed, AmountAssumption, ReservesBound
<1>2. /\ paid \in [0..(n - 1) -> CellRecord]
      /\ paid[payer].reserve = cs[payer].reserve - gross
      /\ \A j \in 0..(n - 1) : j # payer => paid[j] = cs[j]
      /\ Reserves(paid, n) = Reserves(cs, n) - gross
  BY DebitReserves
<1>3. \A j \in 0..(n - 1) : paid[j].state = cs[j].state
  <2>1. SameStates(cs, paid, n)
    BY MutationsKeepState
  <2> QED
    BY <2>1 DEF SameStates
<1> HIDE DEF paid
<1>4. Reserves(paid, n) + net < AmountModulus
  BY <1>1, <1>2
<1>5. /\ credited \in [0..(n - 1) -> CellRecord]
      /\ credited[to].reserve = paid[to].reserve + net
      /\ \A j \in 0..(n - 1) : j # to => credited[j] = paid[j]
      /\ Reserves(credited, n) = Reserves(paid, n) + net
  BY <1>2, <1>4, CreditReserves
<1>6. \A j \in 0..(n - 1) : credited[j].state = paid[j].state
  <2>1. n \in Nat /\ paid \in [0..(n - 1) -> CellRecord] /\ to \in 0..(n - 1) /\ net \in Amount
    BY <1>2
  <2>2. SameStates(paid, credited, n)
    BY <2>1, MutationsKeepState
  <2> QED
    BY <2>2 DEF SameStates
<1> HIDE DEF credited
<1>7. Reserves(credited, n) + fee < AmountModulus
  BY <1>1, <1>2, <1>5
<1>8. FeeAdded(credited, ds, n, fee_cell, fee)
  BY <1>5, <1>7, FeeEffect
<1>9. SettlementPaid(cs, payer, to, fee_cell, gross, net, fee) = ds
  BY DEF SettlementPaid, ds, credited, paid
<1> HIDE DEF ds
<1>10. ASSUME NEW j \in 0..(n - 1)
       PROVE  credited[j].reserve = cs[j].reserve - At(j, payer, gross) + At(j, to, net)
  <2>1. paid[j].reserve = cs[j].reserve - At(j, payer, gross) /\ paid[j].reserve \in Int
    BY <1>1, <1>2 DEF At
  <2>2. credited[j].reserve = paid[j].reserve + At(j, to, net)
    BY <1>1, <1>5, <2>1 DEF At
  <2> QED
    BY <2>1, <2>2
<1> QED
  BY <1>3, <1>6, <1>8, <1>9, <1>10 DEF FeeAdded, PaymentMade

\* A settlement (pdtl_settle_receipt, pdtl_apply_settlement).
LEMMA SettleEffect ==
    ASSUME SolvencyInv, SupplyFits, NEW r \in ReceiptArgs, NEW payer \in CellArgs,
           SettleReceipt(r, payer), ~NothingMoves
    PROVE  /\ SameCells /\ r \in DOMAIN receipts /\ payer \in DOMAIN cells
           /\ Settled(r, payer)
<1> DEFINE origin == receipts[r].origin_cell
           to == receipts[r].beneficiary_cell
           gross == receipts[r].gross
           net == receipts[r].net
           fee == receipts[r].fee
           fee_cell == routes[receipts[r].route].fee_cell
           touched == {payer, to, origin, fee_cell}
           ps == SettlementPaid(cells, payer, to, fee_cell, gross, net, fee)
           ds == Release(ps, origin, gross)
           n == cell_count
<1>1. /\ SettleError(r, payer) = "PDTL_OK"
      /\ cells' = SettledCells(receipts[r], payer, fee_cell)
      /\ UNCHANGED <<cell_count, receipt_count, totals>>
      /\ receipts' = [receipts EXCEPT ![r].paid_by_cell = payer, ![r].status = "settled"]
  BY DEF SettleReceipt, Reject, NothingMoves
<1>2. cells' = Stamp(ds, touched)
  BY <1>1 DEF SettledCells, SettlementPaid, FeePaid
<1>3. TypeOK
  BY DEF SolvencyInv, ReferenceInv
<1>4. /\ n \in Nat /\ DOMAIN cells = 0..(n - 1) /\ cells \in [0..(n - 1) -> CellRecord]
  BY Holdings
<1>5. /\ r \in DOMAIN receipts /\ receipts[r] \in ReceiptRecord
      /\ payer \in 0..(n - 1) /\ origin \in 0..(n - 1) /\ to \in 0..(n - 1)
      /\ fee_cell # NoIndex => fee_cell \in 0..(n - 1)
  BY <1>1, <1>3, <1>4, SettlementShape
<1>6. /\ gross \in Amount /\ net \in Amount /\ fee \in Amount
      /\ gross \in Nat /\ fee \in Nat
  BY <1>5, AmountClosed DEF ReceiptRecord
<1>7. /\ receipts[r].status = "pending"
      /\ gross <= cells[payer].reserve
      /\ gross <= cells[origin].reserved_out
      /\ payer # origin /\ gross > 0 =>
            cells[payer].reserve
              >= cells[payer].reserved_out + MinReserveOf(payer) + gross
      /\ fee + net = gross
      /\ receipts[r].route_digest.fee_cell = fee_cell
  BY <1>1, SettlementCovered
<1> HIDE DEF origin, to, gross, net, fee, fee_cell, touched, n
<1>8. Reserves(cells, n) < AmountModulus
  BY Room DEF n
<1>9. /\ n \in Nat /\ cells \in [0..(n - 1) -> CellRecord]
      /\ payer \in 0..(n - 1) /\ to \in 0..(n - 1)
      /\ gross \in Amount /\ net \in Amount /\ fee \in Amount
      /\ fee + net = gross /\ gross <= cells[payer].reserve
      /\ fee_cell # NoIndex => fee_cell \in 0..(n - 1)
      /\ Reserves(cells, n) < AmountModulus
  BY <1>4, <1>5, <1>6, <1>7, <1>8
<1>10. /\ ps \in [0..(n - 1) -> CellRecord]
       /\ \A j \in 0..(n - 1) : ps[j].reserved_out = cells[j].reserved_out
  <2>1. Payment(cells, SettlementPaid(cells, payer, to, fee_cell, gross, net, fee), n,
                payer, gross, fee_cell, fee)
    BY <1>9, SettlementPayment
  <2> QED
    BY <2>1 DEF Payment
<1>11. \A j \in 0..(n - 1) :
          /\ ps[j].reserve = cells[j].reserve - At(j, payer, gross) + At(j, to, net)
                               + FeeCredit(j, fee_cell, fee)
          /\ ps[j].state = cells[j].state
  <2>1. PaymentMade(cells, ps, n, payer, gross, to, net, fee_cell, fee)
    BY <1>9, PaymentEffect
  <2> QED
    BY <2>1 DEF PaymentMade
<1> HIDE DEF ps
<1>12. /\ ds \in [0..(n - 1) -> CellRecord]
       /\ ds[origin].reserved_out = ps[origin].reserved_out - gross
       /\ \A j \in 0..(n - 1) : j # origin => ds[j] = ps[j]
       /\ \A j \in 0..(n - 1) : ds[j].reserve = ps[j].reserve
       /\ \A j \in 0..(n - 1) : ds[j].state = ps[j].state
  <2>1. /\ n \in Nat /\ ps \in [0..(n - 1) -> CellRecord] /\ origin \in 0..(n - 1)
        /\ gross \in Amount /\ gross <= ps[origin].reserved_out
    BY <1>4, <1>5, <1>6, <1>7, <1>10
  <2>2. SameStates(ps, ds, n)
    BY <2>1, MutationsKeepState
  <2>3. \A j \in 0..(n - 1) : ds[j].state = ps[j].state
    BY <2>2 DEF SameStates
  <2> QED
    BY <2>1, <2>3, ReleaseReserves
<1> HIDE DEF ds
<1>13. /\ SameCells
       /\ \A c \in DOMAIN cells : /\ cells'[c].reserve = ds[c].reserve
                                  /\ cells'[c].reserved_out = ds[c].reserved_out
                                  /\ cells'[c].state = ds[c].state
  BY <1>1, <1>2, <1>12, Stamped DEF n
<1>14. StatesKept(cells')
  BY <1>4, <1>11, <1>12, <1>13 DEF StatesKept
<1>15. Held(cells', origin, -gross)
  <2>1. /\ DOMAIN cells = 0..(n - 1)
        /\ \A c \in 0..(n - 1) : cells'[c].reserved_out = ds[c].reserved_out
        /\ \A c \in 0..(n - 1) : cells[c].reserved_out \in Nat
    BY <1>4, <1>13, CellHolds
  <2>2. ASSUME NEW c \in 0..(n - 1)
        PROVE  ds[c].reserved_out = cells[c].reserved_out + At(c, origin, -gross)
    <3>1. CASE c = origin
      BY <1>6, <1>10, <1>12, <2>1, <3>1 DEF At
    <3>2. CASE c # origin
      BY <1>10, <1>12, <2>1, <3>2 DEF At
    <3> QED
      BY <3>1, <3>2
  <2> QED
    BY <2>1, <2>2 DEF Held
<1>16. SettledFor(cells', receipts[r], payer, fee_cell)
  BY <1>4, <1>11, <1>12, <1>13 DEF SettledFor, gross, to, net, fee
<1>17. payer # origin => Spare(payer, gross)
  BY <1>7 DEF Spare
<1> QED
  BY <1>1, <1>4, <1>5, <1>7, <1>13, <1>14, <1>15, <1>16, <1>17 DEF Settled, origin, gross

\* A new cell (pdtl_create_cell).
LEMMA CreateEffect ==
    ASSUME SolvencyInv, SupplyFits, NEW owner, NEW asset, NEW route, NEW policy,
           CreateCell(owner, asset, route, policy), ~NothingMoves
    PROVE  CellOpened
<1>1. /\ cells' = [i \in 0..cell_count |->
                      IF i = cell_count THEN NewCell(owner, asset, route, policy) ELSE cells[i]]
      /\ cell_count' = cell_count + 1 /\ UNCHANGED <<receipts, receipt_count, totals>>
  BY DEF CreateCell, Reject, NothingMoves
<1>2. cell_count \in Nat /\ DOMAIN cells = 0..(cell_count - 1)
  BY Holdings
<1> QED
  BY <1>1, <1>2 DEF CellOpened, NewCell

-----------------------------------------------------------------------------
(***************************************************************************)
(* Every step of a solvent ledger is one of the effects: the mutations in  *)
(* 64 bits, on cells that may coincide, do what the arithmetic says.       *)
(***************************************************************************)
LEMMA NextCall ==
    ASSUME SolvencyInv, SupplyFits, [Next]_vars
    PROVE  Call
<1> SUFFICES ASSUME ~NothingMoves PROVE Call
  BY DEF Call
<1>1. CASE Setup
  <2>1. \E o \in OwnerNames \cup {NoName}, a \in AssetNames, n \in RouteNames,
           p \in PolicyNames : CreateCell(o, a, n, p)
    <3>1. \A n, f, m, b : ~AddPolicy(n, f, m, b)
      BY DEF AddPolicy, Reject, NothingMoves
    <3>2. \A n, a, p, b, c : ~AddRoute(n, a, p, b, c)
      BY DEF AddRoute, Reject, NothingMoves
    <3> QED
      BY <1>1, <3>1, <3>2 DEF Setup
  <2> QED
    BY <2>1, CreateEffect DEF Call
<1>2. CASE Movement
  BY <1>2, DepositEffect, TransferEffect, ConsolidateEffect, WithdrawEffect DEF Movement, Call
<1>3. CASE ReceiptLife
  BY <1>3, IssueEffect, SettleEffect, CancelEffect DEF ReceiptLife, Call
<1>4. CASE RouteControl \/ ClearError \/ UNCHANGED vars
  BY <1>4 DEF RouteControl, UpdateRouteFee, CloseRoute, Reject, ClearError, vars, NothingMoves
<1> QED
  BY <1>1, <1>2, <1>3, <1>4 DEF Next

-----------------------------------------------------------------------------
(* What a call may not take.                                               *)

\* The minimum reserve of a cell is the one of its first day.
LEMMA MinReserveKept ==
    ASSUME SolvencyInv, [Next]_vars, NEW c \in DOMAIN cells
    PROVE  policies'[cells'[c].policy].min_reserve = MinReserveOf(c)
<1>1. TypeOK /\ CellsRefer
  BY DEF SolvencyInv, ReferenceInv, ReferencesOK
<1>2. cells'[c].policy = cells[c].policy
  BY <1>1, CellChanges DEF CellStep, CellsKept, SameIdentity
<1>3. policies'[cells[c].policy] = policies[cells[c].policy]
  BY <1>1, PolicyChanges DEF PoliciesKept, CellsRefer, IsPolicy
<1> QED
  BY <1>2, <1>3 DEF MinReserveOf

\* What a cell that stays open keeps.
KeepsFloor(c) ==
    \/ cells'[c].reserve >= cells[c].reserve
    \/ cells'[c].state # "open"
    \/ cells'[c].reserve >= cells'[c].reserved_out + MinReserveOf(c)

\* A cell that has an amount to spare keeps its floor when it pays it.
LEMMA SpareKeepsFloor ==
    ASSUME SolvencyInv, NEW c \in DOMAIN cells, NEW amount \in Nat, Spare(c, amount),
           cells'[c].reserved_out = cells[c].reserved_out,
           NEW gain \in Nat, cells'[c].reserve = cells[c].reserve - amount + gain
    PROVE  KeepsFloor(c)
<1>1. /\ cells[c].reserve \in Nat /\ cells[c].reserved_out \in Nat
      /\ MinReserveOf(c) \in Nat
  BY CellHolds
<1>2. CASE amount = 0
  BY <1>1, <1>2 DEF KeepsFloor
<1>3. CASE amount > 0
  BY <1>1, <1>3 DEF KeepsFloor, Spare
<1> QED
  BY <1>2, <1>3

\* The amounts of the effects are natural numbers.
LEMMA EffectAmounts ==
    ASSUME TypeOK
    PROVE  /\ \A amount \in CallAmounts : amount \in Nat
           /\ \A r \in DOMAIN receipts : /\ receipts[r].gross \in Nat
                                         /\ receipts[r].net \in Nat /\ receipts[r].fee \in Nat
           /\ \A c, a, amount : amount \in Nat => At(c, a, amount) \in Nat
           /\ \A c, a, amount : amount \in Nat => FeeCredit(c, a, amount) \in Nat
<1>1. \A amount \in CallAmounts : amount \in Nat
  BY LedgerAssumption, AmountClosed
<1>2. \A r \in DOMAIN receipts : receipts[r] \in ReceiptRecord
  BY DEF TypeOK, ReceiptsTyped
<1>3. \A r \in DOMAIN receipts : /\ receipts[r].gross \in Nat
                                 /\ receipts[r].net \in Nat /\ receipts[r].fee \in Nat
  BY <1>2, AmountClosed DEF ReceiptRecord
<1>4. \A c, a, amount : amount \in Nat => At(c, a, amount) \in Nat
  BY DEF At
<1> QED
  BY <1>1, <1>3, <1>4 DEF FeeCredit

\* A settlement lowers the reserve of the payer only, by what it has.
LEMMA SettledKeepsFloor ==
    ASSUME SolvencyInv, NEW r \in DOMAIN receipts, NEW payer \in DOMAIN cells,
           Settled(r, payer), NEW c \in DOMAIN cells
    PROVE  KeepsFloor(c)
<1> DEFINE gross == receipts[r].gross
           origin == receipts[r].origin_cell
           gain == At(c, receipts[r].beneficiary_cell, receipts[r].net)
                     + FeeCredit(c, receipts[r].route_digest.fee_cell, receipts[r].fee)
<1>1. gross \in Nat /\ gain \in Nat
  BY EffectAmounts DEF SolvencyInv, ReferenceInv
<1>2. /\ cells[c].reserve \in Nat /\ cells[c].reserved_out \in Nat
      /\ MinReserveOf(c) \in Nat
      /\ cells[c].reserved_out > 0 =>
            cells[c].reserve >= cells[c].reserved_out + MinReserveOf(c)
  BY CellHolds
<1>3. /\ cells'[c].reserve = cells[c].reserve - At(c, payer, gross)
                               + At(c, receipts[r].beneficiary_cell, receipts[r].net)
                               + FeeCredit(c, receipts[r].route_digest.fee_cell, receipts[r].fee)
      /\ cells'[c].reserved_out = cells[c].reserved_out + At(c, origin, -gross)
      /\ gross <= cells[origin].reserved_out
      /\ payer # origin => Spare(payer, gross)
  BY DEF Settled, SettledFor, Held
<1>4. At(c, payer, gross) \in Nat
  BY <1>1 DEF At
<1>5. cells'[c].reserve = cells[c].reserve - At(c, payer, gross) + gain
  <2>1. /\ At(c, receipts[r].beneficiary_cell, receipts[r].net) \in Nat
        /\ FeeCredit(c, receipts[r].route_digest.fee_cell, receipts[r].fee) \in Nat
    BY EffectAmounts DEF SolvencyInv, ReferenceInv
  <2> QED
    BY <1>2, <1>3, <1>4, <2>1
<1> HIDE DEF gain, gross, origin
<1>6. CASE c # payer
  BY <1>1, <1>2, <1>5, <1>6 DEF At, KeepsFloor
<1>7. CASE c = payer /\ payer # origin
  <2>1. /\ Spare(c, gross) /\ cells'[c].reserve = cells[c].reserve - gross + gain
        /\ cells'[c].reserved_out = cells[c].reserved_out
    BY <1>2, <1>3, <1>5, <1>7 DEF At
  <2> QED
    BY <1>1, <2>1, SpareKeepsFloor
<1>8. CASE c = payer /\ payer = origin
  <2>1. /\ cells'[c].reserve = cells[c].reserve - gross + gain
        /\ cells'[c].reserved_out = cells[c].reserved_out - gross
        /\ gross <= cells[c].reserved_out
    BY <1>1, <1>2, <1>3, <1>5, <1>8 DEF At
  <2>2. CASE gross = 0
    BY <1>1, <1>2, <2>1, <2>2 DEF KeepsFloor
  <2>3. CASE gross > 0
    BY <1>1, <1>2, <2>1, <2>3 DEF KeepsFloor
  <2> QED
    BY <1>1, <2>2, <2>3
<1> QED
  BY <1>6, <1>7, <1>8

\* So does every other call.
LEMMA CallKeepsFloor ==
    ASSUME SolvencyInv, Call, NEW c \in DOMAIN cells
    PROVE  KeepsFloor(c)
<1>1. cells[c].reserve \in Nat /\ TypeOK
  BY CellHolds DEF SolvencyInv, ReferenceInv
<1>2. CASE NothingMoves \/ CellOpened
  BY <1>1, <1>2 DEF NothingMoves, CellOpened, KeepsFloor
<1>3. ASSUME NEW d \in DOMAIN cells, NEW amount \in CallAmounts, Deposited(d, amount)
      PROVE  KeepsFloor(c)
  <2>1. At(c, d, amount) \in Nat
    BY <1>1, EffectAmounts
  <2> QED
    BY <1>1, <1>3, <2>1 DEF Deposited, KeepsFloor
<1>4. ASSUME NEW d \in DOMAIN cells, NEW amount \in CallAmounts, Withdrawn(d, amount)
      PROVE  KeepsFloor(c)
  <2>1. /\ cells'[c].reserve = cells[c].reserve - At(c, d, amount) /\ Spare(d, amount)
        /\ cells'[c].reserved_out = cells[c].reserved_out /\ amount \in Nat
    BY <1>1, <1>4, EffectAmounts DEF Withdrawn, Unheld
  <2>2. CASE c = d
    <3>1. cells'[c].reserve = cells[c].reserve - amount + 0
      BY <1>1, <2>1, <2>2 DEF At
    <3> QED
      BY <2>1, <2>2, <3>1, SpareKeepsFloor
  <2>3. CASE c # d
    BY <1>1, <2>1, <2>3 DEF At, KeepsFloor
  <2> QED
    BY <2>2, <2>3
<1>5. ASSUME NEW f \in DOMAIN cells, NEW t \in DOMAIN cells, NEW amount \in CallAmounts,
             Transferred(f, t, amount)
      PROVE  KeepsFloor(c)
  <2>1. /\ cells'[c].reserve = cells[c].reserve - At(c, f, amount) + At(c, t, amount) + At(c, t, 0)
        /\ Spare(f, amount) /\ cells'[c].reserved_out = cells[c].reserved_out
        /\ amount \in Nat /\ At(c, t, amount) \in Nat /\ At(c, t, 0) = 0
    BY <1>1, <1>5, EffectAmounts DEF Transferred, Paid, Unheld, At
  <2>2. CASE c = f
    <3>1. cells'[c].reserve = cells[c].reserve - amount + At(c, t, amount)
      BY <1>1, <2>1, <2>2 DEF At
    <3> QED
      BY <2>1, <2>2, <3>1, SpareKeepsFloor
  <2>3. CASE c # f
    <3>1. At(c, f, amount) = 0
      BY <2>3 DEF At
    <3> QED
      BY <1>1, <2>1, <3>1 DEF KeepsFloor
  <2> QED
    BY <2>2, <2>3
<1>6. ASSUME NEW t \in DOMAIN cells, NEW s \in DOMAIN cells, Merged(t, s)
      PROVE  KeepsFloor(c)
  <2>1. CASE c = s
    BY <1>6, <2>1 DEF Merged, KeepsFloor
  <2>2. CASE c # s
    <3>1. cells[s].reserve \in Nat
      BY CellHolds
    <3>2. cells'[c].reserve = cells[c].reserve - At(c, s, cells[s].reserve)
                                + At(c, t, cells[s].reserve) + At(c, t, 0)
      BY <1>6 DEF Merged, Paid
    <3>3. /\ At(c, s, cells[s].reserve) = 0 /\ At(c, t, cells[s].reserve) \in Nat
          /\ At(c, t, 0) = 0
      BY <2>2, <3>1 DEF At
    <3> QED
      BY <1>1, <3>2, <3>3 DEF KeepsFloor
  <2> QED
    BY <2>1, <2>2
<1>7. ASSUME NEW o \in DOMAIN cells, NEW b \in DOMAIN cells, NEW gross \in CallAmounts,
             Issued(o, b, gross)
      PROVE  KeepsFloor(c)
  BY <1>1, <1>7 DEF Issued, Unpaid, KeepsFloor
<1>8. ASSUME NEW r \in DOMAIN receipts, Cancelled(r)
      PROVE  KeepsFloor(c)
  BY <1>1, <1>8 DEF Cancelled, Unpaid, KeepsFloor
<1> QED
  BY <1>2, <1>3, <1>4, <1>5, <1>6, <1>7, <1>8, SettledKeepsFloor DEF Call

(***************************************************************************)
(* Whoever lowers the reserve of a cell that stays open, by withdrawal,    *)
(* transfer, or paying a receipt of its own or of another cell, leaves its *)
(* commitments and minimum reserve behind.                                 *)
(***************************************************************************)
THEOREM FloorAlwaysRespected == SupplyFits => (Spec => FloorRespected)
<1> SUFFICES ASSUME SupplyFits PROVE Spec => FloorRespected
  OBVIOUS
<1> DEFINE Floor == \A c \in DOMAIN cells :
                       cells'[c].reserve < cells[c].reserve /\ cells'[c].state = "open" =>
                          cells'[c].reserve >= cells'[c].reserved_out + MinReserveOf(c)'
<1>1. ASSUME SolvencyInv, [Next]_vars PROVE Floor
  <2>1. SUFFICES ASSUME NEW c \in DOMAIN cells,
                        cells'[c].reserve < cells[c].reserve, cells'[c].state = "open"
                 PROVE  cells'[c].reserve
                          >= cells'[c].reserved_out + policies'[cells'[c].policy].min_reserve
    BY DEF MinReserveOf
  <2>2. KeepsFloor(c)
    BY <1>1, NextCall, CallKeepsFloor
  <2>3. c \in DOMAIN cells' /\ cells'[c].reserve \in Nat /\ cells[c].reserve \in Nat
    <3>1. SolvencyInv'
      BY <1>1, NextSolvent
    <3>2. TypeOK' /\ TypeOK
      BY <1>1, <3>1 DEF SolvencyInv, ReferenceInv
    <3>3. c \in DOMAIN cells'
      BY <1>1, <3>2, CellChanges DEF CellStep, CellsKept
    <3> QED
      BY <1>1, <3>2, <3>3, CellHolds, AmountClosed DEF TypeOK, CellsTyped, CellRecord
  <2> QED
    BY <1>1, <2>1, <2>2, <2>3, MinReserveKept DEF KeepsFloor
<1>2. Spec => []SolvencyInv
  BY SolvencyHolds
<1>3. SolvencyInv /\ [Next]_vars => Floor
  BY <1>1
<1> HIDE DEF Floor
<1>4. Spec => [][Floor]_vars
  BY <1>2, <1>3, PTL DEF Spec
<1> QED
  BY <1>4 DEF FloorRespected, Floor

-----------------------------------------------------------------------------
(* What a call may not prevent.                                            *)

(***************************************************************************)
(* A cell that was consolidated away committed nothing then, and commits   *)
(* nothing ever after: what PendingResolvable needs to be inductive.       *)
(***************************************************************************)
ClosedIdle == \A c \in DOMAIN cells : cells[c].state = "closed" => cells[c].reserved_out = 0

\* Only a consolidation closes a cell, and it wants an idle one; closed cells issue nothing.
LEMMA ClosedIdleStep ==
    ASSUME SolvencyInv, ClosedIdle, Call
    PROVE  ClosedIdle'
<1>1. TypeOK
  BY DEF SolvencyInv, ReferenceInv
<1>2. ASSUME NEW o \in DOMAIN cells, NEW change \in Int, Held(cells', o, change),
             StatesKept(cells'), SameCells,
             cells[o].state = "closed" => change = 0
      PROVE  ClosedIdle'
  <2>1. ASSUME NEW c \in DOMAIN cells, cells[c].state = "closed"
        PROVE  cells'[c].reserved_out = 0
    BY <1>2, <2>1 DEF ClosedIdle, Held, At
  <2> QED
    BY <1>2, <2>1 DEF ClosedIdle, StatesKept, SameCells
<1>3. ASSUME Unheld(cells'), SameCells,
             \A c \in DOMAIN cells : \/ cells'[c].state = cells[c].state
                                     \/ cells[c].reserved_out = 0
      PROVE  ClosedIdle'
  BY <1>3 DEF ClosedIdle, Unheld, SameCells
<1>4. CASE NothingMoves
  BY <1>4 DEF NothingMoves, ClosedIdle
<1>5. CASE CellOpened
  <2>1. cell_count \in Nat /\ DOMAIN cells = 0..(cell_count - 1)
    BY <1>1 DEF TypeOK, CellsTyped
  <2> QED
    BY <1>5, <2>1 DEF CellOpened, ClosedIdle
<1>6. ASSUME SameCells, NEW c \in DOMAIN cells, NEW amount \in CallAmounts,
             Deposited(c, amount) \/ Withdrawn(c, amount)
      PROVE  ClosedIdle'
  <2>1. Unheld(cells') /\ StatesKept(cells')
    BY <1>6 DEF Deposited, Withdrawn
  <2> QED
    BY <1>3, <1>6, <2>1 DEF StatesKept
<1>7. ASSUME SameCells, NEW f \in DOMAIN cells, NEW t \in DOMAIN cells,
             NEW amount \in CallAmounts, Transferred(f, t, amount)
      PROVE  ClosedIdle'
  BY <1>3, <1>7 DEF Transferred, StatesKept
<1>8. ASSUME SameCells, NEW t \in DOMAIN cells, NEW s \in DOMAIN cells, Merged(t, s)
      PROVE  ClosedIdle'
  BY <1>3, <1>8 DEF Merged
<1>9. ASSUME SameCells, NEW o \in DOMAIN cells, NEW b \in DOMAIN cells,
             NEW gross \in CallAmounts, Issued(o, b, gross)
      PROVE  ClosedIdle'
  <2>1. gross \in Int /\ cells[o].state # "closed"
    BY <1>1, <1>9, EffectAmounts DEF Issued
  <2> QED
    BY <1>2, <1>9, <2>1 DEF Issued
<1>10. ASSUME SameCells, NEW r \in DOMAIN receipts,
              Cancelled(r) \/ \E p \in DOMAIN cells : Settled(r, p)
       PROVE  ClosedIdle'
  <2> DEFINE o == receipts[r].origin_cell
             gross == receipts[r].gross
  <2>1. /\ Held(cells', o, -gross) /\ StatesKept(cells')
        /\ receipts[r].status = "pending" /\ gross <= cells[o].reserved_out
    BY <1>10 DEF Cancelled, Settled
  <2>2. gross \in Nat /\ o \in DOMAIN cells
    <3>1. receipts[r] \in ReceiptRecord /\ IsCell(o)
      BY <1>1 DEF SolvencyInv, ReferenceInv, ReferencesOK, ReceiptsRefer, TypeOK, ReceiptsTyped
    <3> QED
      BY <1>1, <3>1, EffectAmounts, Slots DEF ReceiptRecord, CellArgs
  <2>3. cells[o].state = "closed" => gross = 0
    BY <2>1, <2>2 DEF ClosedIdle
  <2> HIDE DEF o, gross
  <2> QED
    BY <1>2, <1>10, <2>1, <2>2, <2>3
<1> QED
  BY <1>4, <1>5, <1>6, <1>7, <1>8, <1>9, <1>10 DEF Call

\* A pending receipt can be cancelled, and its origin can settle it.
LEMMA ResolvableNow ==
    ASSUME SolvencyInv, SupplyFits, ClosedIdle, NEW r \in DOMAIN receipts,
           receipts[r].status = "pending"
    PROVE  /\ CancelError(r) = "PDTL_OK"
           /\ receipts[r].gross > 0 => SettleError(r, receipts[r].origin_cell) = "PDTL_OK"
<1> DEFINE o == receipts[r].origin_cell
           gross == receipts[r].gross
           route == receipts[r].route
<1>1. /\ TypeOK /\ RoutesRefer /\ CellsRefer /\ ReceiptsRefer
      /\ PendingTermsCurrent /\ ClosedRouteQuiet
  BY DEF SolvencyInv, ReferenceInv, ReferencesOK
<1>2. o \in DOMAIN cells /\ ~(cells[o].reserved_out < gross)
  BY PendingCommitted
<1>3. /\ receipts[r] \in ReceiptRecord /\ gross \in Nat /\ IsReceipt(r)
      /\ IsCell(o) /\ IsCell(receipts[r].beneficiary_cell)
      /\ route = cells[o].route /\ receipts[r].policy = cells[o].policy
      /\ receipts[r].asset = cells[o].asset
  <2>1. IsReceipt(r)
    BY <1>1 DEF TypeOK, ReceiptsTyped, IsReceipt
  <2> QED
    BY <1>1, <2>1, EffectAmounts DEF ReceiptsRefer, TypeOK, ReceiptsTyped
<1>4. IsRoute(route) /\ ~routes[route].closed
  <2>1. IsRoute(route)
    BY <1>1 DEF PendingTermsCurrent
  <2>2. RouteHasPendingReceipts(route)
    BY DEF RouteHasPendingReceipts
  <2> QED
    BY <1>1, <2>1, <2>2 DEF ClosedRouteQuiet, IsRoute
<1>5. routes[route].fee_cell # NoIndex => IsCell(routes[route].fee_cell)
  BY <1>1, <1>4 DEF RoutesRefer, IsRoute
<1>6. CancelError(r) = "PDTL_OK"
  BY <1>2, <1>3 DEF CancelError
<1>7. ASSUME gross > 0 PROVE SettleError(r, o) = "PDTL_OK"
  <2>1. /\ cells[o].reserved_out \in Nat /\ cells[o].reserve \in Nat /\ cells[o] \in CellRecord
        /\ MinReserveOf(o) \in Nat
        /\ cells[o].reserved_out > 0 =>
              cells[o].reserve >= cells[o].reserved_out + MinReserveOf(o)
    BY <1>2, CellHolds
  <2>2. cells[o].reserved_out >= gross /\ cells[o].reserve >= gross /\ cells[o].reserved_out > 0
    BY <1>2, <1>3, <1>7, <2>1
  <2>3. cells[o].state = "open"
    BY <1>2, <2>1, <2>2 DEF ClosedIdle, CellRecord
  <2>4. PayerCovers(o, receipts[r]) /\ Compatible(cells[o], receipts[r])
    BY <1>3, <2>2 DEF PayerCovers, Compatible
  <2>5. ShapeError(r, o) = "PDTL_OK"
    BY <1>3, <1>4, <2>3, <2>4 DEF ShapeError
  <2>6. ApplyError(receipts[r]) = "PDTL_OK"
    BY <1>2, <1>3, <1>5 DEF ApplyError
  <2> QED
    BY <2>5, <2>6 DEF SettleError
<1> QED
  BY <1>6, <1>7

(***************************************************************************)
(* No receipt is ever stuck: nothing other cells and routes do, closing    *)
(* and consolidating included, takes from a pending receipt that it can be *)
(* cancelled, or from its origin that it can settle what it reserved for.  *)
(***************************************************************************)
THEOREM ResolvableAlways == SupplyFits => (Spec => []PendingResolvable)
<1> SUFFICES ASSUME SupplyFits PROVE Spec => []PendingResolvable
  OBVIOUS
<1>1. Init => ClosedIdle
  BY DEF Init, ClosedIdle
<1>2. SolvencyInv /\ ClosedIdle /\ [Next]_vars => ClosedIdle'
  BY NextCall, ClosedIdleStep
<1>3. SolvencyInv /\ ClosedIdle => PendingResolvable
  BY ResolvableNow DEF PendingResolvable
<1>4. Spec => []SolvencyInv
  BY SolvencyHolds
<1> QED
  BY <1>1, <1>2, <1>3, <1>4, PTL DEF Spec

-----------------------------------------------------------------------------
(* The escrow as the ledger sees it.                                       *)

\* what the escrow's variables stand for
Funds == [c \in DOMAIN cells |-> cells[c].reserve]

Promises == [r \in DOMAIN receipts |-> PromiseOf(receipts[r])]

TheBooks == [deposited |-> totals.initial_supply, left |-> totals.external_withdrawals,
             lost |-> UncreditedFees]

\* The escrow adds up as the ledger does.
LEMMA SameSums == \A f, n : Abstract!PrefixSum(f, n) = PrefixSum(f, n)
BY DEF Abstract!PrefixSum, PrefixSum, Abstract!PrefixSums, PrefixSums

\* What a cell has promised is what it has reserved; the rest is free.
LEMMA FreeReserve ==
    ASSUME SolvencyInv, SupplyFits, NEW c \in DOMAIN cells
    PROVE  Abstract!Free(c) = cells[c].reserve - cells[c].reserved_out
<1> DEFINE asked == [r \in DOMAIN receipts |-> PendingTerm(receipts[r], c)]
<1>1. Abstract!Promised(c) = PrefixSum(asked, receipt_count)
  <2> DEFINE ps == [r \in DOMAIN receipts |-> PromiseOf(receipts[r])]
             promised == [p \in DOMAIN ps |->
                            IF ps[p].status = "pending" /\ ps[p].by = c THEN ps[p].amount ELSE 0]
  <2>1. promised = asked
    BY DEF PendingTerm, PromiseOf
  <2>2. Abstract!Promised(c) = Abstract!PrefixSum(promised, receipt_count)
    BY DEF Abstract!Promised
  <2> HIDE DEF promised, asked
  <2> QED
    BY <2>1, <2>2, SameSums
<1>2. PrefixSum(asked, receipt_count) = cells[c].reserved_out
  BY CellHolds DEF PendingSum
<1> HIDE DEF asked
<1> QED
  BY <1>1, <1>2 DEF Abstract!Free

\* What a cell has to spare is free.
LEMMA SpareFree ==
    ASSUME SolvencyInv, SupplyFits, NEW c \in DOMAIN cells, NEW amount \in Nat, Spare(c, amount)
    PROVE  amount <= Abstract!Free(c)
<1>1. /\ cells[c].reserve \in Nat /\ cells[c].reserved_out \in Nat /\ MinReserveOf(c) \in Nat
      /\ cells[c].reserved_out > 0 =>
            cells[c].reserve >= cells[c].reserved_out + MinReserveOf(c)
  BY CellHolds
<1> QED
  BY <1>1, FreeReserve DEF Spare

\* A call that leaves the receipts alone loses no fee.
LEMMA NothingLost ==
    ASSUME UNCHANGED <<receipts, receipt_count>>
    PROVE  UncreditedFees' = UncreditedFees
BY DEF UncreditedFees

-----------------------------------------------------------------------------
(* Every effect of a call is a step of the escrow.                         *)

\* The promises and the books of a call that leaves the receipts alone.
PromisesKept ==
    /\ Promises' = Promises
    /\ receipt_count' = receipt_count
    /\ UncreditedFees' = UncreditedFees

LEMMA ReceiptsUntouched ==
    ASSUME UNCHANGED <<receipts, receipt_count>>
    PROVE  PromisesKept
BY NothingLost DEF PromisesKept, Promises

\* A new cell is a new account.
LEMMA OpenMapped ==
    ASSUME SolvencyInv, SupplyFits, CellOpened
    PROVE  Abstract!Open
<1>1. cell_count \in Nat /\ DOMAIN cells = 0..(cell_count - 1)
  BY Holdings
<1>2. Funds' = [a \in 0..cell_count |-> IF a = cell_count THEN 0 ELSE Funds[a]]
  BY <1>1 DEF CellOpened, Funds
<1>3. PromisesKept /\ cell_count' = cell_count + 1 /\ TheBooks' = TheBooks
  BY ReceiptsUntouched DEF CellOpened, PromisesKept, TheBooks
<1> QED
  BY <1>2, <1>3 DEF Abstract!Open, Funds, Promises, PromisesKept, TheBooks

\* A deposit is a deposit.
LEMMA DepositMapped ==
    ASSUME SolvencyInv, SupplyFits, NEW c \in DOMAIN cells, NEW amount \in CallAmounts,
           SameCells, Deposited(c, amount)
    PROVE  Abstract!Deposit(c, amount)
<1>1. Funds' = [Funds EXCEPT ![c] = @ + amount]
  <2>1. ASSUME NEW d \in DOMAIN cells
        PROVE  cells'[d].reserve = IF d = c THEN cells[d].reserve + amount ELSE cells[d].reserve
    BY CellHolds DEF Deposited, At
  <2> QED
    BY <2>1 DEF Funds, SameCells
<1>2. TheBooks' = [TheBooks EXCEPT !.deposited = @ + amount] /\ PromisesKept
  BY ReceiptsUntouched DEF Deposited, TheBooks, PromisesKept
<1> QED
  BY <1>1, <1>2 DEF Abstract!Deposit, Funds, Promises, PromisesKept, TheBooks, SameCells

\* A withdrawal leaves from what is free.
LEMMA LeaveMapped ==
    ASSUME SolvencyInv, SupplyFits, NEW c \in DOMAIN cells, NEW amount \in CallAmounts,
           SameCells, Withdrawn(c, amount)
    PROVE  Abstract!Leave(c, amount)
<1>1. amount <= Abstract!Free(c)
  BY SpareFree, EffectAmounts DEF SolvencyInv, ReferenceInv, Withdrawn
<1>2. Funds' = [Funds EXCEPT ![c] = @ - amount]
  <2>1. ASSUME NEW d \in DOMAIN cells
        PROVE  cells'[d].reserve = IF d = c THEN cells[d].reserve - amount ELSE cells[d].reserve
    BY CellHolds DEF Withdrawn, At
  <2> QED
    BY <2>1 DEF Funds, SameCells
<1>3. TheBooks' = [TheBooks EXCEPT !.left = @ + amount] /\ PromisesKept
  BY ReceiptsUntouched DEF Withdrawn, TheBooks, PromisesKept
<1> QED
  BY <1>1, <1>2, <1>3 DEF Abstract!Leave, Funds, Promises, PromisesKept, TheBooks, SameCells

\* A payment of the ledger is a payment of the escrow.
LEMMA PaidMapped ==
    ASSUME DOMAIN cells' = DOMAIN cells, NEW from, NEW amount, NEW to, NEW net, NEW feeTo,
           NEW fee, Paid(cells', from, amount, to, net, feeTo, fee)
    PROVE  Funds' = Abstract!Moved(from, amount, to, net, feeTo, fee)
BY DEF Paid, At, Funds, Abstract!Moved

\* Transfers and consolidations move what is free.
LEMMA MoveMapped ==
    ASSUME SolvencyInv, SupplyFits, NEW from \in DOMAIN cells, NEW to, NEW amount \in Nat,
           SameCells, amount <= Abstract!Free(from),
           Paid(cells', from, amount, to, amount, to, 0),
           UNCHANGED <<receipts, receipt_count, totals>>
    PROVE  Abstract!Move(from, to, amount)
<1>1. Funds' = Abstract!Moved(from, amount, to, amount, to, 0)
  BY PaidMapped DEF SameCells
<1>2. TheBooks' = TheBooks /\ PromisesKept
  BY ReceiptsUntouched DEF TheBooks, PromisesKept
<1> QED
  BY <1>1, <1>2 DEF Abstract!Move, Funds, Promises, PromisesKept, TheBooks, SameCells

\* Issuing promises what is free.
LEMMA PromiseMapped ==
    ASSUME SolvencyInv, SupplyFits, SolvencyInv', NEW origin \in DOMAIN cells,
           NEW beneficiary \in DOMAIN cells, NEW gross \in CallAmounts, SameCells,
           Issued(origin, beneficiary, gross)
    PROVE  \E net \in 0..gross : Abstract!Promise(origin, beneficiary, gross, net)
<1> DEFINE n == receipt_count
           receipt == NewReceipt(origin, beneficiary, gross)
<1>1. /\ n \in Nat /\ DOMAIN receipts = 0..(n - 1)
      /\ receipts \in [0..(n - 1) -> ReceiptRecord]
  BY Holdings
<1>2. /\ receipt_count' = n + 1 /\ UNCHANGED totals /\ Unpaid(cells')
      /\ receipts' = [r \in 0..n |-> IF r = n THEN receipt ELSE receipts[r]]
  BY DEF Issued
<1>3. /\ receipt.origin_cell = origin /\ receipt.beneficiary_cell = beneficiary
      /\ receipt.gross = gross /\ receipt.status = "pending"
  BY DEF NewReceipt
<1> HIDE DEF receipt
<1>4. /\ receipts' \in [0..n -> ReceiptRecord] /\ receipts'[n] = receipt
      /\ \A r \in 0..(n - 1) : receipts'[r] = receipts[r]
  <2>1. receipts' \in [0..(receipt_count' - 1) -> ReceiptRecord]
    BY DEF SolvencyInv, ReferenceInv, TypeOK, ReceiptsTyped
  <2>2. DOMAIN receipts' = 0..n
    BY <1>2
  <2> QED
    BY <1>1, <1>2, <2>1, <2>2
<1>5. receipt.net \in 0..gross
  <2>1. receipt.fee + receipt.net = receipt.gross /\ receipt \in ReceiptRecord
    BY <1>1, <1>4 DEF SolvencyInv, ReferenceInv, ReferencesOK, ReceiptsRefer
  <2>2. receipt.fee \in Nat /\ receipt.net \in Nat
    BY <2>1, AmountClosed DEF ReceiptRecord
  <2> QED
    BY <1>3, <2>1, <2>2
<1>6. gross <= Abstract!Free(origin)
  BY SpareFree, EffectAmounts DEF SolvencyInv, ReferenceInv, Issued
<1>7. Funds' = Funds
  BY <1>2 DEF Funds, Unpaid, SameCells
<1>8. TheBooks' = TheBooks
  <2>1. LostSum(receipts', n + 1) = LostSum(receipts, n) + LostTerm(receipt)
    <3>1. PICK qs : qs = receipts'
      OBVIOUS
    <3>2. LostSum(qs, n + 1) = LostSum(receipts, n) + LostTerm(qs[n])
      BY <1>1, <1>4, <3>1, ReceiptSumsAppend
    <3> QED
      BY <1>4, <3>1, <3>2
  <2>2. LostTerm(receipt) = 0 /\ LostSum(receipts, n) \in Nat
    BY <1>3, Holdings DEF LostTerm
  <2>3. UncreditedFees' = LostSum(receipts', receipt_count')
    BY DEF UncreditedFees, LostSum, LostTerm
  <2> QED
    BY <1>2, <2>1, <2>2, <2>3, SumsOfLedger DEF TheBooks
<1>9. Promises' = [p \in 0..n |->
         IF p = n THEN [by |-> origin, to |-> beneficiary, amount |-> gross,
                        net |-> receipt.net, status |-> "pending"]
                  ELSE Promises[p]]
  BY <1>1, <1>2, <1>3, <1>4 DEF Promises, PromiseOf
<1>10. Abstract!Promise(origin, beneficiary, gross, receipt.net)
  BY <1>2, <1>6, <1>7, <1>8, <1>9
     DEF Abstract!Promise, Funds, Promises, TheBooks, SameCells
<1> QED
  BY <1>5, <1>10

\* How a settlement or a cancellation changes the promise it resolves.
LEMMA PromiseResolved ==
    ASSUME SolvencyInv, SupplyFits, NEW r \in DOMAIN receipts, NEW payer, NEW status,
           receipts' = [receipts EXCEPT ![r].paid_by_cell = payer, ![r].status = status]
    PROVE  Promises' = [Promises EXCEPT ![r].status = status]
<1> DEFINE resolved == [receipts[r] EXCEPT !.paid_by_cell = payer, !.status = status]
<1>1. receipts[r] \in ReceiptRecord
  BY Holdings
<1>2. /\ DOMAIN receipts' = DOMAIN receipts /\ receipts'[r] = resolved
      /\ \A q \in DOMAIN receipts : q # r => receipts'[q] = receipts[q]
  OBVIOUS
<1>3. PromiseOf(resolved) = [PromiseOf(receipts[r]) EXCEPT !.status = status]
  <2>1. /\ resolved.origin_cell = receipts[r].origin_cell
        /\ resolved.beneficiary_cell = receipts[r].beneficiary_cell
        /\ resolved.gross = receipts[r].gross /\ resolved.net = receipts[r].net
        /\ resolved.status = status
    BY <1>1, Zenon DEF ReceiptRecord
  <2> QED
    BY <2>1 DEF PromiseOf
<1> HIDE DEF resolved
<1> QED
  BY <1>2, <1>3 DEF Promises

\* A cancellation releases the promise.
LEMMA ReleaseMapped ==
    ASSUME SolvencyInv, SupplyFits, [Next]_vars, NEW r \in DOMAIN receipts, SameCells,
           Cancelled(r)
    PROVE  Abstract!Release(r)
<1>1. /\ receipts[r].status = "pending" /\ UNCHANGED <<receipt_count, totals>>
      /\ receipts' = [receipts EXCEPT ![r].paid_by_cell = NoIndex, ![r].status = "cancelled"]
      /\ Unpaid(cells')
  BY DEF Cancelled
<1>2. Promises' = [Promises EXCEPT ![r].status = "cancelled"]
  BY <1>1, PromiseResolved
<1>3. Promises[r].status = "pending"
  BY <1>1 DEF Promises, PromiseOf
<1>4. Funds' = Funds
  BY <1>1 DEF Funds, Unpaid, SameCells
<1>5. TheBooks' = TheBooks
  <2>1. /\ LostSum(receipts', receipt_count')
             = LostSum(receipts, receipt_count) + LostTerm(receipts'[r])
        /\ LostTerm(receipts'[r]) = 0
    BY <1>1, Holdings, ResolvedReceiptSums DEF SolvencyInv, ReferenceInv
  <2>2. UncreditedFees' = LostSum(receipts', receipt_count')
    BY DEF UncreditedFees, LostSum, LostTerm
  <2> QED
    BY <1>1, <2>1, <2>2, Holdings, SumsOfLedger DEF TheBooks
<1> QED
  BY <1>1, <1>2, <1>3, <1>4, <1>5 DEF Abstract!Release, Funds, Promises, TheBooks, SameCells

\* A settlement honours the promise; the fee goes to a cell or is lost.
LEMMA HonourMapped ==
    ASSUME SolvencyInv, SupplyFits, [Next]_vars, NEW r \in DOMAIN receipts,
           NEW payer \in DOMAIN cells, SameCells, Settled(r, payer)
    PROVE  Abstract!Honour(r, payer)
<1> DEFINE receipt == receipts[r]
           origin == receipt.origin_cell
           to == receipt.beneficiary_cell
           gross == receipt.gross
           net == receipt.net
           fee == receipt.fee
           fee_cell == receipt.route_digest.fee_cell
<1>1. /\ receipt.status = "pending" /\ UNCHANGED <<receipt_count, totals>>
      /\ receipts' = [receipts EXCEPT ![r].paid_by_cell = payer, ![r].status = "settled"]
      /\ payer # origin => Spare(payer, gross)
      /\ SettledFor(cells', receipt, payer, fee_cell)
  BY DEF Settled
<1>2. /\ gross \in Nat /\ net \in Nat /\ fee \in Nat /\ gross - net = fee
      /\ fee_cell # NoIndex => fee_cell \in DOMAIN cells
  <2>1. TypeOK /\ RoutesRefer /\ ReceiptsRefer /\ PendingTermsCurrent
    BY DEF SolvencyInv, ReferenceInv, ReferencesOK
  <2>2. gross \in Nat /\ net \in Nat /\ fee \in Nat
    BY <2>1, EffectAmounts
  <2>3. fee + net = gross
    BY <2>1 DEF ReceiptsRefer
  <2>4. /\ IsRoute(receipt.route) /\ receipt.route_digest = routes[receipt.route]
        /\ receipt \in ReceiptRecord
    BY <1>1, <2>1 DEF PendingTermsCurrent, TypeOK, ReceiptsTyped
  <2>5. fee_cell # NoIndex => IsCell(fee_cell) /\ fee_cell \in CellArgs
    BY <2>1, <2>4 DEF RoutesRefer, IsRoute, ReceiptRecord, RouteRecord, CellArgs
  <2>6. fee_cell # NoIndex => fee_cell \in DOMAIN cells
    BY <2>1, <2>5, Slots
  <2> QED
    BY <2>2, <2>3, <2>6
<1>3. Promises' = [Promises EXCEPT ![r].status = "settled"]
  BY <1>1, PromiseResolved
<1>4. /\ Promises[r].status = "pending" /\ Promises[r].by = origin /\ Promises[r].to = to
      /\ Promises[r].amount = gross /\ Promises[r].net = net
  BY <1>1 DEF Promises, PromiseOf
<1>5. payer = origin \/ gross <= Abstract!Free(payer)
  BY <1>1, <1>2, SpareFree
<1>6. UncreditedFees' = UncreditedFees + IF fee_cell = NoIndex THEN fee ELSE 0
  <2>1. /\ LostSum(receipts', receipt_count')
             = LostSum(receipts, receipt_count) + LostTerm(receipts'[r])
        /\ LostTerm(receipts'[r]) = IF fee_cell = NoIndex THEN fee ELSE 0
    BY <1>1, Holdings, ResolvedReceiptSums DEF SolvencyInv, ReferenceInv
  <2>2. UncreditedFees' = LostSum(receipts', receipt_count')
    BY DEF UncreditedFees, LostSum, LostTerm
  <2> QED
    BY <2>1, <2>2, SumsOfLedger
<1>7. UncreditedFees \in Nat
  BY Holdings, SumsOfLedger
<1> HIDE DEF receipt, origin, to, gross, net, fee, fee_cell
<1>8. CASE fee_cell # NoIndex
  <2>1. Paid(cells', payer, gross, to, net, fee_cell, fee)
    BY <1>1, <1>8 DEF SettledFor, FeeCredit, Paid, gross, to, net, fee
  <2>2. Funds' = Abstract!Moved(payer, gross, to, net, fee_cell, gross - net)
    BY <1>2, <2>1, PaidMapped DEF SameCells
  <2>3. TheBooks' = TheBooks
    BY <1>1, <1>6, <1>7, <1>8 DEF TheBooks
  <2> QED
    BY <1>1, <1>2, <1>3, <1>4, <1>5, <1>8, <2>2, <2>3
       DEF Abstract!Honour, Funds, Promises, TheBooks, SameCells
<1>9. CASE fee_cell = NoIndex
  <2>1. Paid(cells', payer, gross, to, net, payer, 0)
    BY <1>1, <1>9 DEF SettledFor, FeeCredit, Paid, At, gross, to, net, fee
  <2>2. Funds' = Abstract!Moved(payer, gross, to, net, payer, 0)
    BY <2>1, PaidMapped DEF SameCells
  <2>3. TheBooks' = [TheBooks EXCEPT !.lost = @ + (gross - net)]
    BY <1>1, <1>2, <1>6, <1>7, <1>9 DEF TheBooks
  <2> QED
    BY <1>1, <1>2, <1>3, <1>4, <1>5, <2>2, <2>3
       DEF Abstract!Honour, Funds, Promises, TheBooks, SameCells
<1> QED
  BY <1>8, <1>9

-----------------------------------------------------------------------------
(* The refinement.                                                         *)

\* The empty ledger is an escrow without accounts.
LEMMA InitMapped == Init => Abstract!EscrowInit
<1> SUFFICES ASSUME Init PROVE Abstract!EscrowInit
  OBVIOUS
<1>1. /\ cell_count = 0 /\ cells = [i \in 0..-1 |-> {}]
      /\ receipt_count = 0 /\ receipts = [i \in 0..-1 |-> {}]
      /\ totals.initial_supply = 0 /\ totals.external_withdrawals = 0
  BY DEF Init
<1>2. Funds \in [0..(cell_count - 1) -> Nat]
  BY <1>1 DEF Funds
<1>3. Promises = [p \in 0..-1 |-> {}]
  BY <1>1 DEF Promises
<1>4. Abstract!PrefixSum(Funds, cell_count) = 0 /\ UncreditedFees = 0
  BY <1>1, SameSums, PrefixSumZero, Zenon DEF UncreditedFees
<1> QED
  BY <1>1, <1>2, <1>3, <1>4 DEF Abstract!EscrowInit, Funds, Promises

\* Every call does what an escrow allows, or nothing it can see.
LEMMA CallMapped ==
    ASSUME SolvencyInv, SupplyFits, SolvencyInv', [Next]_vars, Call
    PROVE  [Abstract!EscrowNext]_(Abstract!escrowVars)
<1> DEFINE funds == [c \in DOMAIN cells |-> cells[c].reserve]
<1>1. CASE NothingMoves
  <2>1. UncreditedFees' = UncreditedFees
    BY <1>1, NothingLost DEF NothingMoves
  <2>2. Abstract!escrowVars' = Abstract!escrowVars
    BY <1>1, <2>1 DEF Abstract!escrowVars, NothingMoves
  <2> QED
    BY <2>2
<1>2. CASE CellOpened
  BY <1>2, OpenMapped DEF Abstract!EscrowNext
<1>3. ASSUME SameCells, NEW c \in DOMAIN cells, NEW amount \in CallAmounts,
             Deposited(c, amount)
      PROVE  Abstract!EscrowNext
  <2>1. c \in DOMAIN funds /\ Abstract!Deposit(c, amount)
    BY <1>3, DepositMapped
  <2> QED
    BY <2>1 DEF Abstract!EscrowNext
<1>4. ASSUME SameCells, NEW c \in DOMAIN cells, NEW amount \in CallAmounts,
             Withdrawn(c, amount)
      PROVE  Abstract!EscrowNext
  <2>1. c \in DOMAIN funds /\ Abstract!Leave(c, amount)
    BY <1>4, LeaveMapped
  <2> QED
    BY <2>1 DEF Abstract!EscrowNext
<1>5. ASSUME SameCells, NEW f \in DOMAIN cells, NEW t \in DOMAIN cells, NEW amount \in Nat,
             amount <= Abstract!Free(f), Paid(cells', f, amount, t, amount, t, 0),
             UNCHANGED <<receipts, receipt_count, totals>>
      PROVE  Abstract!EscrowNext
  <2>1. f \in DOMAIN funds /\ t \in DOMAIN funds /\ Abstract!Move(f, t, amount)
    BY <1>5, MoveMapped
  <2>2. amount \in 0..funds[f]
    BY <1>5, FreeReserve, CellHolds
  <2> HIDE DEF funds
  <2> QED
    BY <2>1, <2>2 DEF Abstract!EscrowNext, funds
<1>6. ASSUME SameCells, NEW f \in DOMAIN cells, NEW t \in DOMAIN cells,
             NEW amount \in CallAmounts, Transferred(f, t, amount)
      PROVE  Abstract!EscrowNext
  <2>1. amount \in Nat /\ amount <= Abstract!Free(f)
    BY <1>6, EffectAmounts, SpareFree DEF SolvencyInv, ReferenceInv, Transferred
  <2> QED
    BY <1>5, <1>6, <2>1 DEF Transferred
<1>7. ASSUME SameCells, NEW t \in DOMAIN cells, NEW s \in DOMAIN cells, Merged(t, s)
      PROVE  Abstract!EscrowNext
  <2>1. cells[s].reserve \in Nat /\ cells[s].reserve <= Abstract!Free(s)
    BY <1>7, FreeReserve, CellHolds DEF Merged
  <2> QED
    BY <1>5, <1>7, <2>1 DEF Merged
<1>8. ASSUME SameCells, NEW o \in DOMAIN cells, NEW b \in DOMAIN cells,
             NEW gross \in CallAmounts, Issued(o, b, gross)
      PROVE  Abstract!EscrowNext
  <2>1. /\ o \in DOMAIN funds /\ b \in DOMAIN funds
        /\ \E net \in 0..gross : Abstract!Promise(o, b, gross, net)
    BY <1>8, PromiseMapped
  <2> QED
    BY <2>1 DEF Abstract!EscrowNext
<1>9. ASSUME SameCells, NEW r \in DOMAIN receipts, NEW p \in DOMAIN cells, Settled(r, p)
      PROVE  Abstract!EscrowNext
  <2>1. r \in DOMAIN Promises /\ p \in DOMAIN funds /\ Abstract!Honour(r, p)
    BY <1>9, HonourMapped DEF Promises
  <2> QED
    BY <2>1 DEF Abstract!EscrowNext, Promises
<1>10. ASSUME SameCells, NEW r \in DOMAIN receipts, Cancelled(r)
       PROVE  Abstract!EscrowNext
  <2>1. r \in DOMAIN Promises /\ Abstract!Release(r)
    BY <1>10, ReleaseMapped DEF Promises
  <2> QED
    BY <2>1 DEF Abstract!EscrowNext, Promises
<1> HIDE DEF funds
<1> QED
  BY <1>1, <1>2, <1>3, <1>4, <1>6, <1>7, <1>8, <1>9, <1>10 DEF Call

(***************************************************************************)
(* The ledger implements the escrow: with 64-bit fields, cells that may    *)
(* coincide, names, policies, routes and a journal that can fill up, it    *)
(* never spends what a pending receipt has promised, resolves a receipt    *)
(* twice, changes its terms, or makes or loses a unit but for the fees of  *)
(* routes without a fee cell.                                              *)
(***************************************************************************)
THEOREM EscrowImplemented == SupplyFits => (Spec => LedgerImplementsEscrow)
<1> SUFFICES ASSUME SupplyFits PROVE Spec => LedgerImplementsEscrow
  OBVIOUS
<1>1. Init => Abstract!EscrowInit
  BY InitMapped
<1>2. SolvencyInv /\ SolvencyInv' /\ [Next]_vars => [Abstract!EscrowNext]_(Abstract!escrowVars)
  BY NextCall, CallMapped
<1>3. Spec => []SolvencyInv
  BY SolvencyHolds
<1> QED
  BY <1>1, <1>2, <1>3, PTL DEF Spec, Abstract!EscrowSpec, LedgerImplementsEscrow

===============================================================================
