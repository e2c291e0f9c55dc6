------------------------- MODULE LedgerSolvencyProofs -------------------------
(***************************************************************************)
(* The solvency of the ledger, for every value of the constants: what a    *)
(* cell has committed is what its pending receipts ask for, commitments    *)
(* and minimum reserves are covered, and every unit is accounted for.      *)
(*                                                                         *)
(* The argument is one invariant.  Sums and credits do not wrap because    *)
(* all reserves together are at most what was deposited; debits do not     *)
(* because of the checks on balances, which mean what they seem to because *)
(* commitments are covered; releases do not because a commitment is the    *)
(* sum of the pending receipts, one of which is released.                  *)
(***************************************************************************)
EXTENDS LedgerReferenceProofs, PrefixSumsProofs

-----------------------------------------------------------------------------
(* The three sums of the invariant, of any array of cells or receipts.     *)

Reserves(cs, n) == PrefixSum([i \in DOMAIN cs |-> cs[i].reserve], n)

PendingTerm(receipt, c) ==
    IF receipt.status = "pending" /\ receipt.origin_cell = c THEN receipt.gross ELSE 0

PendingSum(rs, n, c) == PrefixSum([r \in DOMAIN rs |-> PendingTerm(rs[r], c)], n)

LostTerm(receipt) ==
    IF receipt.status = "settled" /\ receipt.route_digest.fee_cell = NoIndex
    THEN receipt.fee ELSE 0

LostSum(rs, n) == PrefixSum([r \in DOMAIN rs |-> LostTerm(rs[r])], n)

\* They are the sums of the properties.
LEMMA SumsOfLedger ==
    /\ SumReserves = Reserves(cells, cell_count)
    /\ UncreditedFees = LostSum(receipts, receipt_count)
    /\ \A c : PendingGross(c) = PendingSum(receipts, receipt_count, c)
BY DEF SumReserves, Reserves, UncreditedFees, LostSum, LostTerm, PendingGross, PendingSum,
   PendingTerm

\* Reserves add up to a natural number that no single reserve exceeds.
LEMMA ReservesBound ==
    ASSUME NEW n \in Nat, NEW cs \in [0..(n - 1) -> CellRecord]
    PROVE  /\ Reserves(cs, n) \in Nat
           /\ \A i \in 0..(n - 1) : cs[i].reserve \in Nat /\ cs[i].reserve <= Reserves(cs, n)
<1> DEFINE f == [i \in DOMAIN cs |-> cs[i].reserve]
<1>1. NatTerms(f, n)
  BY AmountClosed DEF NatTerms, CellRecord
<1>2. \A i \in 0..(n - 1) : f[i] = cs[i].reserve /\ cs[i].reserve \in Nat
  BY AmountClosed DEF CellRecord
<1> HIDE DEF f
<1>3. PrefixSum(f, n) \in Nat /\ \A i \in 0..(n - 1) : f[i] <= PrefixSum(f, n)
  BY <1>1, SumBound
<1> QED
  BY <1>2, <1>3 DEF Reserves, f

\* A change of one cell changes the sum by as much.
LEMMA ReservesUpdate ==
    ASSUME NEW n \in Nat, NEW cs \in [0..(n - 1) -> CellRecord],
           NEW ds \in [0..(n - 1) -> CellRecord], NEW i \in 0..(n - 1),
           \A j \in 0..(n - 1) : j # i => ds[j].reserve = cs[j].reserve
    PROVE  Reserves(ds, n) = Reserves(cs, n) - cs[i].reserve + ds[i].reserve
<1> DEFINE f == [j \in DOMAIN cs |-> cs[j].reserve]
           g == [j \in DOMAIN ds |-> ds[j].reserve]
<1>1. NatTerms(f, n) /\ NatTerms(g, n)
  BY AmountClosed DEF NatTerms, CellRecord
<1>2. SameElsewhere(f, g, n, i)
  BY DEF SameElsewhere
<1>3. f[i] = cs[i].reserve /\ g[i] = ds[i].reserve
  OBVIOUS
<1> HIDE DEF f, g
<1>4. PrefixSum(g, n) = PrefixSum(f, n) - f[i] + g[i]
  BY <1>1, <1>2, SumChange
<1> QED
  BY <1>3, <1>4, Zenon DEF Reserves, f, g

\* Cells with the same reserves have the same sum.
LEMMA ReservesSame ==
    ASSUME NEW n \in Nat, NEW cs \in [0..(n - 1) -> CellRecord],
           NEW ds \in [0..(n - 1) -> CellRecord],
           \A j \in 0..(n - 1) : ds[j].reserve = cs[j].reserve
    PROVE  Reserves(ds, n) = Reserves(cs, n)
<1> DEFINE f == [j \in DOMAIN cs |-> cs[j].reserve]
           g == [j \in DOMAIN ds |-> ds[j].reserve]
<1>1. EqualTerms(f, g, n)
  BY DEF EqualTerms
<1> HIDE DEF f, g
<1>2. PrefixSum(g, n) = PrefixSum(f, n)
  BY <1>1, SumSame
<1> QED
  BY <1>2 DEF Reserves, f, g

\* A new cell adds its reserve.
LEMMA ReservesAppend ==
    ASSUME NEW n \in Nat, NEW cs \in [0..(n - 1) -> CellRecord],
           NEW ds \in [0..n -> CellRecord], \A j \in 0..(n - 1) : ds[j] = cs[j]
    PROVE  Reserves(ds, n + 1) = Reserves(cs, n) + ds[n].reserve
<1> DEFINE f == [j \in DOMAIN cs |-> cs[j].reserve]
           g == [j \in DOMAIN ds |-> ds[j].reserve]
<1>1. EqualTerms(f, g, n)
  BY DEF EqualTerms
<1>2. g[n] = ds[n].reserve
  OBVIOUS
<1> HIDE DEF f, g
<1>3. PrefixSum(g, n + 1) = PrefixSum(f, n) + g[n]
  BY <1>1, SumAppend
<1> QED
  BY <1>2, <1>3, Zenon DEF Reserves, f, g

\* Two cells hold no more than all cells.
LEMMA TwoReserves ==
    ASSUME NEW n \in Nat, NEW cs \in [0..(n - 1) -> CellRecord],
           NEW i \in 0..(n - 1), NEW j \in 0..(n - 1), i # j
    PROVE  cs[i].reserve + cs[j].reserve <= Reserves(cs, n)
<1> DEFINE emptied == [cs EXCEPT ![i] = [cs[i] EXCEPT !.reserve = 0]]
<1>1. cs[i] \in CellRecord /\ cs[i].reserve \in Nat
  BY ReservesBound
<1>2. [cs[i] EXCEPT !.reserve = 0] \in CellRecord /\ [cs[i] EXCEPT !.reserve = 0].reserve = 0
  BY <1>1, AmountClosed DEF CellRecord
<1>3. /\ emptied \in [0..(n - 1) -> CellRecord] /\ emptied[i].reserve = 0
      /\ \A k \in 0..(n - 1) : k # i => emptied[k] = cs[k]
  BY <1>2
<1> HIDE DEF emptied
<1>4. Reserves(emptied, n) = Reserves(cs, n) - cs[i].reserve + emptied[i].reserve
  BY <1>3, ReservesUpdate
<1>5. Reserves(emptied, n) \in Nat /\ emptied[j].reserve <= Reserves(emptied, n)
      /\ Reserves(cs, n) \in Nat /\ emptied[j].reserve \in Nat
  BY <1>3, ReservesBound
<1> QED
  BY <1>1, <1>3, <1>4, <1>5

\* What receipts ask for adds up to a natural number that no single one exceeds.
LEMMA ReceiptSums ==
    ASSUME NEW n \in Nat, NEW rs \in [0..(n - 1) -> ReceiptRecord], NEW c
    PROVE  /\ PendingSum(rs, n, c) \in Nat /\ LostSum(rs, n) \in Nat
           /\ \A r \in 0..(n - 1) : /\ PendingTerm(rs[r], c) \in Nat
                                    /\ LostTerm(rs[r]) \in Nat
                                    /\ PendingTerm(rs[r], c) <= PendingSum(rs, n, c)
<1> DEFINE f == [r \in DOMAIN rs |-> PendingTerm(rs[r], c)]
           g == [r \in DOMAIN rs |-> LostTerm(rs[r])]
<1>1. \A r \in 0..(n - 1) : PendingTerm(rs[r], c) \in Nat /\ LostTerm(rs[r]) \in Nat
  BY AmountClosed DEF PendingTerm, LostTerm, ReceiptRecord
<1>2. NatTerms(f, n) /\ NatTerms(g, n)
  BY <1>1 DEF NatTerms
<1>3. \A r \in 0..(n - 1) : f[r] = PendingTerm(rs[r], c)
  OBVIOUS
<1> HIDE DEF f, g
<1>4. /\ PrefixSum(f, n) \in Nat /\ \A r \in 0..(n - 1) : f[r] <= PrefixSum(f, n)
      /\ PrefixSum(g, n) \in Nat
  BY <1>2, SumBound
<1> QED
  BY <1>1, <1>3, <1>4 DEF PendingSum, LostSum, f, g

\* A change of one receipt changes what they ask for by as much.
LEMMA ReceiptSumsUpdate ==
    ASSUME NEW n \in Nat, NEW rs \in [0..(n - 1) -> ReceiptRecord],
           NEW qs \in [0..(n - 1) -> ReceiptRecord], NEW i \in 0..(n - 1),
           \A r \in 0..(n - 1) : r # i => qs[r] = rs[r], NEW c
    PROVE  /\ PendingSum(qs, n, c)
                = PendingSum(rs, n, c) - PendingTerm(rs[i], c) + PendingTerm(qs[i], c)
           /\ LostSum(qs, n) = LostSum(rs, n) - LostTerm(rs[i]) + LostTerm(qs[i])
<1> DEFINE f == [r \in DOMAIN rs |-> PendingTerm(rs[r], c)]
           g == [r \in DOMAIN qs |-> PendingTerm(qs[r], c)]
           h == [r \in DOMAIN rs |-> LostTerm(rs[r])]
           k == [r \in DOMAIN qs |-> LostTerm(qs[r])]
<1>1. NatTerms(f, n) /\ NatTerms(g, n) /\ NatTerms(h, n) /\ NatTerms(k, n)
  BY ReceiptSums DEF NatTerms
<1>2. SameElsewhere(f, g, n, i) /\ SameElsewhere(h, k, n, i)
  BY DEF SameElsewhere
<1>3. /\ f[i] = PendingTerm(rs[i], c) /\ g[i] = PendingTerm(qs[i], c)
      /\ h[i] = LostTerm(rs[i]) /\ k[i] = LostTerm(qs[i])
  OBVIOUS
<1> HIDE DEF f, g, h, k
<1>4. PrefixSum(g, n) = PrefixSum(f, n) - f[i] + g[i]
  BY <1>1, <1>2, SumChange
<1>5. PrefixSum(k, n) = PrefixSum(h, n) - h[i] + k[i]
  BY <1>1, <1>2, SumChange
<1> QED
  BY <1>3, <1>4, <1>5, Zenon DEF PendingSum, LostSum, f, g, h, k

\* A new receipt adds what it asks for.
LEMMA ReceiptSumsAppend ==
    ASSUME NEW n \in Nat, NEW rs \in [0..(n - 1) -> ReceiptRecord],
           NEW qs \in [0..n -> ReceiptRecord],
           \A r \in 0..(n - 1) : qs[r] = rs[r], NEW c
    PROVE  /\ PendingSum(qs, n + 1, c) = PendingSum(rs, n, c) + PendingTerm(qs[n], c)
           /\ LostSum(qs, n + 1) = LostSum(rs, n) + LostTerm(qs[n])
<1> DEFINE f == [r \in DOMAIN rs |-> PendingTerm(rs[r], c)]
           g == [r \in DOMAIN qs |-> PendingTerm(qs[r], c)]
           h == [r \in DOMAIN rs |-> LostTerm(rs[r])]
           k == [r \in DOMAIN qs |-> LostTerm(qs[r])]
<1>1. EqualTerms(f, g, n) /\ EqualTerms(h, k, n)
  BY DEF EqualTerms
<1>2. g[n] = PendingTerm(qs[n], c) /\ k[n] = LostTerm(qs[n])
  OBVIOUS
<1> HIDE DEF f, g, h, k
<1>3. PrefixSum(g, n + 1) = PrefixSum(f, n) + g[n]
  BY <1>1, SumAppend
<1>4. PrefixSum(k, n + 1) = PrefixSum(h, n) + k[n]
  BY <1>1, SumAppend
<1> QED
  BY <1>2, <1>3, <1>4, Zenon DEF PendingSum, LostSum, f, g, h, k

\* A cell that issued nothing has nothing pending.
LEMMA NothingIssued ==
    ASSUME NEW n \in Nat, NEW rs \in [0..(n - 1) -> ReceiptRecord], NEW c,
           \A r \in 0..(n - 1) : rs[r].origin_cell # c
    PROVE  PendingSum(rs, n, c) = 0
<1> DEFINE f == [r \in DOMAIN rs |-> PendingTerm(rs[r], c)]
<1>1. \A r \in 0..(n - 1) : f[r] = 0
  BY DEF PendingTerm
<1> HIDE DEF f
<1> QED
  BY <1>1, SumNothing DEF PendingSum, f

-----------------------------------------------------------------------------
(* Amounts that do not wrap.                                               *)

\* Sums and differences that stay within an amount are not cut.
LEMMA NoWrap ==
    ASSUME NEW a \in Amount, NEW b \in Amount
    PROVE  /\ a + b < AmountModulus => Plus(a, b) = a + b
           /\ b <= a => Minus(a, b) = a - b
<1>1. a \in Nat /\ b \in Nat /\ a < AmountModulus /\ AmountModulus \in Nat \ {0}
  BY AmountAssumption DEF Amount
<1>2. \A k \in Nat : k < AmountModulus => k % AmountModulus = k
  BY <1>1
<1>3. b <= a => a - b \in Nat /\ a - b < AmountModulus
  BY <1>1
<1> QED
  BY <1>1, <1>2, <1>3 DEF Plus, Minus

\* A debit that the reserve covers takes the amount from one cell and from the sum.
LEMMA DebitReserves ==
    ASSUME NEW n \in Nat, NEW cs \in [0..(n - 1) -> CellRecord], NEW i \in 0..(n - 1),
           NEW amount \in Amount, amount <= cs[i].reserve
    PROVE  /\ Debit(cs, i, amount) \in [0..(n - 1) -> CellRecord]
           /\ Debit(cs, i, amount)[i].reserve = cs[i].reserve - amount
           /\ \A j \in 0..(n - 1) : j # i => Debit(cs, i, amount)[j] = cs[j]
           /\ \A j \in 0..(n - 1) :
                 Debit(cs, i, amount)[j].reserved_out = cs[j].reserved_out
           /\ Reserves(Debit(cs, i, amount), n) = Reserves(cs, n) - amount
<1> DEFINE ds == Debit(cs, i, amount)
<1>1. ds \in [0..(n - 1) -> CellRecord]
  BY CellMutations
<1>2. cs[i] \in CellRecord /\ cs[i].reserve \in Amount
  BY DEF CellRecord
<1>3. ds[i].reserve = Minus(cs[i].reserve, amount)
  BY <1>2 DEF Debit, CellRecord
<1>4. ds[i].reserve = cs[i].reserve - amount
  BY <1>2, <1>3, NoWrap
<1>5. /\ \A j \in 0..(n - 1) : j # i => ds[j] = cs[j]
      /\ \A j \in 0..(n - 1) : ds[j].reserved_out = cs[j].reserved_out
  BY PaymentsKeepCommitments DEF Debit
<1> HIDE DEF ds
<1>6. Reserves(ds, n) = Reserves(cs, n) - cs[i].reserve + ds[i].reserve
  BY <1>1, <1>5, ReservesUpdate
<1>7. Reserves(cs, n) \in Nat /\ cs[i].reserve \in Nat /\ amount \in Nat
  BY ReservesBound, AmountClosed
<1>8. Reserves(ds, n) = Reserves(cs, n) - amount
  BY <1>4, <1>6, <1>7
<1> QED
  BY <1>1, <1>4, <1>5, <1>8 DEF ds

\* A credit that the sum has room for adds the amount to one cell and to the sum.
LEMMA CreditReserves ==
    ASSUME NEW n \in Nat, NEW cs \in [0..(n - 1) -> CellRecord], NEW i \in 0..(n - 1),
           NEW amount \in Amount, Reserves(cs, n) + amount < AmountModulus
    PROVE  /\ Credit(cs, i, amount) \in [0..(n - 1) -> CellRecord]
           /\ Credit(cs, i, amount)[i].reserve = cs[i].reserve + amount
           /\ \A j \in 0..(n - 1) : j # i => Credit(cs, i, amount)[j] = cs[j]
           /\ \A j \in 0..(n - 1) :
                 Credit(cs, i, amount)[j].reserved_out = cs[j].reserved_out
           /\ Reserves(Credit(cs, i, amount), n) = Reserves(cs, n) + amount
<1> DEFINE ds == Credit(cs, i, amount)
<1>1. ds \in [0..(n - 1) -> CellRecord]
  BY CellMutations
<1>2. cs[i] \in CellRecord /\ cs[i].reserve \in Amount
  BY DEF CellRecord
<1>3. ds[i].reserve = Plus(cs[i].reserve, amount)
  BY <1>2 DEF Credit, CellRecord
<1>4. Reserves(cs, n) \in Nat /\ cs[i].reserve \in Nat /\ amount \in Nat
      /\ cs[i].reserve <= Reserves(cs, n)
  BY ReservesBound, AmountClosed
<1>5. ds[i].reserve = cs[i].reserve + amount
  <2>1. cs[i].reserve + amount < AmountModulus
    BY <1>4, AmountAssumption
  <2> QED
    BY <1>2, <1>3, <2>1, NoWrap
<1>6. /\ \A j \in 0..(n - 1) : j # i => ds[j] = cs[j]
      /\ \A j \in 0..(n - 1) : ds[j].reserved_out = cs[j].reserved_out
  BY PaymentsKeepCommitments DEF Credit
<1> HIDE DEF ds
<1>7. Reserves(ds, n) = Reserves(cs, n) - cs[i].reserve + ds[i].reserve
  BY <1>1, <1>6, ReservesUpdate
<1>8. Reserves(ds, n) = Reserves(cs, n) + amount
  BY <1>4, <1>5, <1>7
<1> QED
  BY <1>1, <1>5, <1>6, <1>8 DEF ds

-----------------------------------------------------------------------------
(***************************************************************************)
(* The invariant.  None of its parts is inductive without the others, and  *)
(* all of them need the references: whose commitment a receipt is, and     *)
(* that the fee cell of its route is still the one it was issued with.     *)
(***************************************************************************)
Solvent ==
    /\ ReservedOutIsPending
    /\ CommitmentsCovered
    /\ SupplyAccountedFor
    /\ totals.initial_supply <= MaxSupply

SolvencyInv == ReferenceInv /\ Solvent

\* The arrays and their sums in an invariant state.
LEMMA Holdings ==
    ASSUME SolvencyInv, SupplyFits
    PROVE  /\ cell_count \in Nat /\ DOMAIN cells = 0..(cell_count - 1)
           /\ cells \in [0..(cell_count - 1) -> CellRecord]
           /\ receipt_count \in Nat /\ DOMAIN receipts = 0..(receipt_count - 1)
           /\ receipts \in [0..(receipt_count - 1) -> ReceiptRecord]
           /\ Reserves(cells, cell_count) \in Nat
           /\ LostSum(receipts, receipt_count) \in Nat
           /\ totals.external_withdrawals \in Nat /\ totals.initial_supply \in Nat
           /\ Reserves(cells, cell_count) + totals.external_withdrawals
                + LostSum(receipts, receipt_count) = totals.initial_supply
           /\ totals.initial_supply <= MaxSupply
           /\ MaxSupply \in Nat /\ AmountModulus \in Nat /\ MaxSupply < AmountModulus
           /\ totals \in TotalsRecord
<1>1. TypeOK /\ Solvent
  BY DEF SolvencyInv, ReferenceInv
<1>2. /\ cell_count \in Nat /\ DOMAIN cells = 0..(cell_count - 1)
      /\ cells \in [0..(cell_count - 1) -> CellRecord]
      /\ receipt_count \in Nat /\ DOMAIN receipts = 0..(receipt_count - 1)
      /\ receipts \in [0..(receipt_count - 1) -> ReceiptRecord]
  BY <1>1, Slots DEF TypeOK, CellsTyped, ReceiptsTyped
<1>3. totals.external_withdrawals \in Nat /\ totals.initial_supply \in Nat
      /\ totals \in TotalsRecord
  BY <1>1, AmountClosed DEF TypeOK, TotalsRecord
<1>4. Reserves(cells, cell_count) \in Nat /\ LostSum(receipts, receipt_count) \in Nat
  BY <1>2, ReservesBound, ReceiptSums
<1>5. Reserves(cells, cell_count) + totals.external_withdrawals
        + LostSum(receipts, receipt_count) = totals.initial_supply
  BY <1>1, SumsOfLedger DEF Solvent, SupplyAccountedFor
<1>6. totals.initial_supply <= MaxSupply
  BY <1>1 DEF Solvent
<1> QED
  BY <1>2, <1>3, <1>4, <1>5, <1>6, AmountAssumption, LedgerAssumption DEF SupplyFits

\* The order of the totals in an invariant state.
LEMMA Room ==
    ASSUME SolvencyInv, SupplyFits
    PROVE  /\ Reserves(cells, cell_count) \in Nat /\ totals.initial_supply \in Nat
           /\ MaxSupply \in Nat /\ AmountModulus \in Nat
           /\ totals.external_withdrawals \in Nat
           /\ Reserves(cells, cell_count) + totals.external_withdrawals <= totals.initial_supply
           /\ totals.initial_supply <= MaxSupply /\ MaxSupply < AmountModulus
BY Holdings

\* What the cells hold, what left and what was lost make up the supply.
LEMMA Books ==
    ASSUME SolvencyInv, SupplyFits
    PROVE  /\ Reserves(cells, cell_count) \in Nat /\ LostSum(receipts, receipt_count) \in Nat
           /\ totals.external_withdrawals \in Nat /\ totals.initial_supply \in Nat
           /\ Reserves(cells, cell_count) + totals.external_withdrawals
                + LostSum(receipts, receipt_count) = totals.initial_supply
BY Holdings

\* A cell in an invariant state: its amounts, its commitment and what covers it.
LEMMA CellHolds ==
    ASSUME SolvencyInv, NEW c \in DOMAIN cells
    PROVE  /\ cells[c] \in CellRecord
           /\ cells[c].reserve \in Amount /\ cells[c].reserve \in Nat
           /\ cells[c].reserve < AmountModulus
           /\ cells[c].reserved_out \in Amount /\ cells[c].reserved_out \in Nat
           /\ cells[c].reserved_out < AmountModulus
           /\ MinReserveOf(c) \in Amount /\ MinReserveOf(c) \in Nat
           /\ cells[c].reserved_out = PendingSum(receipts, receipt_count, c)
           /\ cells[c].reserved_out > 0 =>
                 cells[c].reserve >= cells[c].reserved_out + MinReserveOf(c)
<1>1. TypeOK /\ CellsRefer /\ Solvent
  BY DEF SolvencyInv, ReferenceInv, ReferencesOK
<1>2. cells[c] \in CellRecord
  BY <1>1 DEF TypeOK, CellsTyped
<1>3. cells[c].reserve \in Amount /\ cells[c].reserved_out \in Amount
  BY <1>2 DEF CellRecord
<1>4. cells[c].policy \in DOMAIN policies
  BY <1>1 DEF CellsRefer, IsPolicy
<1>5. policies[cells[c].policy] \in PolicyRecord
  BY <1>1, <1>4 DEF TypeOK, PoliciesTyped
<1>6. MinReserveOf(c) \in Amount
  BY <1>5, LedgerAssumption DEF MinReserveOf, PolicyRecord
<1>7. \A a \in Amount : a \in Nat /\ a < AmountModulus
  BY AmountAssumption DEF Amount
<1>8. cells[c].reserved_out = PendingSum(receipts, receipt_count, c)
  BY <1>1, SumsOfLedger DEF Solvent, ReservedOutIsPending
<1>9. cells[c].reserved_out > 0 => cells[c].reserve >= cells[c].reserved_out + MinReserveOf(c)
  BY <1>1 DEF Solvent, CommitmentsCovered
<1> QED
  BY <1>2, <1>3, <1>6, <1>7, <1>8, <1>9

\* What is available is a number.
LEMMA AvailableInt ==
    ASSUME SolvencyInv, NEW c \in DOMAIN cells
    PROVE  Available(c) \in Int
<1>1. Plus(cells[c].reserved_out, MinReserveOf(c)) \in Nat /\ cells[c].reserve \in Nat
  BY CellHolds, AmountClosed
<1> QED
  BY <1>1 DEF Available, MinReserveOf

(***************************************************************************)
(* What pdtl_cell_available promises: an amount it admits is covered on    *)
(* top of commitments and minimum reserve.  `locked' does not wrap, since  *)
(* a cell with commitments holds them.                                     *)
(***************************************************************************)
LEMMA AvailableMeans ==
    ASSUME SolvencyInv, NEW c \in DOMAIN cells, NEW amount \in Amount,
           ~(Available(c) < amount)
    PROVE  /\ amount <= cells[c].reserve
           /\ amount > 0 => cells[c].reserve >= cells[c].reserved_out + MinReserveOf(c) + amount
<1> DEFINE locked == Plus(cells[c].reserved_out, MinReserveOf(c))
<1>1. amount \in Nat
  BY AmountClosed
<1>2. CASE amount = 0
  BY <1>2, CellHolds
<1>3. CASE amount > 0
  <2>1. Available(c) = 0 \/ (Available(c) = cells[c].reserve - locked
                             /\ ~(cells[c].reserve <= locked))
    BY DEF Available, MinReserveOf
  <2>2. locked = cells[c].reserved_out + MinReserveOf(c)
    <3>1. CASE cells[c].reserved_out > 0
      <4>1. cells[c].reserved_out + MinReserveOf(c) < AmountModulus
        BY <3>1, CellHolds, AmountAssumption
      <4> QED
        BY <4>1, CellHolds, NoWrap
    <3>2. CASE cells[c].reserved_out = 0
      <4>1. cells[c].reserved_out + MinReserveOf(c) < AmountModulus
        BY <3>2, CellHolds, AmountAssumption DEF Amount
      <4> QED
        BY <4>1, CellHolds, NoWrap
    <3> QED
      BY <3>1, <3>2, CellHolds
  <2> HIDE DEF locked
  <2>3. Available(c) = cells[c].reserve - locked /\ ~(Available(c) < amount)
    BY <1>1, <1>3, <2>1
  <2> QED
    BY <1>1, <2>2, <2>3, CellHolds
<1> QED
  BY <1>1, <1>2, <1>3

(***************************************************************************)
(* What a step has to show for the invariant to hold again.                *)
(***************************************************************************)
Covered(cs) ==
    \A c \in DOMAIN cells : cs[c].reserved_out > 0 =>
        cs[c].reserve >= cs[c].reserved_out + MinReserveOf(c)

Committed(cs, rs, n) == \A c \in DOMAIN cs : cs[c].reserved_out = PendingSum(rs, n, c)

LEMMA SolventAfter ==
    ASSUME ReferenceInv, [Next]_vars, Covered(cells'),
           Committed(cells', receipts', receipt_count'),
           Reserves(cells', cell_count') + totals'.external_withdrawals
             + LostSum(receipts', receipt_count') = totals'.initial_supply,
           totals'.initial_supply <= MaxSupply
    PROVE  SolvencyInv'
<1>1. ReferenceInv'
  BY NextReferences
<1>2. ReservedOutIsPending'
  BY DEF ReservedOutIsPending, Committed, PendingGross, PendingSum, PendingTerm
<1>3. SupplyAccountedFor'
  BY DEF SupplyAccountedFor, SumReserves, Reserves, UncreditedFees, LostSum, LostTerm
<1>4. CommitmentsCovered'
  <2>1. TypeOK /\ CellsRefer
    BY DEF ReferenceInv, ReferencesOK
  <2> SUFFICES ASSUME NEW c \in DOMAIN cells', cells'[c].reserved_out > 0
               PROVE  cells'[c].reserve
                        >= cells'[c].reserved_out + policies'[cells'[c].policy].min_reserve
    BY DEF CommitmentsCovered, MinReserveOf
  <2>2. c \in DOMAIN cells
    BY <2>1, CellChanges DEF CellStep, NewCellRefers
  <2>3. cells'[c].policy = cells[c].policy
    BY <2>1, <2>2, CellChanges DEF CellStep, CellsKept, SameIdentity
  <2>4. policies'[cells[c].policy] = policies[cells[c].policy]
    BY <2>1, <2>2, PolicyChanges DEF PoliciesKept, CellsRefer, IsPolicy
  <2> QED
    BY <2>2, <2>3, <2>4 DEF Covered, MinReserveOf
<1> QED
  BY <1>1, <1>2, <1>3, <1>4 DEF SolvencyInv, Solvent

\* The same for a call that changes cells and stamps them.
LEMMA SolventStamped ==
    ASSUME SolvencyInv, SupplyFits, [Next]_vars,
           NEW ds \in [0..(cell_count - 1) -> CellRecord], NEW touched,
           cells' = Stamp(ds, touched), UNCHANGED cell_count,
           Covered(ds), Committed(ds, receipts', receipt_count'),
           Reserves(ds, cell_count) + totals'.external_withdrawals
             + LostSum(receipts', receipt_count') = totals'.initial_supply,
           totals'.initial_supply <= MaxSupply
    PROVE  SolvencyInv'
<1>1. /\ TypeOK /\ ReferenceInv /\ cell_count \in Nat
      /\ DOMAIN cells = 0..(cell_count - 1)
  BY Holdings DEF SolvencyInv, ReferenceInv
<1>2. cells' \in [0..(cell_count - 1) -> CellRecord]
  BY <1>1, StampType DEF TypeOK, JournalTyped
<1>3. \A c \in 0..(cell_count - 1) : /\ cells'[c].reserve = ds[c].reserve
                                     /\ cells'[c].reserved_out = ds[c].reserved_out
  <2>1. \A c \in 0..(cell_count - 1) : ds[c] \in CellRecord /\ cells'[c] = Stamp(ds, touched)[c]
    OBVIOUS
  <2> QED
    BY <2>1 DEF Stamp, CellRecord
<1>4. Reserves(cells', cell_count') = Reserves(ds, cell_count)
  BY <1>1, <1>2, <1>3, ReservesSame
<1>5. Covered(cells') /\ Committed(cells', receipts', receipt_count')
  BY <1>1, <1>2, <1>3 DEF Covered, Committed
<1> QED
  BY <1>1, <1>4, <1>5, SolventAfter

-----------------------------------------------------------------------------
(* Calls that leave the commitments alone.                                 *)

\* A call that touches neither cells nor receipts nor totals keeps the invariant.
LEMMA Untouched ==
    ASSUME SolvencyInv, SupplyFits, [Next]_vars,
           UNCHANGED <<cells, cell_count, receipts, receipt_count, totals>>
    PROVE  SolvencyInv'
<1>1. Covered(cells') /\ Committed(cells', receipts', receipt_count')
  BY CellHolds DEF Covered, Committed
<1>2. ReferenceInv
  BY DEF SolvencyInv
<1> QED
  BY <1>1, <1>2, Holdings, SolventAfter

(***************************************************************************)
(* A payment keeps commitments and what covers them: a cell that pays has  *)
(* the amount available.                                                   *)
(***************************************************************************)
KeepsCover(ds, c) ==
    /\ ds[c].reserved_out = cells[c].reserved_out
    /\ \/ ds[c].reserve >= cells[c].reserve
       \/ ds[c].reserve >= cells[c].reserved_out + MinReserveOf(c)

LEMMA CommitmentsKept ==
    ASSUME SolvencyInv, SupplyFits, NEW ds \in [0..(cell_count - 1) -> CellRecord],
           \A c \in DOMAIN cells : KeepsCover(ds, c)
    PROVE  Covered(ds) /\ Committed(ds, receipts, receipt_count)
<1>1. DOMAIN ds = DOMAIN cells
  BY Holdings
<1>2. Committed(ds, receipts, receipt_count)
  BY <1>1, CellHolds DEF Committed, KeepsCover
<1>3. ASSUME NEW c \in DOMAIN cells, ds[c].reserved_out > 0
      PROVE  ds[c].reserve >= ds[c].reserved_out + MinReserveOf(c)
  <2>1. ds[c].reserve \in Nat
    BY <1>1, AmountClosed DEF CellRecord
  <2>2. KeepsCover(ds, c)
    OBVIOUS
  <2> QED
    BY <1>3, <2>1, <2>2, CellHolds DEF KeepsCover
<1> QED
  BY <1>2, <1>3 DEF Covered

\* A new cell is empty (pdtl_create_cell).
LEMMA CreateCellSolvent ==
    ASSUME SolvencyInv, SupplyFits, [Next]_vars, NEW owner, NEW asset, NEW route, NEW policy,
           CreateCell(owner, asset, route, policy)
    PROVE  SolvencyInv'
<1>1. CASE UNCHANGED <<cells, cell_count, receipts, receipt_count, totals>>
  BY <1>1, Untouched
<1>2. CASE ~UNCHANGED <<cells, cell_count, receipts, receipt_count, totals>>
  <2> DEFINE n == cell_count
  <2>1. /\ cells' = [i \in 0..n |->
                        IF i = n THEN NewCell(owner, asset, route, policy) ELSE cells[i]]
        /\ cell_count' = n + 1 /\ UNCHANGED <<receipts, receipt_count, totals>>
    BY <1>2 DEF CreateCell, Reject
  <2>2. ReferenceInv /\ TypeOK /\ ReceiptsRefer
    BY DEF SolvencyInv, ReferenceInv, ReferencesOK
  <2>3. n \in Nat /\ DOMAIN cells = 0..(n - 1) /\ cells \in [0..(n - 1) -> CellRecord]
    BY Holdings
  <2>4. cells' \in [0..n -> CellRecord]
    <3>1. TypeOK'
      BY <2>2, NextType
    <3>2. cells' \in [0..(cell_count' - 1) -> CellRecord]
      BY <3>1 DEF TypeOK, CellsTyped
    <3>3. cell_count' - 1 = n
      BY <2>1, <2>3
    <3> QED
      BY <3>2, <3>3
  <2>5. /\ DOMAIN cells' = 0..n
        /\ cells'[n].reserve = 0 /\ cells'[n].reserved_out = 0
        /\ \A i \in 0..(n - 1) : i \in 0..n /\ cells'[i] = cells[i]
        /\ \A i \in 0..n : i \in 0..(n - 1) \/ i = n
    BY <2>1, <2>3 DEF NewCell
  <2> HIDE DEF n
  <2>6. Reserves(cells', n + 1) = Reserves(cells, n)
    <3>1. Reserves(cells', n + 1) = Reserves(cells, n) + 0
      BY <2>3, <2>4, <2>5, ReservesAppend
    <3>2. Reserves(cells, n) \in Nat
      BY <2>3, ReservesBound
    <3> QED
      BY <3>1, <3>2
  <2>7. PendingSum(receipts, receipt_count, n) = 0
    <3>1. ASSUME NEW r \in 0..(receipt_count - 1) PROVE receipts[r].origin_cell # n
      <4>1. receipts[r].origin_cell < n
        BY <2>2, <3>1, Holdings DEF ReceiptsRefer, IsCell, n
      <4>2. receipts[r].origin_cell \in Nat
        BY <3>1, Holdings DEF ReceiptRecord, CellSlots
      <4> QED
        BY <4>1, <4>2, <2>3
    <3> QED
      BY <3>1, Holdings, NothingIssued
  <2>8. Committed(cells', receipts', receipt_count')
    <3>1. \A i \in 0..(n - 1) : cells'[i].reserved_out = PendingSum(receipts, receipt_count, i)
      BY <2>3, <2>5, CellHolds
    <3> QED
      BY <2>1, <2>5, <2>7, <3>1 DEF Committed
  <2>9. Covered(cells')
    BY <2>3, <2>5, CellHolds DEF Covered
  <2>10. Reserves(cells', cell_count') = Reserves(cells, cell_count)
    BY <2>1, <2>6 DEF n
  <2> QED
    BY <2>1, <2>2, <2>8, <2>9, <2>10, Holdings, SolventAfter
<1> QED
  BY <1>1, <1>2

\* A deposit adds to the sum what it adds to the supply (pdtl_deposit_genesis).
LEMMA DepositSolvent ==
    ASSUME SolvencyInv, SupplyFits, [Next]_vars, NEW cell \in CellArgs,
           NEW amount \in CallAmounts, DepositGenesis(cell, amount),
           totals.initial_supply + amount <= MaxSupply
    PROVE  SolvencyInv'
<1>1. CASE UNCHANGED <<cells, cell_count, receipts, receipt_count, totals>>
  BY <1>1, Untouched
<1>2. CASE ~UNCHANGED <<cells, cell_count, receipts, receipt_count, totals>>
  <2> DEFINE ds == [cells EXCEPT ![cell].reserve = Plus(@, amount)]
  <2>1. /\ cells' = Stamp(ds, {cell}) /\ UNCHANGED <<cell_count, receipts, receipt_count>>
        /\ totals' = [totals EXCEPT !.initial_supply = Plus(@, amount)]
        /\ IsCell(cell)
    BY <1>2 DEF DepositGenesis, DepositGenesisError, Reject
  <2>2. TypeOK
    BY DEF SolvencyInv, ReferenceInv
  <2>3. cell \in DOMAIN cells /\ amount \in Amount /\ amount \in Nat
    BY <2>1, <2>2, Slots, LedgerAssumption, AmountClosed
  <2>4. cells[cell] \in CellRecord /\ cells[cell].reserve \in Amount
        /\ cells[cell].reserve <= Reserves(cells, cell_count) /\ cells[cell].reserve \in Nat
    BY <2>3, CellHolds, Holdings, ReservesBound
  <2>5. cells[cell].reserve + amount < AmountModulus
        /\ totals.initial_supply + amount < AmountModulus
    BY <2>3, <2>4, Room
  <2>6. Plus(cells[cell].reserve, amount) = cells[cell].reserve + amount
    BY <2>3, <2>4, <2>5, NoWrap
  <2>7. /\ totals'.initial_supply = totals.initial_supply + amount
        /\ totals'.external_withdrawals = totals.external_withdrawals
    <3>1. Plus(totals.initial_supply, amount) = totals.initial_supply + amount
      BY <2>3, <2>5, Holdings, NoWrap DEF TotalsRecord
    <3> QED
      BY <2>1, <3>1, Holdings DEF TotalsRecord
  <2>8. ds \in [0..(cell_count - 1) -> CellRecord]
    BY <2>3, <2>4, Holdings, AmountClosed DEF CellRecord
  <2>9. /\ ds[cell].reserve = cells[cell].reserve + amount
        /\ ds[cell].reserved_out = cells[cell].reserved_out
        /\ \A j \in 0..(cell_count - 1) : j # cell => ds[j] = cells[j]
    BY <2>3, <2>4, <2>6, Holdings DEF CellRecord
  <2> HIDE DEF ds
  <2>10. Reserves(ds, cell_count) = Reserves(cells, cell_count) + amount
    <3>1. Reserves(ds, cell_count)
            = Reserves(cells, cell_count) - cells[cell].reserve + ds[cell].reserve
      BY <2>3, <2>8, <2>9, Holdings, ReservesUpdate
    <3> QED
      BY <2>3, <2>4, <2>9, <3>1, Room
  <2>11. Covered(ds) /\ Committed(ds, receipts, receipt_count)
    <3>1. ASSUME NEW c \in DOMAIN cells
          PROVE  KeepsCover(ds, c)
      <4>1. CASE c = cell
        BY <2>3, <2>4, <2>9, <4>1 DEF KeepsCover
      <4>2. CASE c # cell
        <5>1. ds[c] = cells[c] /\ cells[c].reserve \in Nat
          BY <2>9, <3>1, <4>2, Holdings, CellHolds
        <5> QED
          BY <5>1 DEF KeepsCover
      <4> QED
        BY <4>1, <4>2
    <3> QED
      BY <2>8, <3>1, CommitmentsKept
  <2>12. Reserves(ds, cell_count) + totals'.external_withdrawals
           + LostSum(receipts', receipt_count') = totals'.initial_supply
    <3>1. LostSum(receipts', receipt_count') = LostSum(receipts, receipt_count)
      BY <2>1
    <3>2. amount \in Nat
      BY <2>3
    <3> QED
      BY <2>7, <2>10, <3>1, <3>2, Books
  <2> QED
    BY <2>1, <2>7, <2>8, <2>11, <2>12, Holdings, SolventStamped
<1> QED
  BY <1>1, <1>2

\* A withdrawal takes what is available and counts it outside (pdtl_withdraw).
LEMMA WithdrawSolvent ==
    ASSUME SolvencyInv, SupplyFits, [Next]_vars, NEW cell \in CellArgs,
           NEW amount \in CallAmounts, Withdraw(cell, amount)
    PROVE  SolvencyInv'
<1>1. CASE UNCHANGED <<cells, cell_count, receipts, receipt_count, totals>>
  BY <1>1, Untouched
<1>2. CASE ~UNCHANGED <<cells, cell_count, receipts, receipt_count, totals>>
  <2> DEFINE ds == [cells EXCEPT ![cell].reserve = Minus(@, amount),
                                 ![cell].withdrawn = Plus(@, amount)]
  <2>1. /\ cells' = Stamp(ds, {cell}) /\ UNCHANGED <<cell_count, receipts, receipt_count>>
        /\ totals' = [totals EXCEPT !.external_withdrawals = Plus(@, amount)]
        /\ IsCell(cell) /\ ~(Available(cell) < amount)
    BY <1>2 DEF Withdraw, WithdrawError, Reject
  <2>2. TypeOK
    BY DEF SolvencyInv, ReferenceInv
  <2>3. cell \in DOMAIN cells /\ amount \in Amount /\ amount \in Nat
    BY <2>1, <2>2, Slots, LedgerAssumption, AmountClosed
  <2>4. /\ cells[cell] \in CellRecord /\ cells[cell].reserve \in Amount
        /\ cells[cell].reserve \in Nat /\ cells[cell].reserved_out \in Nat
        /\ MinReserveOf(cell) \in Nat
    BY <2>3, CellHolds
  <2>5. /\ amount <= cells[cell].reserve
        /\ amount > 0 =>
              cells[cell].reserve >= cells[cell].reserved_out + MinReserveOf(cell) + amount
        /\ cells[cell].reserve <= Reserves(cells, cell_count)
    BY <2>1, <2>3, AvailableMeans, Holdings, ReservesBound
  <2>6. Minus(cells[cell].reserve, amount) = cells[cell].reserve - amount
    BY <2>3, <2>4, <2>5, NoWrap
  <2>7. /\ totals'.initial_supply = totals.initial_supply
        /\ totals'.external_withdrawals = totals.external_withdrawals + amount
    <3>1. totals.external_withdrawals \in Amount
      BY Holdings DEF TotalsRecord
    <3>2. totals.external_withdrawals + amount < AmountModulus
      BY <2>3, <2>4, <2>5, Room
    <3>3. Plus(totals.external_withdrawals, amount) = totals.external_withdrawals + amount
      BY <2>3, <3>1, <3>2, NoWrap
    <3> QED
      BY <2>1, <3>3, Holdings DEF TotalsRecord
  <2>8. ds \in [0..(cell_count - 1) -> CellRecord]
    BY <2>3, <2>4, Holdings, AmountClosed DEF CellRecord
  <2>9. /\ ds[cell].reserve = cells[cell].reserve - amount
        /\ ds[cell].reserved_out = cells[cell].reserved_out
        /\ \A j \in 0..(cell_count - 1) : j # cell => ds[j] = cells[j]
    BY <2>3, <2>4, <2>6, Holdings DEF CellRecord
  <2> HIDE DEF ds
  <2>10. Reserves(ds, cell_count) = Reserves(cells, cell_count) - amount
    <3>1. Reserves(ds, cell_count)
            = Reserves(cells, cell_count) - cells[cell].reserve + ds[cell].reserve
      BY <2>3, <2>8, <2>9, Holdings, ReservesUpdate
    <3> QED
      BY <2>3, <2>4, <2>9, <3>1, Room
  <2>11. Covered(ds) /\ Committed(ds, receipts, receipt_count)
    <3>1. ASSUME NEW c \in DOMAIN cells
          PROVE  KeepsCover(ds, c)
      <4>1. CASE c = cell
        BY <2>3, <2>4, <2>5, <2>9, <4>1 DEF KeepsCover
      <4>2. CASE c # cell
        <5>1. ds[c] = cells[c] /\ cells[c].reserve \in Nat
          BY <2>9, <3>1, <4>2, Holdings, CellHolds
        <5> QED
          BY <5>1 DEF KeepsCover
      <4> QED
        BY <4>1, <4>2
    <3> QED
      BY <2>8, <3>1, CommitmentsKept
  <2>12. Reserves(ds, cell_count) + totals'.external_withdrawals
           + LostSum(receipts', receipt_count') = totals'.initial_supply
    <3>1. LostSum(receipts', receipt_count') = LostSum(receipts, receipt_count)
      BY <2>1
    <3>2. amount \in Nat
      BY <2>3
    <3> QED
      BY <2>7, <2>10, <3>1, <3>2, Books
  <2> QED
    BY <2>1, <2>7, <2>8, <2>11, <2>12, Holdings, SolventStamped
<1> QED
  BY <1>1, <1>2

\* A transfer moves what is available, perhaps to itself (pdtl_transfer_between_cells).
LEMMA TransferSolvent ==
    ASSUME SolvencyInv, SupplyFits, [Next]_vars, NEW from \in CellArgs, NEW to \in CellArgs,
           NEW amount \in CallAmounts, TransferBetweenCells(from, to, amount)
    PROVE  SolvencyInv'
<1>1. CASE UNCHANGED <<cells, cell_count, receipts, receipt_count, totals>>
  BY <1>1, Untouched
<1>2. CASE ~UNCHANGED <<cells, cell_count, receipts, receipt_count, totals>>
  <2> DEFINE paid == Debit(cells, from, amount)
             ds == Credit(paid, to, amount)
             n == cell_count
  <2>1. /\ cells' = Stamp(ds, {from, to})
        /\ UNCHANGED <<cell_count, receipts, receipt_count, totals>>
        /\ IsCell(from) /\ IsCell(to) /\ ~(Available(from) < amount)
    BY <1>2 DEF TransferBetweenCells, TransferError, Reject
  <2>2. TypeOK
    BY DEF SolvencyInv, ReferenceInv
  <2>3. /\ from \in 0..(n - 1) /\ to \in 0..(n - 1) /\ amount \in Amount /\ amount \in Nat
        /\ n \in Nat /\ DOMAIN cells = 0..(n - 1) /\ cells \in [0..(n - 1) -> CellRecord]
    BY <2>1, <2>2, Slots, LedgerAssumption, AmountClosed, Holdings
  <2>4. /\ amount <= cells[from].reserve
        /\ amount > 0 =>
              cells[from].reserve >= cells[from].reserved_out + MinReserveOf(from) + amount
    BY <2>1, <2>3, AvailableMeans
  <2>5. \A c \in 0..(n - 1) : /\ cells[c].reserve \in Nat /\ cells[c].reserved_out \in Nat
                              /\ MinReserveOf(c) \in Nat
    BY <2>3, CellHolds
  <2>6. Reserves(cells, n) \in Nat /\ Reserves(cells, n) < AmountModulus /\ AmountModulus \in Nat
    BY Room
  <2> HIDE DEF n
  <2>7. /\ paid \in [0..(n - 1) -> CellRecord]
        /\ paid[from].reserve = cells[from].reserve - amount
        /\ \A j \in 0..(n - 1) : j # from => paid[j] = cells[j]
        /\ \A j \in 0..(n - 1) : paid[j].reserved_out = cells[j].reserved_out
        /\ Reserves(paid, n) = Reserves(cells, n) - amount
    BY <2>3, <2>4, DebitReserves
  <2> HIDE DEF paid
  <2>8. Reserves(paid, n) + amount < AmountModulus
    BY <2>3, <2>6, <2>7
  <2>9. /\ ds \in [0..(n - 1) -> CellRecord]
        /\ ds[to].reserve = paid[to].reserve + amount
        /\ \A j \in 0..(n - 1) : j # to => ds[j] = paid[j]
        /\ \A j \in 0..(n - 1) : ds[j].reserved_out = paid[j].reserved_out
        /\ Reserves(ds, n) = Reserves(paid, n) + amount
    BY <2>3, <2>7, <2>8, CreditReserves
  <2> HIDE DEF ds
  <2>10. Reserves(ds, n) = Reserves(cells, n)
    BY <2>3, <2>6, <2>7, <2>9
  <2>11. Covered(ds) /\ Committed(ds, receipts, receipt_count)
    <3>1. ASSUME NEW c \in 0..(n - 1)
          PROVE  KeepsCover(ds, c)
      <4>1. ds[c].reserved_out = cells[c].reserved_out
        BY <2>7, <2>9
      <4>2. paid[c].reserve \in Nat /\ ds[c].reserve \in Nat
        BY <2>7, <2>9, AmountClosed DEF CellRecord
      <4>3. ds[c].reserve = paid[c].reserve \/ ds[c].reserve = paid[c].reserve + amount
        BY <2>9
      <4>4. cells[c].reserve \in Nat /\ cells[c].reserved_out \in Nat /\ MinReserveOf(c) \in Nat
            /\ amount \in Nat
        BY <2>3, <2>5
      <4>5. CASE c = from
        <5>1. paid[c].reserve = cells[c].reserve - amount
          BY <2>7, <4>5
        <5>2. amount > 0 =>
                cells[c].reserve >= cells[c].reserved_out + MinReserveOf(c) + amount
          BY <2>4, <4>5
        <5>3. ds[c].reserve >= cells[c].reserve - amount
          BY <4>2, <4>3, <4>4, <5>1
        <5>4. CASE amount = 0
          BY <4>1, <4>4, <5>3, <5>4 DEF KeepsCover
        <5>5. CASE amount > 0
          <6>1. ds[c].reserve >= cells[c].reserved_out + MinReserveOf(c)
            BY <4>2, <4>4, <5>2, <5>3, <5>5
          <6> QED
            BY <4>1, <6>1 DEF KeepsCover
        <5> QED
          BY <4>4, <5>4, <5>5
      <4>6. CASE c # from
        <5>1. paid[c].reserve = cells[c].reserve
          BY <2>7, <4>6
        <5>2. ds[c].reserve >= cells[c].reserve
          BY <4>3, <4>4, <5>1
        <5> QED
          BY <4>1, <5>2 DEF KeepsCover
      <4> QED
        BY <4>5, <4>6
    <3> QED
      BY <2>3, <2>9, <3>1, CommitmentsKept DEF n
  <2>12. Reserves(ds, cell_count) + totals'.external_withdrawals
           + LostSum(receipts', receipt_count') = totals'.initial_supply
    <3>1. /\ LostSum(receipts', receipt_count') = LostSum(receipts, receipt_count)
          /\ totals' = totals
      BY <2>1
    <3>2. Reserves(ds, cell_count) = Reserves(cells, cell_count)
      BY <2>10 DEF n
    <3> QED
      BY <3>1, <3>2, Books
  <2>13. ds \in [0..(cell_count - 1) -> CellRecord] /\ totals'.initial_supply <= MaxSupply
    BY <2>1, <2>9, Holdings DEF n
  <2> QED
    BY <2>1, <2>11, <2>12, <2>13, SolventStamped
<1> QED
  BY <1>1, <1>2

\* A consolidation empties an idle cell into another (pdtl_consolidate_cell).
LEMMA ConsolidateSolvent ==
    ASSUME SolvencyInv, SupplyFits, [Next]_vars, NEW target \in CellArgs,
           NEW source \in CellArgs, ConsolidateCell(target, source)
    PROVE  SolvencyInv'
<1>1. CASE UNCHANGED <<cells, cell_count, receipts, receipt_count, totals>>
  BY <1>1, Untouched
<1>2. CASE ~UNCHANGED <<cells, cell_count, receipts, receipt_count, totals>>
  <2> DEFINE moved == cells[source].reserve
             credited == Credit(cells, target, moved)
             ds == [credited EXCEPT ![source].reserve = 0, ![source].state = "closed"]
             emptied == [cells EXCEPT ![source].reserve = 0]
             n == cell_count
  <2>1. /\ cells' = Stamp(ds, {source, target})
        /\ UNCHANGED <<cell_count, receipts, receipt_count, totals>>
        /\ IsCell(source) /\ IsCell(target) /\ source # target
        /\ cells[source].reserved_out = 0
    BY <1>2 DEF ConsolidateCell, ConsolidateError, Idle, Reject
  <2>2. TypeOK
    BY DEF SolvencyInv, ReferenceInv
  <2>3. /\ source \in 0..(n - 1) /\ target \in 0..(n - 1)
        /\ n \in Nat /\ DOMAIN cells = 0..(n - 1) /\ cells \in [0..(n - 1) -> CellRecord]
    BY <2>1, <2>2, Slots, Holdings
  <2>4. \A c \in 0..(n - 1) : /\ cells[c] \in CellRecord /\ cells[c].reserve \in Amount
                              /\ cells[c].reserve \in Nat /\ cells[c].reserved_out \in Nat
                              /\ MinReserveOf(c) \in Nat
    BY <2>3, CellHolds
  <2>5. Reserves(cells, n) \in Nat /\ Reserves(cells, n) < AmountModulus /\ AmountModulus \in Nat
    BY Room
  <2> HIDE DEF n
  <2>6. /\ emptied \in [0..(n - 1) -> CellRecord]
        /\ emptied[source].reserve = 0
        /\ \A j \in 0..(n - 1) : j # source => emptied[j] = cells[j]
    BY ZenonT(60), <2>3, <2>4, AmountClosed DEF CellRecord
  <2>7. /\ credited \in [0..(n - 1) -> CellRecord]
        /\ credited[target].reserve = Plus(cells[target].reserve, moved)
        /\ \A j \in 0..(n - 1) : j # target => credited[j] = cells[j]
    <3>1. credited \in [0..(n - 1) -> CellRecord]
      BY <2>3, <2>4, CellMutations
    <3> QED
      BY <2>3, <2>4, <3>1 DEF Credit, CellRecord
  <2>8. \A j \in 0..(n - 1) : credited[j].reserved_out = cells[j].reserved_out
    BY <2>3, <2>4 DEF Credit, CellRecord
  <2> HIDE DEF emptied, credited
  <2>9. /\ ds \in [0..(n - 1) -> CellRecord]
        /\ ds[source].reserve = 0 /\ ds[target].reserve = credited[target].reserve
        /\ \A j \in 0..(n - 1) : /\ j # source => ds[j] = credited[j]
                                 /\ ds[j].reserved_out = credited[j].reserved_out
    <3>1. credited[source] \in CellRecord
      BY <2>3, <2>7
    <3>2. ds \in [0..(n - 1) -> CellRecord]
      BY <2>3, <2>7, <3>1, AmountClosed DEF CellRecord
    <3>3. ds[source].reserve = 0 /\ ds[source].reserved_out = credited[source].reserved_out
      BY <2>3, <2>7, <3>1 DEF CellRecord
    <3>4. \A j \in 0..(n - 1) : j # source => ds[j] = credited[j]
      BY <2>3, <2>7
    <3> HIDE DEF ds
    <3> QED
      BY <2>1, <2>3, <3>2, <3>3, <3>4
  <2> HIDE DEF ds
  <2>10. Reserves(emptied, n) = Reserves(cells, n) - moved /\ Reserves(emptied, n) \in Nat
         /\ cells[target].reserve <= Reserves(emptied, n)
    <3>1. Reserves(emptied, n) = Reserves(cells, n) - moved + emptied[source].reserve
      <4>1. \A j \in 0..(n - 1) : j # source => emptied[j].reserve = cells[j].reserve
        BY <2>6
      <4>2. /\ n \in Nat /\ source \in 0..(n - 1) /\ cells \in [0..(n - 1) -> CellRecord]
            /\ emptied \in [0..(n - 1) -> CellRecord]
        BY <2>3, <2>6
      <4> QED
        BY <4>1, <4>2, ReservesUpdate
    <3>2. Reserves(emptied, n) \in Nat /\ emptied[target].reserve <= Reserves(emptied, n)
      BY <2>3, <2>6, ReservesBound
    <3> QED
      BY <2>1, <2>3, <2>4, <2>5, <2>6, <3>1, <3>2
  <2>11. Plus(cells[target].reserve, moved) = cells[target].reserve + moved
    <3>1. cells[target].reserve + moved < AmountModulus
      BY <2>3, <2>4, <2>5, <2>10
    <3> QED
      BY <2>3, <2>4, <3>1, NoWrap
  <2>12. Reserves(ds, n) = Reserves(cells, n)
    <3>1. \A j \in 0..(n - 1) : j # target => ds[j].reserve = emptied[j].reserve
      BY <2>6, <2>7, <2>9
    <3>2. Reserves(ds, n) = Reserves(emptied, n) - emptied[target].reserve + ds[target].reserve
      BY <2>3, <2>6, <2>9, <3>1, ReservesUpdate
    <3>3. emptied[target].reserve = cells[target].reserve
          /\ ds[target].reserve = cells[target].reserve + moved
      BY <2>1, <2>3, <2>6, <2>7, <2>9, <2>11
    <3> QED
      BY SMTT(60), <2>3, <2>4, <2>5, <2>10, <3>2, <3>3
  <2>13. Covered(ds)
    <3>1. ASSUME NEW c \in 0..(n - 1), ds[c].reserved_out > 0
          PROVE  ds[c].reserve >= ds[c].reserved_out + MinReserveOf(c)
      <4>1. ds[c].reserved_out = cells[c].reserved_out /\ c # source
        BY <2>1, <2>8, <2>9, <3>1
      <4>2. ds[c].reserve >= cells[c].reserve /\ ds[c].reserve \in Nat
        BY SMTT(60), <2>3, <2>4, <2>7, <2>9, <2>11, <4>1
      <4>3. cells[c].reserve >= cells[c].reserved_out + MinReserveOf(c)
        BY <2>3, <3>1, <4>1, CellHolds
      <4> QED
        BY <2>4, <4>1, <4>2, <4>3
    <3> QED
      BY <2>3, <3>1 DEF Covered
  <2>14. Committed(ds, receipts', receipt_count')
    BY <2>1, <2>3, <2>8, <2>9, CellHolds DEF Committed
  <2>15. Reserves(ds, cell_count) + totals'.external_withdrawals
           + LostSum(receipts', receipt_count') = totals'.initial_supply
    BY <2>1, <2>12, Holdings DEF n
  <2>16. ds \in [0..(cell_count - 1) -> CellRecord] /\ totals'.initial_supply <= MaxSupply
    BY <2>1, <2>9, Holdings DEF n
  <2> QED
    BY <2>1, <2>13, <2>14, <2>15, <2>16, SolventStamped
<1> QED
  BY <1>1, <1>2

-----------------------------------------------------------------------------
(* Calls that make and release commitments.                                *)

\* Releasing what a cell has committed touches no reserve.
LEMMA ReleaseReserves ==
    ASSUME NEW n \in Nat, NEW cs \in [0..(n - 1) -> CellRecord], NEW i \in 0..(n - 1),
           NEW amount \in Amount, amount <= cs[i].reserved_out
    PROVE  /\ Release(cs, i, amount) \in [0..(n - 1) -> CellRecord]
           /\ Release(cs, i, amount)[i].reserved_out = cs[i].reserved_out - amount
           /\ \A j \in 0..(n - 1) : j # i => Release(cs, i, amount)[j] = cs[j]
           /\ \A j \in 0..(n - 1) : Release(cs, i, amount)[j].reserve = cs[j].reserve
           /\ Reserves(Release(cs, i, amount), n) = Reserves(cs, n)
<1> DEFINE ds == Release(cs, i, amount)
<1>1. ds \in [0..(n - 1) -> CellRecord]
  BY CellMutations
<1>2. cs[i] \in CellRecord /\ cs[i].reserved_out \in Amount
  BY DEF CellRecord
<1>3. ds[i].reserved_out = Minus(cs[i].reserved_out, amount) /\ ds[i].reserve = cs[i].reserve
  BY <1>2 DEF Release, CellRecord
<1>4. ds[i].reserved_out = cs[i].reserved_out - amount
  BY <1>2, <1>3, NoWrap
<1>5. \A j \in 0..(n - 1) : j # i => ds[j] = cs[j]
  BY DEF Release
<1> HIDE DEF ds
<1>6. \A j \in 0..(n - 1) : ds[j].reserve = cs[j].reserve
  BY <1>3, <1>5
<1>7. Reserves(ds, n) = Reserves(cs, n)
  BY <1>1, <1>6, ReservesSame
<1> QED
  BY <1>1, <1>4, <1>5, <1>6, <1>7 DEF ds

(***************************************************************************)
(* Resolving a pending receipt takes its gross from what its origin has    *)
(* pending, and, if it is settled without fee cell, its fee out of the     *)
(* ledger.                                                                 *)
(***************************************************************************)
LEMMA ResolvedSums ==
    ASSUME NEW n \in Nat, NEW rs \in [0..(n - 1) -> ReceiptRecord],
           NEW qs \in [0..(n - 1) -> ReceiptRecord], NEW r \in 0..(n - 1),
           \A q \in 0..(n - 1) : q # r => qs[q] = rs[q],
           rs[r].status = "pending", qs[r].status # "pending", NEW c
    PROVE  /\ PendingSum(qs, n, c) = PendingSum(rs, n, c) - PendingTerm(rs[r], c)
           /\ LostSum(qs, n) = LostSum(rs, n) + LostTerm(qs[r])
<1>1. PendingTerm(qs[r], c) = 0
  BY DEF PendingTerm
<1>2. LostTerm(rs[r]) = 0
  BY DEF LostTerm
<1>3. /\ PendingSum(qs, n, c)
            = PendingSum(rs, n, c) - PendingTerm(rs[r], c) + PendingTerm(qs[r], c)
      /\ LostSum(qs, n) = LostSum(rs, n) - LostTerm(rs[r]) + LostTerm(qs[r])
  BY ReceiptSumsUpdate
<1>4. /\ PendingSum(rs, n, c) \in Nat /\ LostSum(rs, n) \in Nat
      /\ PendingTerm(rs[r], c) \in Nat /\ LostTerm(qs[r]) \in Nat
  BY ReceiptSums
<1> QED
  BY <1>1, <1>2, <1>3, <1>4

\* What a settlement or a cancellation does to the sums.
LEMMA ResolvedReceiptSums ==
    ASSUME TypeOK, [Next]_vars, NEW r \in 0..(receipt_count - 1),
           receipts[r].status = "pending", UNCHANGED receipt_count,
           NEW payer, NEW status \in {"settled", "cancelled"},
           receipts' = [receipts EXCEPT ![r].paid_by_cell = payer, ![r].status = status]
    PROVE  /\ \A c : PendingSum(receipts', receipt_count', c)
                        = PendingSum(receipts, receipt_count, c) - PendingTerm(receipts[r], c)
           /\ LostSum(receipts', receipt_count')
                = LostSum(receipts, receipt_count) + LostTerm(receipts'[r])
           /\ LostTerm(receipts'[r]) =
                IF status = "settled" /\ receipts[r].route_digest.fee_cell = NoIndex
                THEN receipts[r].fee ELSE 0
<1> DEFINE n == receipt_count
           resolved == [receipts[r] EXCEPT !.paid_by_cell = payer, !.status = status]
<1>1. n \in Nat /\ receipts \in [0..(n - 1) -> ReceiptRecord] /\ receipts[r] \in ReceiptRecord
  BY Slots DEF TypeOK, ReceiptsTyped
<1>2. receipts' \in [0..(n - 1) -> ReceiptRecord]
  <2>1. TypeOK'
    BY NextType
  <2> QED
    BY <2>1 DEF TypeOK, ReceiptsTyped
<1>3. receipts'[r] = resolved /\ \A q \in 0..(n - 1) : q # r => receipts'[q] = receipts[q]
  BY <1>1
<1>4. /\ resolved.status = status /\ resolved.route_digest = receipts[r].route_digest
      /\ resolved.fee = receipts[r].fee
  BY <1>1, Zenon DEF ReceiptRecord
<1> HIDE DEF resolved, n
<1>5. LostTerm(receipts'[r]) =
        IF status = "settled" /\ receipts[r].route_digest.fee_cell = NoIndex
        THEN receipts[r].fee ELSE 0
  BY <1>3, <1>4, Zenon DEF LostTerm
<1>6. PICK qs : qs = receipts'
  OBVIOUS
<1>7. /\ n \in Nat /\ r \in 0..(n - 1) /\ receipts \in [0..(n - 1) -> ReceiptRecord]
      /\ qs \in [0..(n - 1) -> ReceiptRecord]
      /\ \A q \in 0..(n - 1) : q # r => qs[q] = receipts[q]
      /\ receipts[r].status = "pending" /\ qs[r].status # "pending"
  <2>1. resolved.status # "pending"
    BY <1>4
  <2> QED
    BY <1>1, <1>2, <1>3, <1>6, <2>1, Zenon DEF n
<1>8. ASSUME NEW c
      PROVE  /\ PendingSum(qs, n, c) = PendingSum(receipts, n, c) - PendingTerm(receipts[r], c)
             /\ LostSum(qs, n) = LostSum(receipts, n) + LostTerm(qs[r])
  BY <1>7, ResolvedSums
<1> QED
  BY <1>5, <1>6, <1>8, Zenon DEF n

\* Issuing commits what is available (pdtl_issue_receipt).
LEMMA IssueSolvent ==
    ASSUME SolvencyInv, SupplyFits, [Next]_vars, NEW origin \in CellArgs,
           NEW beneficiary \in CellArgs, NEW gross \in CallAmounts,
           IssueReceipt(origin, beneficiary, gross)
    PROVE  SolvencyInv'
<1>1. CASE UNCHANGED <<cells, cell_count, receipts, receipt_count, totals>>
  BY <1>1, Untouched
<1>2. CASE ~UNCHANGED <<cells, cell_count, receipts, receipt_count, totals>>
  <2> DEFINE ds == Reserve(cells, origin, gross)
             n == cell_count
             m == receipt_count
             receipt == NewReceipt(origin, beneficiary, gross)
  <2>1. /\ cells' = Stamp(ds, {origin}) /\ UNCHANGED <<cell_count, totals>>
        /\ receipt_count' = m + 1
        /\ receipts' = [r \in 0..m |-> IF r = m THEN receipt ELSE receipts[r]]
        /\ IsCell(origin) /\ ~(Available(origin) < gross)
    BY <1>2 DEF IssueReceipt, IssueError, Reject
  <2>2. TypeOK
    BY DEF SolvencyInv, ReferenceInv
  <2>3. /\ origin \in 0..(n - 1) /\ gross \in Amount /\ gross \in Nat
        /\ n \in Nat /\ DOMAIN cells = 0..(n - 1) /\ cells \in [0..(n - 1) -> CellRecord]
        /\ m \in Nat /\ receipts \in [0..(m - 1) -> ReceiptRecord]
    BY <2>1, <2>2, Slots, LedgerAssumption, AmountClosed, Holdings
  <2>4. /\ gross <= cells[origin].reserve
        /\ gross > 0 =>
              cells[origin].reserve >= cells[origin].reserved_out + MinReserveOf(origin) + gross
    BY <2>1, <2>3, AvailableMeans
  <2>5. /\ cells[origin] \in CellRecord
        /\ cells[origin].reserve \in Nat /\ cells[origin].reserve < AmountModulus
        /\ cells[origin].reserved_out \in Amount /\ cells[origin].reserved_out \in Nat
        /\ cells[origin].reserved_out < AmountModulus /\ MinReserveOf(origin) \in Nat
        /\ AmountModulus \in Nat
    BY <2>3, CellHolds, Room
  <2>6. Plus(cells[origin].reserved_out, gross) = cells[origin].reserved_out + gross
    <3>1. cells[origin].reserved_out + gross < AmountModulus
      BY <2>3, <2>4, <2>5
    <3> QED
      BY <2>3, <2>5, <3>1, NoWrap
  <2>7. /\ ds \in [0..(n - 1) -> CellRecord]
        /\ ds[origin].reserved_out = cells[origin].reserved_out + gross
        /\ ds[origin].reserve = cells[origin].reserve
        /\ \A j \in 0..(n - 1) : j # origin => ds[j] = cells[j]
    <3>1. ds \in [0..(n - 1) -> CellRecord]
      BY <2>3, CellMutations
    <3> QED
      BY <2>3, <2>5, <2>6, <3>1 DEF Reserve, CellRecord
  <2>8. receipt.status = "pending" /\ receipt.origin_cell = origin /\ receipt.gross = gross
    BY Zenon DEF NewReceipt
  <2> HIDE DEF ds, receipt
  <2>9. Reserves(ds, n) = Reserves(cells, n)
    <3>1. \A j \in 0..(n - 1) : ds[j].reserve = cells[j].reserve
      BY <2>7
    <3> QED
      BY <2>3, <2>7, <3>1, ReservesSame
  <2>10. receipts' \in [0..m -> ReceiptRecord]
    <3>1. TypeOK'
      BY <2>2, NextType
    <3>2. receipts' \in [0..(receipt_count' - 1) -> ReceiptRecord]
      BY <3>1 DEF TypeOK, ReceiptsTyped
    <3>3. receipt_count' - 1 = m
      BY <2>1, <2>3
    <3> QED
      BY <3>2, <3>3
  <2>11. receipts'[m] = receipt /\ \A r \in 0..(m - 1) : receipts'[r] = receipts[r]
    BY <2>1, <2>3
  <2> HIDE DEF n, m
  <2>12. ASSUME NEW c
         PROVE  /\ PendingSum(receipts', m + 1, c)
                     = PendingSum(receipts, m, c) + (IF c = origin THEN gross ELSE 0)
                /\ LostSum(receipts', m + 1) = LostSum(receipts, m)
    <3>1. /\ PendingSum(receipts', m + 1, c)
               = PendingSum(receipts, m, c) + PendingTerm(receipts'[m], c)
          /\ LostSum(receipts', m + 1) = LostSum(receipts, m) + LostTerm(receipts'[m])
      BY <2>3, <2>10, <2>11, ReceiptSumsAppend
    <3>2. PendingTerm(receipts'[m], c) = IF c = origin THEN gross ELSE 0
      BY <2>8, <2>11 DEF PendingTerm
    <3>3. LostTerm(receipts'[m]) = 0
      BY <2>8, <2>11 DEF LostTerm
    <3>4. LostSum(receipts, m) \in Nat
      BY <2>3, ReceiptSums
    <3> QED
      BY <3>1, <3>2, <3>3, <3>4
  <2>13. Covered(ds)
    <3>1. ASSUME NEW c \in 0..(n - 1), ds[c].reserved_out > 0
          PROVE  ds[c].reserve >= ds[c].reserved_out + MinReserveOf(c)
      <4>1. CASE c # origin
        BY <2>3, <2>7, <3>1, <4>1, CellHolds
      <4>2. CASE c = origin /\ gross > 0
        BY <2>3, <2>4, <2>5, <2>7, <4>2
      <4>3. CASE c = origin /\ gross = 0
        <5>1. /\ ds[c].reserved_out = cells[c].reserved_out /\ cells[c].reserved_out > 0
              /\ ds[c].reserve = cells[c].reserve
          BY <2>5, <2>7, <3>1, <4>3
        <5> QED
          BY <2>3, <5>1, CellHolds
      <4> QED
        BY <2>3, <4>1, <4>2, <4>3
    <3> QED
      BY <2>3, <3>1 DEF Covered
  <2>14. Committed(ds, receipts', receipt_count')
    <3>1. ASSUME NEW c \in 0..(n - 1)
          PROVE  ds[c].reserved_out = PendingSum(receipts', m + 1, c)
      <4>1. cells[c].reserved_out = PendingSum(receipts, m, c) /\ cells[c].reserved_out \in Nat
        BY <2>3, CellHolds DEF m
      <4> QED
        BY <2>7, <2>12, <4>1
    <3> QED
      BY <2>1, <2>7, <3>1 DEF Committed, m
  <2>15. Reserves(ds, cell_count) + totals'.external_withdrawals
           + LostSum(receipts', receipt_count') = totals'.initial_supply
    BY <2>1, <2>9, <2>12, Holdings DEF n, m
  <2>16. ds \in [0..(cell_count - 1) -> CellRecord] /\ totals'.initial_supply <= MaxSupply
    BY <2>1, <2>7, Holdings DEF n
  <2> QED
    BY <2>1, <2>13, <2>14, <2>15, <2>16, SolventStamped
<1> QED
  BY <1>1, <1>2

\* What a cell has reserved goes down with what it has pending.
LEMMA CommitmentReleased ==
    ASSUME SolvencyInv, SupplyFits, NEW ds \in [0..(cell_count - 1) -> CellRecord],
           NEW r \in 0..(receipt_count - 1), receipts[r].status = "pending",
           NEW origin \in 0..(cell_count - 1), origin = receipts[r].origin_cell,
           ds[origin].reserved_out = cells[origin].reserved_out - receipts[r].gross,
           \A j \in 0..(cell_count - 1) :
              j # origin => ds[j].reserved_out = cells[j].reserved_out,
           NEW qs, NEW m,
           \A c : PendingSum(qs, m, c)
                     = PendingSum(receipts, receipt_count, c) - PendingTerm(receipts[r], c)
    PROVE  Committed(ds, qs, m)
<1>1. DOMAIN cells = 0..(cell_count - 1)
  BY Holdings
<1>2. ASSUME NEW c \in 0..(cell_count - 1)
      PROVE  ds[c].reserved_out = PendingSum(qs, m, c)
  <2>1. cells[c].reserved_out = PendingSum(receipts, receipt_count, c)
        /\ cells[c].reserved_out \in Nat
    BY <1>1, CellHolds
  <2>2. PendingSum(qs, m, c) = cells[c].reserved_out - PendingTerm(receipts[r], c)
    BY <2>1
  <2>3. CASE c = origin
    <3>1. PendingTerm(receipts[r], c) = receipts[r].gross
      BY <2>3 DEF PendingTerm
    <3> QED
      BY <2>2, <2>3, <3>1
  <2>4. CASE c # origin
    <3>1. PendingTerm(receipts[r], c) = 0
      BY <2>4 DEF PendingTerm
    <3> QED
      BY <2>1, <2>2, <2>4, <3>1
  <2> QED
    BY <2>3, <2>4
<1> QED
  BY <1>2 DEF Committed

\* Cancelling releases the commitment and moves nothing (pdtl_cancel_receipt).
LEMMA CancelSolvent ==
    ASSUME SolvencyInv, SupplyFits, [Next]_vars, NEW r \in ReceiptArgs, CancelReceipt(r)
    PROVE  SolvencyInv'
<1>1. CASE UNCHANGED <<cells, cell_count, receipts, receipt_count, totals>>
  BY <1>1, Untouched
<1>2. CASE ~UNCHANGED <<cells, cell_count, receipts, receipt_count, totals>>
  <2> DEFINE origin == receipts[r].origin_cell
             gross == receipts[r].gross
             ds == Release(cells, origin, gross)
             n == cell_count
  <2>1. /\ cells' = Stamp(ds, {origin}) /\ UNCHANGED <<cell_count, receipt_count, totals>>
        /\ receipts' = [receipts EXCEPT ![r].paid_by_cell = NoIndex, ![r].status = "cancelled"]
        /\ IsReceipt(r) /\ receipts[r].status = "pending" /\ IsCell(origin)
        /\ ~(cells[origin].reserved_out < gross)
    BY <1>2 DEF CancelReceipt, CancelError, Reject
  <2>2. TypeOK
    BY DEF SolvencyInv, ReferenceInv
  <2>3. r \in 0..(receipt_count - 1) /\ receipts[r] \in ReceiptRecord
    BY <2>1, <2>2, Slots
  <2>4. /\ n \in Nat /\ DOMAIN cells = 0..(n - 1) /\ cells \in [0..(n - 1) -> CellRecord]
    BY Holdings
  <2>5. origin \in 0..(n - 1) /\ gross \in Amount /\ gross \in Nat
    BY <2>1, <2>2, <2>3, <2>4, Slots, AmountClosed DEF ReceiptRecord, CellArgs
  <2>6. cells[origin].reserved_out \in Nat /\ gross <= cells[origin].reserved_out
    BY <2>1, <2>4, <2>5, CellHolds
  <2>7. /\ ds \in [0..(n - 1) -> CellRecord]
        /\ ds[origin].reserved_out = cells[origin].reserved_out - gross
        /\ \A j \in 0..(n - 1) : j # origin => ds[j] = cells[j]
        /\ \A j \in 0..(n - 1) : ds[j].reserve = cells[j].reserve
        /\ Reserves(ds, n) = Reserves(cells, n)
    BY <2>4, <2>5, <2>6, ReleaseReserves
  <2> HIDE DEF ds, origin, gross, n
  <2>8. /\ \A c : PendingSum(receipts', receipt_count', c)
                     = PendingSum(receipts, receipt_count, c) - PendingTerm(receipts[r], c)
        /\ LostSum(receipts', receipt_count')
             = LostSum(receipts, receipt_count) + LostTerm(receipts'[r])
        /\ LostTerm(receipts'[r]) = 0
    BY <2>1, <2>2, <2>3, ResolvedReceiptSums
  <2>9. Covered(ds)
    <3>1. ASSUME NEW c \in 0..(n - 1), ds[c].reserved_out > 0
          PROVE  ds[c].reserve >= ds[c].reserved_out + MinReserveOf(c)
      <4>1. /\ cells[c].reserved_out \in Nat /\ cells[c].reserve \in Nat
            /\ MinReserveOf(c) \in Nat
            /\ cells[c].reserved_out > 0 =>
                  cells[c].reserve >= cells[c].reserved_out + MinReserveOf(c)
        BY <2>4, CellHolds
      <4>2. ds[c].reserved_out \in Nat /\ ds[c].reserved_out <= cells[c].reserved_out
            /\ ds[c].reserve = cells[c].reserve
        BY <2>5, <2>6, <2>7, <4>1
      <4> QED
        BY <3>1, <4>1, <4>2
    <3> QED
      BY <2>4, <3>1 DEF Covered
  <2>10. Committed(ds, receipts', receipt_count')
    <3>1. /\ \A j \in 0..(n - 1) : j # origin => ds[j].reserved_out = cells[j].reserved_out
          /\ origin = receipts[r].origin_cell
          /\ ds[origin].reserved_out = cells[origin].reserved_out - receipts[r].gross
          /\ receipts[r].status = "pending"
      BY <2>1, <2>7 DEF origin, gross
    <3> QED
      BY <2>3, <2>5, <2>7, <2>8, <3>1, CommitmentReleased DEF n
  <2>11. Reserves(ds, cell_count) + totals'.external_withdrawals
           + LostSum(receipts', receipt_count') = totals'.initial_supply
    <3>1. LostSum(receipts', receipt_count') = LostSum(receipts, receipt_count)
      BY <2>8, Holdings
    <3> QED
      BY <2>1, <2>7, <3>1, Holdings DEF n
  <2>12. ds \in [0..(cell_count - 1) -> CellRecord] /\ totals'.initial_supply <= MaxSupply
    BY <2>1, <2>7, Holdings DEF n
  <2> QED
    BY <2>1, <2>9, <2>10, <2>11, <2>12, SolventStamped
<1> QED
  BY <1>1, <1>2

(***************************************************************************)
(* What pdtl_validate_settlement_shape and the checks of                   *)
(* pdtl_apply_settlement guarantee: the payer holds the gross, a payer     *)
(* that is not the origin has it available, the origin has reserved it.    *)
(***************************************************************************)
LEMMA SettlementCovered ==
    ASSUME SolvencyInv, NEW r \in ReceiptArgs, NEW payer \in CellArgs,
           SettleError(r, payer) = "PDTL_OK"
    PROVE  LET receipt == receipts[r]
               origin  == receipt.origin_cell
           IN  /\ receipt.status = "pending"
               /\ receipt.gross <= cells[payer].reserve
               /\ receipt.gross <= cells[origin].reserved_out
               /\ payer # origin /\ receipt.gross > 0 =>
                     cells[payer].reserve
                       >= cells[payer].reserved_out + MinReserveOf(payer) + receipt.gross
               /\ receipt.fee + receipt.net = receipt.gross
               /\ receipt.route_digest.fee_cell = routes[receipt.route].fee_cell
<1> DEFINE receipt == receipts[r]
           origin == receipt.origin_cell
<1>1. TypeOK /\ ReceiptsRefer /\ PendingTermsCurrent
  BY DEF SolvencyInv, ReferenceInv, ReferencesOK
<1>2. /\ r \in DOMAIN receipts /\ receipt \in ReceiptRecord
      /\ payer \in DOMAIN cells /\ origin \in DOMAIN cells
  BY <1>1, SettlementShape
<1>3. receipt.status = "pending" /\ PayerCovers(payer, receipt)
      /\ ~(cells[origin].reserved_out < receipt.gross)
  BY DEF SettleError, ShapeError, ApplyError
<1>4. receipt.gross \in Amount /\ receipt.gross \in Nat
  BY <1>2, AmountClosed DEF ReceiptRecord
<1>5. /\ cells[payer].reserve \in Nat /\ cells[payer].reserved_out \in Nat
      /\ cells[origin].reserved_out \in Nat /\ MinReserveOf(payer) \in Nat
  BY <1>2, CellHolds
<1>6. receipt.fee + receipt.net = receipt.gross
      /\ receipt.route_digest.fee_cell = routes[receipt.route].fee_cell
  BY <1>1, <1>2, <1>3 DEF ReceiptsRefer, PendingTermsCurrent
<1> HIDE DEF receipt, origin
<1>7. CASE payer = origin
  <2>1. cells[payer].reserve >= receipt.gross
    BY <1>3, <1>7 DEF PayerCovers, origin
  <2> QED
    BY <1>3, <1>4, <1>5, <1>6, <1>7, <2>1 DEF receipt, origin
<1>8. CASE payer # origin
  <2>1. Available(payer) >= receipt.gross
    BY <1>3, <1>8 DEF PayerCovers, origin
  <2>2. ~(Available(payer) < receipt.gross)
    <3>1. Available(payer) \in Int
      BY <1>2, <1>5, AvailableInt
    <3> QED
      BY <1>4, <2>1, <3>1
  <2>3. /\ receipt.gross <= cells[payer].reserve
        /\ receipt.gross > 0 =>
              cells[payer].reserve
                >= cells[payer].reserved_out + MinReserveOf(payer) + receipt.gross
    BY <1>2, <1>4, <2>2, AvailableMeans
  <2> QED
    BY <1>3, <1>4, <1>5, <1>6, <2>3 DEF receipt, origin
<1> QED
  BY <1>7, <1>8

(***************************************************************************)
(* The payment of the fee, if there is one and a cell to pay it to.        *)
(***************************************************************************)
FeePaid(cs, fee_cell, fee) ==
    IF fee_cell # NoIndex /\ fee > 0 THEN Credit(cs, fee_cell, fee) ELSE cs

LEMMA FeePayment ==
    ASSUME NEW n \in Nat, NEW cs \in [0..(n - 1) -> CellRecord], NEW fee_cell,
           NEW fee \in Amount, fee_cell # NoIndex => fee_cell \in 0..(n - 1),
           Reserves(cs, n) + fee < AmountModulus
    PROVE  /\ FeePaid(cs, fee_cell, fee) \in [0..(n - 1) -> CellRecord]
           /\ \A j \in 0..(n - 1) :
                 /\ FeePaid(cs, fee_cell, fee)[j].reserved_out = cs[j].reserved_out
                 /\ FeePaid(cs, fee_cell, fee)[j].reserve >= cs[j].reserve
           /\ Reserves(FeePaid(cs, fee_cell, fee), n)
                = Reserves(cs, n) + (IF fee_cell = NoIndex THEN 0 ELSE fee)
<1>1. /\ fee \in Nat /\ Reserves(cs, n) \in Nat
      /\ \A j \in 0..(n - 1) : cs[j].reserve \in Nat
  BY AmountClosed, ReservesBound
<1>2. CASE fee_cell # NoIndex /\ fee > 0
  <2> DEFINE ds == Credit(cs, fee_cell, fee)
  <2>1. /\ ds \in [0..(n - 1) -> CellRecord]
        /\ ds[fee_cell].reserve = cs[fee_cell].reserve + fee
        /\ \A j \in 0..(n - 1) : j # fee_cell => ds[j] = cs[j]
        /\ \A j \in 0..(n - 1) : ds[j].reserved_out = cs[j].reserved_out
        /\ Reserves(ds, n) = Reserves(cs, n) + fee
    BY <1>2, CreditReserves
  <2>2. FeePaid(cs, fee_cell, fee) = ds
    BY <1>2 DEF FeePaid
  <2> HIDE DEF ds
  <2>3. \A j \in 0..(n - 1) : ds[j].reserve >= cs[j].reserve
    BY <1>1, <1>2, <2>1
  <2> QED
    BY <1>2, <2>1, <2>2, <2>3
<1>3. CASE ~(fee_cell # NoIndex /\ fee > 0)
  <2>1. FeePaid(cs, fee_cell, fee) = cs /\ (fee_cell = NoIndex \/ fee = 0)
    BY <1>1, <1>3 DEF FeePaid
  <2> QED
    BY <1>1, <2>1
<1> QED
  BY <1>2, <1>3

(***************************************************************************)
(* The payments of a settlement, on any cells that hold what is paid: the  *)
(* payer loses the gross, nobody else loses anything, commitments stay,    *)
(* and the sum loses the fee unless it is paid to a cell.                  *)
(***************************************************************************)
SettlementPaid(cs, payer, to, fee_cell, gross, net, fee) ==
    FeePaid(Credit(Debit(cs, payer, gross), to, net), fee_cell, fee)

\* The fee that no cell gets.
Uncredited(fee_cell, fee) == IF fee_cell = NoIndex THEN fee ELSE 0

Payment(cs, ds, n, payer, gross, fee_cell, fee) ==
    /\ ds \in [0..(n - 1) -> CellRecord]
    /\ \A j \in 0..(n - 1) : /\ ds[j].reserved_out = cs[j].reserved_out
                             /\ j # payer => ds[j].reserve >= cs[j].reserve
                             /\ ds[j].reserve >= cs[j].reserve - gross
    /\ Reserves(ds, n) = Reserves(cs, n) - Uncredited(fee_cell, fee)

LEMMA SettlementPayment ==
    ASSUME NEW n \in Nat, NEW cs \in [0..(n - 1) -> CellRecord],
           NEW payer \in 0..(n - 1), NEW to \in 0..(n - 1), NEW fee_cell,
           NEW gross \in Amount, NEW net \in Amount, NEW fee \in Amount,
           fee + net = gross, gross <= cs[payer].reserve,
           fee_cell # NoIndex => fee_cell \in 0..(n - 1),
           Reserves(cs, n) < AmountModulus
    PROVE  Payment(cs, SettlementPaid(cs, payer, to, fee_cell, gross, net, fee), n,
                   payer, gross, fee_cell, fee)
<1> DEFINE paid == Debit(cs, payer, gross)
           credited == Credit(paid, to, net)
           ds == FeePaid(credited, fee_cell, fee)
<1>1. /\ gross \in Nat /\ net \in Nat /\ fee \in Nat /\ AmountModulus \in Nat
      /\ Reserves(cs, n) \in Nat
      /\ \A j \in 0..(n - 1) : cs[j].reserve \in Nat
  BY AmountClosed, AmountAssumption, ReservesBound
<1>2. /\ paid \in [0..(n - 1) -> CellRecord]
      /\ paid[payer].reserve = cs[payer].reserve - gross
      /\ \A j \in 0..(n - 1) : j # payer => paid[j] = cs[j]
      /\ \A j \in 0..(n - 1) : paid[j].reserved_out = cs[j].reserved_out
      /\ Reserves(paid, n) = Reserves(cs, n) - gross
  BY DebitReserves
<1> HIDE DEF paid
<1>3. Reserves(paid, n) + net < AmountModulus
  BY <1>1, <1>2
<1>4. /\ credited \in [0..(n - 1) -> CellRecord]
      /\ credited[to].reserve = paid[to].reserve + net
      /\ \A j \in 0..(n - 1) : j # to => credited[j] = paid[j]
      /\ \A j \in 0..(n - 1) : credited[j].reserved_out = paid[j].reserved_out
      /\ Reserves(credited, n) = Reserves(paid, n) + net
  BY <1>2, <1>3, CreditReserves
<1> HIDE DEF credited
<1>5. Reserves(credited, n) + fee < AmountModulus
  BY <1>1, <1>2, <1>4
<1>6. /\ ds \in [0..(n - 1) -> CellRecord]
      /\ \A j \in 0..(n - 1) : /\ ds[j].reserved_out = credited[j].reserved_out
                               /\ ds[j].reserve >= credited[j].reserve
      /\ Reserves(ds, n) = Reserves(credited, n) + (IF fee_cell = NoIndex THEN 0 ELSE fee)
  BY <1>4, <1>5, FeePayment
<1> HIDE DEF ds
<1>7. /\ \A j \in 0..(n - 1) : ds[j].reserve \in Nat
      /\ \A j \in 0..(n - 1) : credited[j].reserve \in Nat
      /\ \A j \in 0..(n - 1) : paid[j].reserve \in Nat
  BY <1>2, <1>4, <1>6, AmountClosed DEF CellRecord
<1>8. ASSUME NEW j \in 0..(n - 1)
      PROVE  /\ ds[j].reserved_out = cs[j].reserved_out
             /\ j # payer => ds[j].reserve >= cs[j].reserve
             /\ ds[j].reserve >= cs[j].reserve - gross
  <2>1. ds[j].reserved_out = cs[j].reserved_out
    BY <1>2, <1>4, <1>6
  <2>2. credited[j].reserve >= paid[j].reserve
    <3>1. CASE j = to
      BY <1>1, <1>4, <1>7, <3>1
    <3>2. CASE j # to
      BY <1>4, <1>7, <3>2
    <3> QED
      BY <3>1, <3>2
  <2>3. ds[j].reserve >= paid[j].reserve
    BY <1>6, <1>7, <2>2
  <2>4. CASE j = payer
    BY <1>1, <1>2, <1>7, <2>1, <2>3, <2>4
  <2>5. CASE j # payer
    BY SMTT(60), <1>1, <1>2, <1>7, <2>1, <2>3, <2>5
  <2> QED
    BY <2>4, <2>5
<1>9. Reserves(ds, n) = Reserves(cs, n) - Uncredited(fee_cell, fee)
  <2>1. Reserves(credited, n) = Reserves(cs, n) - fee /\ Reserves(credited, n) \in Nat
    BY <1>1, <1>2, <1>4, ReservesBound
  <2>2. CASE fee_cell = NoIndex
    <3>1. Reserves(ds, n) = Reserves(credited, n) + 0
      BY <1>6, <2>2
    <3> QED
      BY <2>1, <2>2, <3>1 DEF Uncredited
  <2>3. CASE fee_cell # NoIndex
    <3>1. Reserves(ds, n) = Reserves(credited, n) + fee
      BY <1>6, <2>3
    <3> QED
      BY <1>1, <2>1, <2>3, <3>1 DEF Uncredited
  <2> QED
    BY <2>2, <2>3
<1>10. SettlementPaid(cs, payer, to, fee_cell, gross, net, fee) = ds
  BY DEF SettlementPaid, ds, credited, paid
<1> QED
  BY <1>6, <1>8, <1>9, <1>10 DEF Payment

\* A settlement leaves the commitments that remain covered.
LEMMA SettlementKeepsCover ==
    ASSUME SolvencyInv, NEW n, DOMAIN cells = 0..(n - 1),
           NEW ds \in [0..(n - 1) -> CellRecord],
           NEW payer \in 0..(n - 1), NEW origin \in 0..(n - 1), NEW gross \in Nat,
           gross <= cells[origin].reserved_out,
           payer # origin /\ gross > 0 =>
               cells[payer].reserve
                 >= cells[payer].reserved_out + MinReserveOf(payer) + gross,
           ds[origin].reserved_out = cells[origin].reserved_out - gross,
           \A j \in 0..(n - 1) :
              /\ j # origin => ds[j].reserved_out = cells[j].reserved_out
              /\ j # payer => ds[j].reserve >= cells[j].reserve
              /\ ds[j].reserve >= cells[j].reserve - gross
    PROVE  Covered(ds)
<1> SUFFICES ASSUME NEW c \in 0..(n - 1), ds[c].reserved_out > 0
             PROVE  ds[c].reserve >= ds[c].reserved_out + MinReserveOf(c)
  BY DEF Covered
<1>1. /\ cells[c].reserved_out \in Nat /\ cells[c].reserve \in Nat
      /\ MinReserveOf(c) \in Nat
      /\ cells[c].reserved_out > 0 =>
            cells[c].reserve >= cells[c].reserved_out + MinReserveOf(c)
  BY CellHolds
<1>2. ds[c].reserve \in Nat /\ ds[c].reserved_out \in Nat
  BY AmountClosed DEF CellRecord
<1>3. CASE c # payer
  <2>1. ds[c].reserved_out <= cells[c].reserved_out
    BY <1>1, <1>2
  <2>2. ds[c].reserve >= cells[c].reserve
    BY <1>3
  <2> QED
    BY SMTT(60), <1>1, <1>2, <2>1, <2>2
<1>4. CASE c = payer /\ c = origin
  <2>1. ds[c].reserved_out = cells[c].reserved_out - gross
    BY <1>4
  <2>2. ds[c].reserve >= cells[c].reserve - gross
    OBVIOUS
  <2> QED
    BY SMTT(60), <1>1, <1>2, <2>1, <2>2
<1>5. CASE c = payer /\ c # origin
  <2>1. ds[c].reserved_out = cells[c].reserved_out
    BY <1>5
  <2>2. ds[c].reserve >= cells[c].reserve - gross
    OBVIOUS
  <2>3. gross > 0 => cells[c].reserve >= cells[c].reserved_out + MinReserveOf(c) + gross
    BY <1>5
  <2> QED
    BY SMTT(60), <1>1, <1>2, <2>1, <2>2, <2>3
<1> QED
  BY <1>3, <1>4, <1>5

(***************************************************************************)
(* A settlement pays the gross of one pending receipt, releases what its   *)
(* origin reserved for it, and loses the fee if no cell gets it            *)
(* (pdtl_settle_receipt, pdtl_apply_settlement).                           *)
(***************************************************************************)
LEMMA SettleSolvent ==
    ASSUME SolvencyInv, SupplyFits, [Next]_vars, NEW r \in ReceiptArgs,
           NEW payer \in CellArgs, SettleReceipt(r, payer)
    PROVE  SolvencyInv'
<1>1. CASE UNCHANGED <<cells, cell_count, receipts, receipt_count, totals>>
  BY <1>1, Untouched
<1>2. CASE ~UNCHANGED <<cells, cell_count, receipts, receipt_count, totals>>
  <2> DEFINE origin == receipts[r].origin_cell
             to == receipts[r].beneficiary_cell
             gross == receipts[r].gross
             net == receipts[r].net
             fee == receipts[r].fee
             fee_cell == routes[receipts[r].route].fee_cell
             touched == {payer, to, origin, fee_cell}
             ps == SettlementPaid(cells, payer, to, fee_cell, gross, net, fee)
             ds == Release(ps, origin, gross)
             n == cell_count
  <2>1. /\ SettleError(r, payer) = "PDTL_OK"
        /\ cells' = SettledCells(receipts[r], payer, fee_cell)
        /\ UNCHANGED <<cell_count, receipt_count, totals>>
        /\ receipts' = [receipts EXCEPT ![r].paid_by_cell = payer, ![r].status = "settled"]
    BY <1>2 DEF SettleReceipt, Reject
  <2>2. cells' = Stamp(ds, touched)
    BY <2>1 DEF SettledCells, SettlementPaid, FeePaid
  <2>3. TypeOK
    BY DEF SolvencyInv, ReferenceInv
  <2>4. /\ n \in Nat /\ DOMAIN cells = 0..(n - 1) /\ cells \in [0..(n - 1) -> CellRecord]
        /\ DOMAIN receipts = 0..(receipt_count - 1)
    BY Holdings
  <2>5. /\ r \in 0..(receipt_count - 1) /\ receipts[r] \in ReceiptRecord
        /\ payer \in 0..(n - 1) /\ origin \in 0..(n - 1) /\ to \in 0..(n - 1)
        /\ fee_cell # NoIndex => fee_cell \in 0..(n - 1)
    BY <2>1, <2>3, <2>4, SettlementShape
  <2>6. /\ gross \in Amount /\ net \in Amount /\ fee \in Amount
        /\ gross \in Nat /\ fee \in Nat
    BY <2>5, AmountClosed DEF ReceiptRecord
  <2>7. /\ receipts[r].status = "pending"
        /\ gross <= cells[payer].reserve
        /\ gross <= cells[origin].reserved_out
        /\ payer # origin /\ gross > 0 =>
              cells[payer].reserve
                >= cells[payer].reserved_out + MinReserveOf(payer) + gross
        /\ fee + net = gross
        /\ receipts[r].route_digest.fee_cell = fee_cell
    BY <2>1, SettlementCovered
  <2> HIDE DEF origin, to, gross, net, fee, fee_cell, touched, n
  <2>8. Reserves(cells, n) < AmountModulus
    BY Room DEF n
  <2>9. /\ ps \in [0..(n - 1) -> CellRecord]
        /\ \A j \in 0..(n - 1) :
              /\ ps[j].reserved_out = cells[j].reserved_out
              /\ j # payer => ps[j].reserve >= cells[j].reserve
              /\ ps[j].reserve >= cells[j].reserve - gross
        /\ Reserves(ps, n) = Reserves(cells, n) - Uncredited(fee_cell, fee)
    <3>1. /\ n \in Nat /\ cells \in [0..(n - 1) -> CellRecord]
          /\ payer \in 0..(n - 1) /\ to \in 0..(n - 1)
          /\ gross \in Amount /\ net \in Amount /\ fee \in Amount
          /\ fee + net = gross /\ gross <= cells[payer].reserve
          /\ fee_cell # NoIndex => fee_cell \in 0..(n - 1)
          /\ Reserves(cells, n) < AmountModulus
      BY <2>4, <2>5, <2>6, <2>7, <2>8
    <3>2. Payment(cells, SettlementPaid(cells, payer, to, fee_cell, gross, net, fee), n,
                  payer, gross, fee_cell, fee)
      BY <3>1, SettlementPayment
    <3> QED
      BY <3>2 DEF Payment
  <2> HIDE DEF ps
  <2>10. gross <= ps[origin].reserved_out
    BY <2>5, <2>7, <2>9
  <2>11. /\ ds \in [0..(n - 1) -> CellRecord]
         /\ ds[origin].reserved_out = ps[origin].reserved_out - gross
         /\ \A j \in 0..(n - 1) : j # origin => ds[j] = ps[j]
         /\ \A j \in 0..(n - 1) : ds[j].reserve = ps[j].reserve
         /\ Reserves(ds, n) = Reserves(ps, n)
    <3>1. /\ n \in Nat /\ ps \in [0..(n - 1) -> CellRecord] /\ origin \in 0..(n - 1)
          /\ gross \in Amount /\ gross <= ps[origin].reserved_out
      BY <2>4, <2>5, <2>6, <2>9, <2>10
    <3> QED
      BY <3>1, ReleaseReserves
  <2> HIDE DEF ds
  <2>12. /\ ds[origin].reserved_out = cells[origin].reserved_out - gross
         /\ \A j \in 0..(n - 1) :
               /\ j # origin => ds[j].reserved_out = cells[j].reserved_out
               /\ j # payer => ds[j].reserve >= cells[j].reserve
               /\ ds[j].reserve >= cells[j].reserve - gross
    BY <2>5, <2>9, <2>11
  <2>13. Covered(ds)
    <3>1. /\ DOMAIN cells = 0..(n - 1) /\ ds \in [0..(n - 1) -> CellRecord]
          /\ payer \in 0..(n - 1) /\ origin \in 0..(n - 1) /\ gross \in Nat
          /\ gross <= cells[origin].reserved_out
          /\ payer # origin /\ gross > 0 =>
                cells[payer].reserve
                  >= cells[payer].reserved_out + MinReserveOf(payer) + gross
      BY <2>4, <2>5, <2>6, <2>7, <2>11
    <3> QED
      BY <2>12, <3>1, SettlementKeepsCover
  <2>14. /\ \A c : PendingSum(receipts', receipt_count', c)
                      = PendingSum(receipts, receipt_count, c) - PendingTerm(receipts[r], c)
         /\ LostSum(receipts', receipt_count')
              = LostSum(receipts, receipt_count) + LostTerm(receipts'[r])
         /\ LostTerm(receipts'[r]) =
              IF "settled" = "settled" /\ receipts[r].route_digest.fee_cell = NoIndex
              THEN receipts[r].fee ELSE 0
    BY <2>1, <2>3, <2>5, <2>7, ResolvedReceiptSums
  <2>15. Committed(ds, receipts', receipt_count')
    <3>1. /\ \A j \in 0..(n - 1) : j # origin => ds[j].reserved_out = cells[j].reserved_out
          /\ origin = receipts[r].origin_cell
          /\ ds[origin].reserved_out = cells[origin].reserved_out - receipts[r].gross
          /\ receipts[r].status = "pending"
      BY <2>7, <2>12 DEF origin, gross
    <3> QED
      BY <2>5, <2>11, <2>14, <3>1, CommitmentReleased DEF n
  <2>16. Reserves(ds, cell_count) + totals'.external_withdrawals
           + LostSum(receipts', receipt_count') = totals'.initial_supply
    <3>1. /\ Reserves(cells, n) \in Nat /\ LostSum(receipts, receipt_count) \in Nat
          /\ totals.external_withdrawals \in Nat /\ totals.initial_supply \in Nat
          /\ Reserves(cells, n) + totals.external_withdrawals
               + LostSum(receipts, receipt_count) = totals.initial_supply
      BY Holdings DEF n
    <3>2. totals' = totals
      BY <2>1
    <3>3. CASE fee_cell = NoIndex
      <4>1. LostTerm(receipts'[r]) = fee
        BY <2>7, <2>14, <3>3 DEF fee
      <4>2. LostSum(receipts', receipt_count') = LostSum(receipts, receipt_count) + fee
        BY <2>14, <4>1
      <4>3. Reserves(ds, n) = Reserves(cells, n) - fee
        BY <2>9, <2>11, <3>3 DEF Uncredited
      <4> QED
        BY <2>6, <3>1, <3>2, <4>2, <4>3 DEF n
    <3>4. CASE fee_cell # NoIndex
      <4>1. LostTerm(receipts'[r]) = 0
        BY <2>7, <2>14, <3>4
      <4>2. LostSum(receipts', receipt_count') = LostSum(receipts, receipt_count)
        BY <2>14, <3>1, <4>1
      <4>3. Reserves(ds, n) = Reserves(cells, n)
        BY <2>9, <2>11, <3>1, <3>4 DEF Uncredited
      <4> QED
        BY <3>1, <3>2, <4>2, <4>3 DEF n
    <3> QED
      BY <3>3, <3>4
  <2>17. ds \in [0..(cell_count - 1) -> CellRecord] /\ totals'.initial_supply <= MaxSupply
    BY <2>1, <2>11, Holdings DEF n
  <2> QED
    BY <2>1, <2>2, <2>13, <2>15, <2>16, <2>17, SolventStamped
<1> QED
  BY <1>1, <1>2

-----------------------------------------------------------------------------
(* Every call of every caller, and the results.                            *)

\* Every call keeps the invariant.
LEMMA NextSolvent ==
    ASSUME SolvencyInv, SupplyFits, [Next]_vars
    PROVE  SolvencyInv'
<1>1. CASE Setup
  <2>1. CASE \E n \in PolicyNames \cup {NoName}, f \in Flags, m \in MinReserves,
                b \in BpsValues : AddPolicy(n, f, m, b)
    <3>1. UNCHANGED <<cells, cell_count, receipts, receipt_count, totals>>
      BY <2>1 DEF AddPolicy, Reject
    <3> QED
      BY <3>1, Untouched
  <2>2. CASE \E n \in RouteNames \cup {NoName}, a \in AssetNames, p \in PolicyNames,
                b \in BpsValues, c \in CellArgs : AddRoute(n, a, p, b, c)
    <3>1. UNCHANGED <<cells, cell_count, receipts, receipt_count, totals>>
      BY <2>2 DEF AddRoute, Reject
    <3> QED
      BY <3>1, Untouched
  <2>3. CASE \E o \in OwnerNames \cup {NoName}, a \in AssetNames, n \in RouteNames,
                p \in PolicyNames : CreateCell(o, a, n, p)
    BY <2>3, CreateCellSolvent
  <2> QED
    BY <1>1, <2>1, <2>2, <2>3 DEF Setup
<1>2. CASE Movement
  BY <1>2, DepositSolvent, TransferSolvent, ConsolidateSolvent, WithdrawSolvent DEF Movement
<1>3. CASE ReceiptLife
  BY <1>3, IssueSolvent, SettleSolvent, CancelSolvent DEF ReceiptLife
<1>4. CASE RouteControl
  <2>1. UNCHANGED <<cells, cell_count, receipts, receipt_count, totals>>
    BY <1>4 DEF RouteControl, UpdateRouteFee, CloseRoute, Reject, vars
  <2> QED
    BY <2>1, Untouched
<1>5. CASE ClearError \/ UNCHANGED vars
  <2>1. UNCHANGED <<cells, cell_count, receipts, receipt_count, totals>>
    BY <1>5 DEF ClearError, vars
  <2> QED
    BY <2>1, Untouched
<1> QED
  BY <1>1, <1>2, <1>3, <1>4, <1>5 DEF Next

\* An empty ledger is solvent.
LEMMA InitSolvent == Init => SolvencyInv
<1> SUFFICES ASSUME Init PROVE SolvencyInv
  OBVIOUS
<1>1. ReferenceInv
  BY InitReferences
<1>2. /\ DOMAIN cells = {} /\ cell_count = 0 /\ receipt_count = 0
      /\ totals.initial_supply = 0 /\ totals.external_withdrawals = 0
  BY DEF Init
<1>3. ReservedOutIsPending /\ CommitmentsCovered
  BY <1>2 DEF ReservedOutIsPending, CommitmentsCovered
<1>4. SumReserves = 0 /\ UncreditedFees = 0
  BY <1>2, PrefixSumZero, Zenon DEF SumReserves, UncreditedFees
<1>5. SupplyAccountedFor
  BY <1>2, <1>4 DEF SupplyAccountedFor
<1> QED
  BY <1>1, <1>2, <1>3, <1>5, LedgerAssumption DEF SolvencyInv, Solvent

\* The solvency invariant holds as long as the supply fits an amount.
THEOREM SolvencyHolds == SupplyFits => (Spec => []SolvencyInv)
<1> SUFFICES ASSUME SupplyFits PROVE Spec => []SolvencyInv
  OBVIOUS
<1>1. SolvencyInv /\ [Next]_vars => SolvencyInv'
  BY NextSolvent
<1> QED
  BY <1>1, InitSolvent, PTL DEF Spec

(***************************************************************************)
(* reserved_out, which issue, settle and cancel each adjust, is always the *)
(* gross of the pending receipts the cell issued.                          *)
(***************************************************************************)
THEOREM CommitmentsCorrect == SupplyFits => (Spec => []ReservedOutIsPending)
<1>1. SolvencyInv => ReservedOutIsPending
  BY DEF SolvencyInv, Solvent
<1> QED
  BY <1>1, SolvencyHolds, PTL

(***************************************************************************)
(* pdtl_cell_available guards what is committed: whoever pays, a cell with *)
(* commitments holds them and its minimum reserve.                         *)
(***************************************************************************)
THEOREM CoverageCorrect == SupplyFits => (Spec => []CommitmentsCovered)
<1>1. SolvencyInv => CommitmentsCovered
  BY DEF SolvencyInv, Solvent
<1> QED
  BY <1>1, SolvencyHolds, PTL

(***************************************************************************)
(* Deposits, transfers, consolidations, settlements and withdrawals never  *)
(* lose or make a unit, but for fees no cell was named for.                *)
(***************************************************************************)
THEOREM SupplyCorrect == SupplyFits => (Spec => []SupplyAccountedFor)
<1>1. SolvencyInv => SupplyAccountedFor
  BY DEF SolvencyInv, Solvent
<1> QED
  BY <1>1, SolvencyHolds, PTL

-----------------------------------------------------------------------------
(* What solvency is good for.                                              *)

\* A pending receipt's gross is part of what its origin has reserved.
LEMMA PendingCommitted ==
    ASSUME SolvencyInv, SupplyFits, NEW r \in DOMAIN receipts, receipts[r].status = "pending"
    PROVE  /\ receipts[r].origin_cell \in DOMAIN cells
           /\ ~(cells[receipts[r].origin_cell].reserved_out < receipts[r].gross)
<1> DEFINE origin == receipts[r].origin_cell
<1>1. TypeOK /\ ReceiptsRefer
  BY DEF SolvencyInv, ReferenceInv, ReferencesOK
<1>2. receipts[r] \in ReceiptRecord
  BY <1>1 DEF TypeOK, ReceiptsTyped
<1>3. origin \in DOMAIN cells
  BY <1>1, <1>2, Slots DEF ReceiptsRefer, ReceiptRecord, CellArgs
<1>4. receipts[r].gross \in Nat
  BY <1>2, AmountClosed DEF ReceiptRecord
<1>5. PendingTerm(receipts[r], origin) = receipts[r].gross
  BY DEF PendingTerm
<1> HIDE DEF origin
<1>6. /\ PendingTerm(receipts[r], origin) <= PendingSum(receipts, receipt_count, origin)
      /\ PendingSum(receipts, receipt_count, origin) \in Nat
  BY Holdings, ReceiptSums
<1>7. cells[origin].reserved_out = PendingSum(receipts, receipt_count, origin)
  BY <1>3, CellHolds
<1> QED
  BY <1>3, <1>4, <1>5, <1>6, <1>7 DEF origin

\* A call that appends to the journal keeps last_error or reports the capacity.
LEMMA AppendedError ==
    ASSUME NEW entries, AppendJournal(entries)
    PROVE  last_error' \in {last_error, "PDTL_ERR_CAPACITY"}
BY DEF AppendJournal

ReconciliationError == "PDTL_ERR_RECONCILIATION"

\* The underflow guards do not stop a settlement.
LEMMA SettleReconciles ==
    ASSUME SolvencyInv, SupplyFits, NEW r \in ReceiptArgs, NEW payer \in CellArgs
    PROVE  SettleError(r, payer) # ReconciliationError
<1>1. ShapeError(r, payer) # ReconciliationError
  BY DEF ShapeError, ReconciliationError
<1>2. CASE ShapeError(r, payer) = "PDTL_OK"
  <2>1. TypeOK /\ IsReceipt(r) /\ receipts[r].status = "pending"
    BY <1>2 DEF SolvencyInv, ReferenceInv, ShapeError
  <2>2. r \in DOMAIN receipts
    BY <2>1, Slots
  <2>3. ~(cells[receipts[r].origin_cell].reserved_out < receipts[r].gross)
    BY <2>1, <2>2, PendingCommitted
  <2> QED
    BY <1>2, <2>3 DEF SettleError, ApplyError, ReconciliationError
<1> QED
  BY <1>1, <1>2 DEF SettleError

\* Nor a cancellation.
LEMMA CancelReconciles ==
    ASSUME SolvencyInv, SupplyFits, NEW r \in ReceiptArgs
    PROVE  CancelError(r) # ReconciliationError
<1>1. CASE IsReceipt(r) /\ receipts[r].status = "pending"
  <2>1. TypeOK
    BY DEF SolvencyInv, ReferenceInv
  <2>2. r \in DOMAIN receipts
    BY <1>1, <2>1, Slots
  <2>3. ~(cells[receipts[r].origin_cell].reserved_out < receipts[r].gross)
    BY <1>1, <2>2, PendingCommitted
  <2> QED
    BY <2>3 DEF CancelError, ReconciliationError
<1>2. CASE ~(IsReceipt(r) /\ receipts[r].status = "pending")
  BY <1>2 DEF CancelError, ReconciliationError
<1> QED
  BY <1>1, <1>2

\* No call reports a reconciliation error.
LEMMA NextReconciles ==
    ASSUME SolvencyInv, SupplyFits, [Next]_vars, last_error # ReconciliationError
    PROVE  last_error' # ReconciliationError
<1> USE DEF ReconciliationError
<1>1. CASE Setup
  <2>1. ASSUME NEW n, NEW f, NEW m, NEW b, AddPolicy(n, f, m, b)
        PROVE  last_error' # ReconciliationError
    BY <2>1 DEF AddPolicy, AddPolicyError, Reject
  <2>2. ASSUME NEW n, NEW a, NEW p, NEW b, NEW c, AddRoute(n, a, p, b, c)
        PROVE  last_error' # ReconciliationError
    BY <2>2 DEF AddRoute, AddRouteError, Reject
  <2>3. ASSUME NEW o, NEW a, NEW n, NEW p, CreateCell(o, a, n, p)
        PROVE  last_error' # ReconciliationError
    BY <2>3, AppendedError DEF CreateCell, CreateCellError, Reject
  <2> QED
    BY <1>1, <2>1, <2>2, <2>3 DEF Setup
<1>2. CASE Movement
  <2>1. ASSUME NEW c, NEW a, DepositGenesis(c, a)
        PROVE  last_error' # ReconciliationError
    BY <2>1, AppendedError DEF DepositGenesis, DepositGenesisError, Reject
  <2>2. ASSUME NEW f, NEW t, NEW a, TransferBetweenCells(f, t, a)
        PROVE  last_error' # ReconciliationError
    BY <2>2, AppendedError DEF TransferBetweenCells, TransferError, Reject
  <2>3. ASSUME NEW t, NEW s, ConsolidateCell(t, s)
        PROVE  last_error' # ReconciliationError
    BY <2>3, AppendedError DEF ConsolidateCell, ConsolidateError, Reject
  <2>4. ASSUME NEW c, NEW a, Withdraw(c, a)
        PROVE  last_error' # ReconciliationError
    BY <2>4, AppendedError DEF Withdraw, WithdrawError, Reject
  <2> QED
    BY <1>2, <2>1, <2>2, <2>3, <2>4 DEF Movement
<1>3. CASE ReceiptLife
  <2>1. ASSUME NEW o, NEW b, NEW a, IssueReceipt(o, b, a)
        PROVE  last_error' # ReconciliationError
    BY <2>1, AppendedError DEF IssueReceipt, IssueError, Reject
  <2>2. ASSUME NEW r \in ReceiptArgs, NEW p \in CellArgs, SettleReceipt(r, p)
        PROVE  last_error' # ReconciliationError
    BY <2>2, AppendedError, SettleReconciles DEF SettleReceipt, Reject
  <2>3. ASSUME NEW r \in ReceiptArgs, CancelReceipt(r)
        PROVE  last_error' # ReconciliationError
    BY <2>3, AppendedError, CancelReconciles DEF CancelReceipt, Reject
  <2> QED
    BY <1>3, <2>1, <2>2, <2>3 DEF ReceiptLife
<1>4. CASE RouteControl
  <2>1. ASSUME NEW n, NEW b, NEW c, UpdateRouteFee(n, b, c)
        PROVE  last_error' # ReconciliationError
    BY <2>1, AppendedError DEF UpdateRouteFee, UpdateRouteFeeError, Reject
  <2>2. ASSUME NEW n, CloseRoute(n)
        PROVE  last_error' # ReconciliationError
    BY <2>2, AppendedError DEF CloseRoute, CloseRouteError, Reject, vars
  <2> QED
    BY <1>4, <2>1, <2>2 DEF RouteControl
<1>5. CASE ClearError \/ UNCHANGED vars
  BY <1>5 DEF ClearError, vars
<1> QED
  BY <1>1, <1>2, <1>3, <1>4, <1>5 DEF Next

(***************************************************************************)
(* The underflow guards of pdtl_apply_settlement and pdtl_cancel_receipt   *)
(* are never the ones that stop a call.                                    *)
(***************************************************************************)
THEOREM ReconciliationNeverFails == SupplyFits => (Spec => NoReconciliationError)
<1> SUFFICES ASSUME SupplyFits PROVE Spec => NoReconciliationError
  OBVIOUS
<1> DEFINE Quiet == last_error # ReconciliationError
           QuietNext == last_error' # "PDTL_ERR_RECONCILIATION"
<1>1. Init => Quiet
  BY DEF Init, ReconciliationError
<1>2. SolvencyInv /\ Quiet /\ [Next]_vars => Quiet' /\ QuietNext
  BY NextReconciles DEF ReconciliationError
<1>3. Spec => []SolvencyInv
  BY SolvencyHolds
<1>4. Spec => [][QuietNext]_vars
  BY <1>1, <1>2, <1>3, PTL DEF Spec
<1> QED
  BY <1>4 DEF NoReconciliationError

-----------------------------------------------------------------------------
(* The exposure of a route (pdtl_route_exposure).                          *)

\* the cells of a route, and zero for the others
OfRoute(name, amounts) ==
    [i \in DOMAIN cells |-> IF cells[i].route = name THEN amounts[i] ELSE 0]

\* what a route holds, has available and has reserved, before the cut to 64 bits
HeldBy(name) == PrefixSum(OfRoute(name, [i \in DOMAIN cells |-> cells[i].reserve]), cell_count)

FreeOn(name) == PrefixSum(OfRoute(name, [i \in DOMAIN cells |-> Available(i)]), cell_count)

ReservedOn(name) ==
    PrefixSum(OfRoute(name, [i \in DOMAIN cells |-> cells[i].reserved_out]), cell_count)

\* What is available and what is reserved are parts of the reserve, cell by cell.
LEMMA CellParts ==
    ASSUME SolvencyInv, NEW c \in DOMAIN cells
    PROVE  /\ Available(c) \in Nat /\ cells[c].reserved_out \in Nat /\ cells[c].reserve \in Nat
           /\ Available(c) + cells[c].reserved_out <= cells[c].reserve
<1>1. /\ cells[c].reserve \in Nat /\ cells[c].reserve < AmountModulus
      /\ cells[c].reserved_out \in Nat /\ MinReserveOf(c) \in Nat
      /\ cells[c].reserved_out > 0 =>
            cells[c].reserve >= cells[c].reserved_out + MinReserveOf(c)
  BY CellHolds
<1>2. Available(c) \in Amount /\ Available(c) \in Nat
  <2>1. Plus(cells[c].reserved_out, MinReserveOf(c)) \in Nat
    BY CellHolds, AmountClosed
  <2>2. Available(c) \in Nat /\ Available(c) <= cells[c].reserve
    BY <1>1, <2>1 DEF Available, MinReserveOf
  <2> QED
    BY <1>1, <2>2, AmountAssumption DEF Amount
<1>3. /\ Available(c) <= cells[c].reserve
      /\ Available(c) > 0 =>
            cells[c].reserve >= cells[c].reserved_out + MinReserveOf(c) + Available(c)
  BY <1>2, AvailableMeans
<1> QED
  BY <1>1, <1>2, <1>3

\* So they are route by route, and nothing is cut.
LEMMA RouteParts ==
    ASSUME SolvencyInv, SupplyFits, NEW name
    PROVE  /\ HeldBy(name) \in Amount /\ FreeOn(name) \in Amount /\ ReservedOn(name) \in Amount
           /\ FreeOn(name) + ReservedOn(name) <= HeldBy(name)
<1> DEFINE n == cell_count
           held == OfRoute(name, [i \in DOMAIN cells |-> cells[i].reserve])
           free == OfRoute(name, [i \in DOMAIN cells |-> Available(i)])
           reserved == OfRoute(name, [i \in DOMAIN cells |-> cells[i].reserved_out])
           all == [i \in DOMAIN cells |-> cells[i].reserve]
           none == [i \in DOMAIN cells |-> 0]
<1>1. n \in Nat /\ DOMAIN cells = 0..(n - 1)
  BY Holdings
<1>2. \A i \in 0..(n - 1) :
         /\ held[i] \in Nat /\ free[i] \in Nat /\ reserved[i] \in Nat /\ all[i] \in Nat
         /\ free[i] + reserved[i] <= held[i] /\ held[i] + none[i] <= all[i] /\ none[i] \in Nat
  BY <1>1, CellParts DEF OfRoute
<1> HIDE DEF held, free, reserved, all, none
<1>3. /\ NatTerms(held, n) /\ NatTerms(free, n) /\ NatTerms(reserved, n) /\ NatTerms(all, n)
      /\ NatTerms(none, n)
  BY <1>2 DEF NatTerms
<1>4. PrefixSum(free, n) + PrefixSum(reserved, n) <= PrefixSum(held, n)
  BY <1>1, <1>2, <1>3, SumWithin
<1>5. PrefixSum(held, n) + PrefixSum(none, n) <= PrefixSum(all, n)
  BY <1>1, <1>2, <1>3, SumWithin
<1>6. /\ PrefixSum(held, n) \in Nat /\ PrefixSum(free, n) \in Nat
      /\ PrefixSum(reserved, n) \in Nat /\ PrefixSum(none, n) \in Nat
  BY <1>1, <1>3, SumBound
<1>7. PrefixSum(all, n) \in Nat /\ PrefixSum(all, n) < AmountModulus
  BY Room DEF Reserves, all, n
<1> QED
  BY <1>4, <1>5, <1>6, <1>7, AmountAssumption
     DEF HeldBy, FreeOn, ReservedOn, held, free, reserved, n, Amount

\* The totals of the report are those sums.
LEMMA RouteTotals ==
    ASSUME SolvencyInv, SupplyFits, NEW name
    PROVE  /\ RouteReserveTotal(name) = HeldBy(name)
           /\ RouteAvailableTotal(name) = FreeOn(name)
           /\ RouteReservedTotal(name) = ReservedOn(name)
<1>1. \A a \in Amount : a % AmountModulus = a
  BY AmountAssumption DEF Amount
<1>2. /\ RouteReserveTotal(name) = HeldBy(name) % AmountModulus
      /\ RouteAvailableTotal(name) = FreeOn(name) % AmountModulus
      /\ RouteReservedTotal(name) = ReservedOn(name) % AmountModulus
  BY DEF RouteReserveTotal, RouteAvailableTotal, RouteReservedTotal, RouteSum, HeldBy, FreeOn,
     ReservedOn, OfRoute
<1> QED
  BY <1>1, <1>2, RouteParts

\* What the cells of a route have reserved is what its pending receipts ask for.
LEMMA ReservedByRoute ==
    ASSUME SolvencyInv, SupplyFits, NEW name
    PROVE  ReservedOn(name)
             = PrefixSum([r \in DOMAIN receipts |->
                            IF receipts[r].route = name /\ receipts[r].status = "pending"
                            THEN receipts[r].gross ELSE 0], receipt_count)
<1> DEFINE n == cell_count
           m == receipt_count
           f == [r \in DOMAIN receipts |->
                    IF receipts[r].route = name /\ receipts[r].status = "pending"
                    THEN receipts[r].gross ELSE 0]
           own == [r \in DOMAIN receipts |-> receipts[r].origin_cell]
           reserved == OfRoute(name, [i \in DOMAIN cells |-> cells[i].reserved_out])
<1>1. /\ n \in Nat /\ DOMAIN cells = 0..(n - 1)
      /\ m \in Nat /\ DOMAIN receipts = 0..(m - 1)
      /\ receipts \in [0..(m - 1) -> ReceiptRecord]
  BY Holdings
<1>2. f \in [0..(m - 1) -> Nat]
  BY <1>1, AmountClosed DEF ReceiptRecord
<1>3. \A r \in 0..(m - 1) : /\ own[r] = receipts[r].origin_cell /\ own[r] \in 0..(n - 1)
                            /\ receipts[r].route = cells[own[r]].route
  <2>1. TypeOK /\ ReceiptsRefer
    BY DEF SolvencyInv, ReferenceInv, ReferencesOK
  <2>2. ASSUME NEW r \in 0..(m - 1) PROVE receipts[r].origin_cell \in 0..(n - 1)
    BY <1>1, <2>1, Slots DEF ReceiptsRefer, ReceiptRecord, CellArgs
  <2> QED
    BY <1>1, <2>1, <2>2 DEF ReceiptsRefer
<1>4. ASSUME NEW i \in 0..(n - 1)
      PROVE  reserved[i] = PrefixSum(OwnTerms(f, own, i), m)
  <2> DEFINE g == OwnTerms(f, own, i)
             asked == [r \in DOMAIN receipts |-> PendingTerm(receipts[r], i)]
  <2>1. cells[i].reserved_out = PrefixSum(asked, m)
    BY <1>1, CellHolds DEF PendingSum
  <2>2. CASE cells[i].route = name
    <3>1. \A r \in 0..(m - 1) : g[r] = asked[r]
      BY <1>1, <1>3, <2>2 DEF OwnTerms, PendingTerm
    <3> HIDE DEF g, asked
    <3>2. PrefixSum(g, m) = PrefixSum(asked, m)
      BY <1>1, <3>1, PrefixSumSame
    <3>3. reserved[i] = cells[i].reserved_out
      BY <1>1, <2>2 DEF OfRoute
    <3> QED
      BY <2>1, <3>2, <3>3 DEF g
  <2>3. CASE cells[i].route # name
    <3>1. \A r \in 0..(m - 1) : g[r] = 0
      BY <1>1, <1>3, <2>3 DEF OwnTerms
    <3> HIDE DEF g
    <3>2. PrefixSum(g, m) = 0
      BY <1>1, <3>1, SumNothing
    <3>3. reserved[i] = 0
      BY <1>1, <2>3 DEF OfRoute
    <3> QED
      BY <3>2, <3>3 DEF g
  <2> QED
    BY <2>2, <2>3
<1>5. reserved = Shares(f, own, n, m)
  BY <1>1, <1>4 DEF Shares, OfRoute
<1>6. \A r \in 0..(m - 1) : own[r] \in 0..(n - 1)
  BY <1>3
<1> HIDE DEF f, own, reserved
<1>7. PrefixSum(Shares(f, own, n, m), n) = PrefixSum(f, m)
  BY <1>1, <1>2, <1>6, SumByOwner
<1> QED
  BY <1>5, <1>7 DEF ReservedOn, reserved, f, n, m

\* A percent is a whole number of basis points, as with the 10000 of the code.
WholePercents == BpsScale % 100 = 0

\* The shares that the exposure report computes stay within their wholes.
LEMMA ExposureBounds ==
    ASSUME SolvencyInv, SupplyFits, WholePercents, NEW name \in DOMAIN routes
    PROVE  /\ UtilizationBps(name) \in 0..BpsScale /\ HealthScore(name) \in 0..100
           /\ MaxExitBudget(name) <= RouteReserveTotal(name)
<1> DEFINE held == HeldBy(name)
           reserved == ReservedOn(name)
           cut == (reserved * BpsScale) % AmountModulus
<1>1. /\ held \in Nat /\ reserved \in Nat /\ reserved <= held /\ BpsScale \in Nat \ {0}
      /\ held \in Amount
  BY RouteParts, AmountAssumption DEF Amount
<1>2. RouteReserveTotal(name) = held /\ RouteReservedTotal(name) = reserved
  BY RouteTotals
<1> HIDE DEF held, reserved
<1>3. cut \in Nat /\ cut <= BpsScale * held
  <2>1. reserved * BpsScale \in Nat /\ reserved * BpsScale <= BpsScale * held
    BY <1>1
  <2>2. cut \in Nat /\ cut <= reserved * BpsScale
    BY <2>1, AmountAssumption
  <2> QED
    BY <1>1, <2>1, <2>2
<1>4. UtilizationBps(name) = IF held = 0 THEN 0 ELSE (cut \div held) % WordModulus
  BY <1>2 DEF UtilizationBps
<1> HIDE DEF cut
<1>5. UtilizationBps(name) \in 0..BpsScale
  <2>1. CASE held = 0
    BY <1>1, <1>4, <2>1
  <2>2. CASE held # 0
    <3>1. cut \div held \in 0..BpsScale
      BY <1>1, <1>3, <2>2, Quotient
    <3>2. \A k \in Nat : k % WordModulus \in 0..k
      BY AmountAssumption
    <3> QED
      BY <1>1, <1>4, <2>2, <3>1, <3>2
  <2> QED
    BY <2>1, <2>2
<1>6. HealthScore(name) \in 0..100
  <2> DEFINE u == UtilizationBps(name)
             percent == BpsScale \div 100
  <2>1. percent \in Nat \ {0} /\ BpsScale = 100 * percent
    BY <1>1 DEF WholePercents
  <2>2. u \in Nat /\ u <= 100 * percent
    BY <1>5, <2>1
  <2>3. HealthScore(name) = IF u >= BpsScale THEN 0 ELSE 100 - (u \div percent)
    BY DEF HealthScore
  <2> HIDE DEF u, percent
  <2>4. u \div percent \in 0..100
    BY <2>1, <2>2, Quotient
  <2> QED
    BY <2>3, <2>4
<1>7. MaxExitBudget(name) <= RouteReserveTotal(name)
  <2> DEFINE rate == policies[routes[name].policy].max_exit_bps
  <2>1. rate \in 0..BpsScale
    <3>1. TypeOK /\ RoutesRefer
      BY DEF SolvencyInv, ReferenceInv, ReferencesOK
    <3>2. policies[routes[name].policy] \in PolicyRecord
      BY <3>1 DEF RoutesRefer, IsPolicy, TypeOK, PoliciesTyped
    <3> QED
      BY <3>2 DEF PolicyRecord
  <2>2. MaxExitBudget(name) = FeeOf(held, rate)
    BY <1>2 DEF MaxExitBudget, FeeOf
  <2> HIDE DEF rate
  <2>3. FeeOf(held, rate) \in 0..held
    BY <1>1, <2>1, FeeWithinGross
  <2> QED
    BY <1>1, <1>2, <2>2, <2>3
<1> QED
  BY <1>5, <1>6, <1>7

\* The figures of pdtl_route_exposure in an invariant state.
LEMMA ExposureSound ==
    ASSUME SolvencyInv, SupplyFits
    PROVE  ExposureAgrees /\ (WholePercents => ExposureWithinReserves)
<1>1. ASSUME NEW name \in DOMAIN routes
      PROVE  RouteGross(name, "pending") = RouteReservedTotal(name)
  <2>1. RouteGross(name, "pending") = ReservedOn(name) % AmountModulus
    BY ReservedByRoute DEF RouteGross
  <2>2. RouteReservedTotal(name) = ReservedOn(name) % AmountModulus
    BY DEF RouteReservedTotal, RouteSum, ReservedOn, OfRoute
  <2> QED
    BY <2>1, <2>2
<1>2. ASSUME WholePercents, NEW name \in DOMAIN routes
      PROVE  /\ UtilizationBps(name) <= BpsScale /\ HealthScore(name) \in 0..100
             /\ RouteAvailableTotal(name) + RouteReservedTotal(name) <= RouteReserveTotal(name)
             /\ MaxExitBudget(name) <= RouteReserveTotal(name)
  <2>1. /\ UtilizationBps(name) \in 0..BpsScale /\ HealthScore(name) \in 0..100
        /\ MaxExitBudget(name) <= RouteReserveTotal(name)
    BY <1>2, ExposureBounds
  <2>2. RouteAvailableTotal(name) + RouteReservedTotal(name) <= RouteReserveTotal(name)
    BY RouteTotals, RouteParts
  <2> QED
    BY <2>1, <2>2
<1> QED
  BY <1>1, <1>2 DEF ExposureAgrees, ExposureWithinReserves, RouteExposure

(***************************************************************************)
(* The cells of a route and its receipts tell the same commitment, so a    *)
(* route that passes the first check of pdtl_close_route passes the second.*)
(***************************************************************************)
THEOREM ExposureConsistent == SupplyFits => (Spec => []ExposureAgrees)
<1> SUFFICES ASSUME SupplyFits PROVE Spec => []ExposureAgrees
  OBVIOUS
<1>1. SolvencyInv => ExposureAgrees
  BY ExposureSound
<1> QED
  BY <1>1, SolvencyHolds, PTL

(***************************************************************************)
(* The exposure report never shows a route beyond its reserves: its        *)
(* utilization is at most the whole, its health score does not wrap below  *)
(* zero, its exit budget and what it has available are in the reserves.    *)
(***************************************************************************)
THEOREM ExposureBounded == SupplyFits /\ WholePercents => (Spec => []ExposureWithinReserves)
<1> SUFFICES ASSUME SupplyFits, WholePercents PROVE Spec => []ExposureWithinReserves
  OBVIOUS
<1>1. SolvencyInv => ExposureWithinReserves
  BY ExposureSound
<1> QED
  BY <1>1, SolvencyHolds, PTL

===============================================================================
