------------------------- MODULE LedgerHistoryProofs -------------------------
(***************************************************************************)
(* What the ledger's records tell, for every value of the constants: the   *)
(* counters of a cell tell the same history of its reserve as the journal, *)
(* the digest of the ledger tells every change of what it covers, and the  *)
(* books balance modulo the amounts' width even when amounts wrap.         *)
(***************************************************************************)
EXTENDS LedgerSolvencyProofs, Digests

-----------------------------------------------------------------------------
(***************************************************************************)
(* The history of a cell: what the entries of a list say was deposited in  *)
(* it, or merged out of it.  The journal's own is Journaled.               *)
(***************************************************************************)
Said(kind, e, c) ==
    IF e.kind = kind /\ e.cell = c
    THEN IF kind = "cell_consolidated"
         THEN (IF e.after_balance < e.before_balance THEN e.amount ELSE 0)
         ELSE e.amount
    ELSE 0

SaidSum(kind, list, c) ==
    PrefixSum([k \in 0..(Len(list) - 1) |-> Said(kind, list[k + 1], c)], Len(list))

LEMMA JournaledSaid ==
    ASSUME NEW kind, NEW c
    PROVE  /\ Journaled(kind, c) = SaidSum(kind, journal, c)
           /\ Journaled(kind, c)' = SaidSum(kind, journal', c)
BY DEF Journaled, SaidSum, Said

\* What a call writes adds what it says.
LEMMA SaidGrows ==
    ASSUME TypeOK, TypeOK', NEW entries, Written(entries), JournalHasRoom', NEW kind, NEW c,
           \A k \in DOMAIN entries : Said(kind, entries[k], c) \in Int
    PROVE  /\ SaidSum(kind, journal, c) \in Int /\ SaidSum(kind, entries, c) \in Int
           /\ SaidSum(kind, journal', c) = SaidSum(kind, journal, c) + SaidSum(kind, entries, c)
<1> DEFINE n == Len(journal)
           m == Len(entries)
           f == [k \in 0..(n - 1) |-> Said(kind, journal[k + 1], c)]
           h == [k \in 0..(m - 1) |-> Said(kind, entries[k + 1], c)]
           g == [k \in 0..(Len(journal') - 1) |-> Said(kind, journal'[k + 1], c)]
<1>1. /\ n \in Nat /\ m \in Nat /\ Len(journal') = n + m
      /\ DOMAIN entries = 1..m
      /\ \A k \in 1..n : journal'[k] = journal[k] /\ journal[k] \in EntryRecord
      /\ \A k \in 1..m : journal'[n + k] = entries[k]
  BY DEF TypeOK, JournalTyped, Written
<1>2. \A e \in EntryRecord : Said(kind, e, c) \in Int
  BY DEF Said, EntryRecord
<1>3. \A k \in 0..(n - 1) : k + 1 \in 1..n /\ k \in 0..(n + m - 1)
  BY <1>1
<1>4. \A k \in 0..(m - 1) : /\ k + 1 \in 1..m /\ n + k \in 0..(n + m - 1)
                            /\ (n + k) + 1 = n + (k + 1)
  BY <1>1
<1>5. \A k \in 0..(n - 1) : f[k] = Said(kind, journal[k + 1], c) /\ f[k] \in Int
  BY <1>1, <1>2, <1>3
<1>6. \A k \in 0..(m - 1) : h[k] = Said(kind, entries[k + 1], c) /\ h[k] \in Int
  BY <1>1, <1>4
<1>7. \A k \in 0..(n + m - 1) : g[k] = Said(kind, journal'[k + 1], c)
  BY <1>1
<1>8. EqualTerms(f, g, n)
  <2>1. \A k \in 0..(n - 1) : journal'[k + 1] = journal[k + 1]
    BY <1>1, <1>3
  <2> HIDE DEF f, g, n, m
  <2> QED
    BY <1>3, <1>5, <1>7, <2>1 DEF EqualTerms
<1>9. \A k \in 0..(m - 1) : g[n + k] = h[k]
  <2>1. \A k \in 0..(m - 1) : journal'[(n + k) + 1] = entries[k + 1]
    BY <1>1, <1>4
  <2> HIDE DEF f, g, h, n, m
  <2> QED
    BY <1>4, <1>6, <1>7, <2>1
<1>10. /\ SaidSum(kind, journal, c) = PrefixSum(f, n) /\ SaidSum(kind, entries, c) = PrefixSum(h, m)
       /\ SaidSum(kind, journal', c) = PrefixSum(g, n + m)
  BY <1>1 DEF SaidSum
<1> HIDE DEF f, g, h, n, m
<1>11. PrefixSum(f, n) \in Int /\ PrefixSum(h, m) \in Int
  BY <1>1, <1>5, <1>6, PrefixSumInt
<1>12. PrefixSum(g, n + m) = PrefixSum(f, n) + PrefixSum(h, m)
  BY <1>1, <1>5, <1>6, <1>8, <1>9, SumBehind
<1> QED
  BY <1>10, <1>11, <1>12

\* Entries that are no deposits of a cell, or no mergers out of it, add nothing.
LEMMA QuietSaid ==
    ASSUME NEW entries, Len(entries) \in Nat, DOMAIN entries = 1..Len(entries), NEW kind, NEW c,
           \A k \in DOMAIN entries : Said(kind, entries[k], c) = 0
    PROVE  SaidSum(kind, entries, c) = 0
<1> DEFINE m == Len(entries)
           h == [k \in 0..(m - 1) |-> Said(kind, entries[k + 1], c)]
<1>1. \A k \in 0..(m - 1) : k + 1 \in 1..m
  OBVIOUS
<1>2. \A k \in 0..(m - 1) : h[k] = 0
  BY <1>1
<1>3. SaidSum(kind, entries, c) = PrefixSum(h, m) /\ m \in Nat
  BY DEF SaidSum
<1> HIDE DEF h, m
<1> QED
  BY <1>2, <1>3, SumNothing

\* What one entry says, and what two say.
LEMMA OneSaid ==
    ASSUME NEW a, NEW kind, NEW c, Said(kind, a, c) \in Int
    PROVE  SaidSum(kind, <<a>>, c) = Said(kind, a, c)
<1> DEFINE f == [k \in 0..0 |-> Said(kind, <<a>>[k + 1], c)]
<1>1. SaidSum(kind, <<a>>, c) = PrefixSum(f, 1)
  <2>1. Len(<<a>>) = 1 /\ 0..(1 - 1) = 0..0
    OBVIOUS
  <2> QED
    BY <2>1 DEF SaidSum
<1>2. f[0] = Said(kind, a, c)
  OBVIOUS
<1> HIDE DEF f
<1>3. PrefixSum(f, 0 + 1) = PrefixSum(f, 0) + f[0] /\ PrefixSum(f, 0) = 0
  BY PrefixSumStep, PrefixSumZero
<1> QED
  BY <1>1, <1>2, <1>3

LEMMA TwoSaid ==
    ASSUME NEW a, NEW b, NEW kind, NEW c, NEW list, list = <<a, b>>,
           Said(kind, a, c) \in Int, Said(kind, b, c) \in Int
    PROVE  SaidSum(kind, list, c) = Said(kind, a, c) + Said(kind, b, c)
<1> DEFINE f == [k \in 0..1 |-> Said(kind, list[k + 1], c)]
<1>1. SaidSum(kind, list, c) = PrefixSum(f, 2)
  <2>1. Len(list) = 2 /\ 0..(2 - 1) = 0..1
    OBVIOUS
  <2> QED
    BY <2>1 DEF SaidSum
<1>2. f[0] = Said(kind, a, c) /\ f[1] = Said(kind, b, c)
  OBVIOUS
<1> HIDE DEF f
<1>3. /\ PrefixSum(f, 0 + 1) = PrefixSum(f, 0) + f[0] /\ PrefixSum(f, 0) = 0
      /\ PrefixSum(f, 1 + 1) = PrefixSum(f, 1) + f[1]
  BY PrefixSumStep, PrefixSumZero
<1> QED
  BY <1>1, <1>2, <1>3

-----------------------------------------------------------------------------
(***************************************************************************)
(* What a payment does to the counters of any cell: all of them together   *)
(* still account for the reserve, and none grows by more than a.           *)
(***************************************************************************)
Tally(cell) == cell.reserve + cell.settled_out + cell.withdrawn - cell.settled_in

EvenCell(old, new, a) ==
    /\ Tally(new) = Tally(old)
    /\ new.settled_in <= old.settled_in + a
    /\ new.settled_out <= old.settled_out + a
    /\ new.withdrawn <= old.withdrawn + a

Even(D, cs, ds, a) == ds \in [D -> CellRecord] /\ \A c \in D : EvenCell(cs[c], ds[c], a)

\* Counters that can count a more.
Countable(D, cs, a) ==
    \A c \in D : /\ cs[c].settled_in + a < AmountModulus
                 /\ cs[c].settled_out + a < AmountModulus
                 /\ cs[c].withdrawn + a < AmountModulus

LEMMA CellCounts ==
    ASSUME NEW cell \in CellRecord
    PROVE  /\ cell.reserve \in Amount /\ cell.settled_in \in Amount
           /\ cell.settled_out \in Amount /\ cell.withdrawn \in Amount
           /\ cell.reserve \in Nat /\ cell.settled_in \in Nat
           /\ cell.settled_out \in Nat /\ cell.withdrawn \in Nat
           /\ Tally(cell) \in Int
<1>1. /\ cell.reserve \in Amount /\ cell.settled_in \in Amount
      /\ cell.settled_out \in Amount /\ cell.withdrawn \in Amount
  BY DEF CellRecord
<1>2. /\ cell.reserve \in Nat /\ cell.settled_in \in Nat
      /\ cell.settled_out \in Nat /\ cell.withdrawn \in Nat
  BY <1>1, AmountClosed
<1> QED
  BY <1>1, <1>2 DEF Tally

\* Nothing changed that counts.
LEMMA EvenSame ==
    ASSUME NEW old \in CellRecord, NEW new, NEW a \in Nat,
           new.reserve = old.reserve, new.settled_in = old.settled_in,
           new.settled_out = old.settled_out, new.withdrawn = old.withdrawn
    PROVE  EvenCell(old, new, a)
BY CellCounts DEF EvenCell, Tally

\* One payment after the other.
LEMMA EvenTwice ==
    ASSUME NEW D, NEW cs \in [D -> CellRecord], NEW es, NEW ds, NEW a \in Nat, NEW b \in Nat,
           Even(D, cs, es, a), Even(D, es, ds, b)
    PROVE  Even(D, cs, ds, a + b)
<1>1. ds \in [D -> CellRecord] /\ es \in [D -> CellRecord]
  BY DEF Even
<1>2. ASSUME NEW c \in D PROVE EvenCell(cs[c], ds[c], a + b)
  <2> DEFINE x == cs[c]
             y == es[c]
             z == ds[c]
  <2>1. EvenCell(x, y, a) /\ EvenCell(y, z, b)
    BY DEF Even
  <2>2. x \in CellRecord /\ y \in CellRecord /\ z \in CellRecord
    BY <1>1
  <2> HIDE DEF x, y, z
  <2>3. Tally(z) = Tally(x)
    BY <2>1 DEF EvenCell
  <2>4. z.settled_in <= x.settled_in + (a + b)
    BY <2>1, <2>2, CellCounts DEF EvenCell
  <2>5. z.settled_out <= x.settled_out + (a + b)
    BY <2>1, <2>2, CellCounts DEF EvenCell
  <2>6. z.withdrawn <= x.withdrawn + (a + b)
    BY <2>1, <2>2, CellCounts DEF EvenCell
  <2>7. EvenCell(x, z, a + b)
    BY <2>3, <2>4, <2>5, <2>6 DEF EvenCell
  <2> QED
    BY <2>7 DEF x, z
<1> QED
  BY <1>1, <1>2 DEF Even

\* What is left to count after a payment, and that a larger one does.
LEMMA CountableAfter ==
    ASSUME NEW D, NEW cs \in [D -> CellRecord], NEW es, NEW a \in Nat, NEW b \in Nat,
           Even(D, cs, es, a), Countable(D, cs, a + b)
    PROVE  Countable(D, es, b)
<1> SUFFICES ASSUME NEW c \in D
             PROVE  /\ es[c].settled_in + b < AmountModulus
                    /\ es[c].settled_out + b < AmountModulus
                    /\ es[c].withdrawn + b < AmountModulus
  BY DEF Countable
<1> DEFINE x == cs[c]
           y == es[c]
<1>1. x \in CellRecord /\ y \in CellRecord /\ EvenCell(x, y, a)
  BY DEF Even
<1>2. /\ x.settled_in + (a + b) < AmountModulus
      /\ x.settled_out + (a + b) < AmountModulus
      /\ x.withdrawn + (a + b) < AmountModulus
  BY DEF Countable
<1> HIDE DEF x, y
<1>3. AmountModulus \in Nat
  BY AmountAssumption
<1>4. y.settled_in + b < AmountModulus
  BY <1>1, <1>2, <1>3, CellCounts DEF EvenCell
<1>5. y.settled_out + b < AmountModulus
  BY <1>1, <1>2, <1>3, CellCounts DEF EvenCell
<1>6. y.withdrawn + b < AmountModulus
  BY <1>1, <1>2, <1>3, CellCounts DEF EvenCell
<1> QED
  BY <1>4, <1>5, <1>6 DEF y

LEMMA EvenWithin ==
    ASSUME NEW D, NEW cs \in [D -> CellRecord], NEW ds, NEW a \in Nat, NEW b \in Nat, a <= b,
           Even(D, cs, ds, a)
    PROVE  Even(D, cs, ds, b)
<1>1. ASSUME NEW c \in D PROVE EvenCell(cs[c], ds[c], b)
  <2> DEFINE x == cs[c]
             y == ds[c]
  <2>1. x \in CellRecord /\ y \in CellRecord /\ EvenCell(x, y, a)
    BY DEF Even
  <2> HIDE DEF x, y
  <2>2. y.settled_in <= x.settled_in + b
    BY <2>1, CellCounts DEF EvenCell
  <2>3. y.settled_out <= x.settled_out + b
    BY <2>1, CellCounts DEF EvenCell
  <2>4. y.withdrawn <= x.withdrawn + b
    BY <2>1, CellCounts DEF EvenCell
  <2>5. EvenCell(x, y, b)
    BY <2>1, <2>2, <2>3, <2>4 DEF EvenCell
  <2> QED
    BY <2>5 DEF x, y
<1> QED
  BY <1>1 DEF Even

\* A debit that is covered and a credit that fits are even.
LEMMA DebitEven ==
    ASSUME NEW D, NEW cs \in [D -> CellRecord], NEW i \in D, NEW a \in Amount,
           a <= cs[i].reserve, Countable(D, cs, a)
    PROVE  Even(D, cs, Debit(cs, i, a), a)
<1> DEFINE ds == Debit(cs, i, a)
           old == cs[i]
           new == ds[i]
<1>1. ds \in [D -> CellRecord] /\ a \in Nat /\ old \in CellRecord
  BY CellMutations, AmountClosed
<1>2. \A c \in D : c # i => ds[c] = cs[c]
  BY MutationsElsewhere
<1>3. /\ new.reserve = Minus(old.reserve, a) /\ new.settled_out = Plus(old.settled_out, a)
      /\ new.settled_in = old.settled_in /\ new.withdrawn = old.withdrawn
  BY <1>1 DEF Debit, CellRecord
<1>4. /\ new.reserve = old.reserve - a /\ new.settled_out = old.settled_out + a
  <2>1. old.settled_out + a < AmountModulus
    BY DEF Countable
  <2> HIDE DEF ds, old, new
  <2> QED
    BY <1>1, <1>3, <2>1, CellCounts, NoWrap DEF old
<1>5. EvenCell(old, new, a)
  <2> HIDE DEF ds, old, new
  <2> QED
    BY <1>1, <1>3, <1>4, CellCounts DEF EvenCell, Tally
<1> HIDE DEF ds
<1>6. \A c \in D : EvenCell(cs[c], ds[c], a)
  BY <1>1, <1>2, <1>5, EvenSame
<1> QED
  BY <1>1, <1>6 DEF Even, ds

LEMMA CreditEven ==
    ASSUME NEW D, NEW cs \in [D -> CellRecord], NEW i \in D, NEW a \in Amount,
           cs[i].reserve + a < AmountModulus, Countable(D, cs, a)
    PROVE  Even(D, cs, Credit(cs, i, a), a)
<1> DEFINE ds == Credit(cs, i, a)
           old == cs[i]
           new == ds[i]
<1>1. ds \in [D -> CellRecord] /\ a \in Nat /\ old \in CellRecord
  BY CellMutations, AmountClosed
<1>2. \A c \in D : c # i => ds[c] = cs[c]
  BY MutationsElsewhere
<1>3. /\ new.reserve = Plus(old.reserve, a) /\ new.settled_in = Plus(old.settled_in, a)
      /\ new.settled_out = old.settled_out /\ new.withdrawn = old.withdrawn
  BY <1>1 DEF Credit, CellRecord
<1>4. /\ new.reserve = old.reserve + a /\ new.settled_in = old.settled_in + a
  <2>1. old.settled_in + a < AmountModulus /\ old.reserve + a < AmountModulus
    BY DEF Countable
  <2> HIDE DEF ds, old, new
  <2> QED
    BY <1>1, <1>3, <2>1, CellCounts, NoWrap
<1>5. EvenCell(old, new, a)
  <2> HIDE DEF ds, old, new
  <2> QED
    BY <1>1, <1>3, <1>4, CellCounts DEF EvenCell, Tally
<1> HIDE DEF ds
<1>6. \A c \in D : EvenCell(cs[c], ds[c], a)
  BY <1>1, <1>2, <1>5, EvenSame
<1> QED
  BY <1>1, <1>6 DEF Even, ds

\* Commitments and stamps do not count.
LEMMA CommitmentsEven ==
    ASSUME NEW D, NEW cs \in [D -> CellRecord], NEW i \in D, NEW a \in Amount
    PROVE  Even(D, cs, Reserve(cs, i, a), 0) /\ Even(D, cs, Release(cs, i, a), 0)
<1>1. /\ Reserve(cs, i, a) \in [D -> CellRecord] /\ Release(cs, i, a) \in [D -> CellRecord]
      /\ \A c \in D : cs[c] \in CellRecord
  BY CellMutations
<1>2. ASSUME NEW c \in D PROVE EvenCell(cs[c], Reserve(cs, i, a)[c], 0)
  <2> DEFINE new == Reserve(cs, i, a)[c]
  <2>1. /\ new.reserve = cs[c].reserve /\ new.settled_in = cs[c].settled_in
        /\ new.settled_out = cs[c].settled_out /\ new.withdrawn = cs[c].withdrawn
    BY <1>1 DEF Reserve, CellRecord
  <2> HIDE DEF new
  <2>2. EvenCell(cs[c], new, 0)
    BY <1>1, <2>1, EvenSame
  <2> QED
    BY <2>2 DEF new
<1>3. ASSUME NEW c \in D PROVE EvenCell(cs[c], Release(cs, i, a)[c], 0)
  <2> DEFINE new == Release(cs, i, a)[c]
  <2>1. /\ new.reserve = cs[c].reserve /\ new.settled_in = cs[c].settled_in
        /\ new.settled_out = cs[c].settled_out /\ new.withdrawn = cs[c].withdrawn
    BY <1>1 DEF Release, CellRecord
  <2> HIDE DEF new
  <2>2. EvenCell(cs[c], new, 0)
    BY <1>1, <2>1, EvenSame
  <2> QED
    BY <2>2 DEF new
<1> QED
  BY <1>1, <1>2, <1>3 DEF Even

LEMMA StampEven ==
    ASSUME TypeOK, NEW D, NEW cs \in [D -> CellRecord], NEW touched
    PROVE  Even(D, cs, Stamp(cs, touched), 0)
<1>1. Stamp(cs, touched) \in [D -> CellRecord] /\ \A c \in D : cs[c] \in CellRecord
  BY StampType DEF TypeOK, JournalTyped
<1>2. ASSUME NEW c \in D PROVE EvenCell(cs[c], Stamp(cs, touched)[c], 0)
  <2> DEFINE new == Stamp(cs, touched)[c]
  <2>1. /\ new.reserve = cs[c].reserve /\ new.settled_in = cs[c].settled_in
        /\ new.settled_out = cs[c].settled_out /\ new.withdrawn = cs[c].withdrawn
    BY <1>1 DEF Stamp, CellRecord
  <2> HIDE DEF new
  <2>2. EvenCell(cs[c], new, 0)
    BY <1>1, <2>1, EvenSame
  <2> QED
    BY <2>2 DEF new
<1> QED
  BY <1>1, <1>2 DEF Even

-----------------------------------------------------------------------------
(***************************************************************************)
(* The counters only grow, over transfers that may go back and forth for   *)
(* ever.  As long as no journal is long enough for the deposits to reach   *)
(* the modulus, a journal with room is a bound on them.                    *)
(***************************************************************************)
HistoryFits == MaxJournal * MaxSupply < AmountModulus

HistoryTold(c) ==
    /\ Tally(cells[c]) = Journaled("genesis_deposit", c) - Journaled("cell_consolidated", c)
    /\ cells[c].settled_in <= Len(journal) * MaxSupply
    /\ cells[c].settled_out <= Len(journal) * MaxSupply
    /\ cells[c].withdrawn <= Len(journal) * MaxSupply

HistoryInv == JournalHasRoom => \A c \in DOMAIN cells : HistoryTold(c)

HistoryKinds == {"genesis_deposit", "cell_consolidated"}

LEMMA SaidNumber ==
    ASSUME TypeOK, NEW kind, NEW c
    PROVE  SaidSum(kind, journal, c) \in Int
<1> DEFINE n == Len(journal)
           f == [k \in 0..(n - 1) |-> Said(kind, journal[k + 1], c)]
<1>1. n \in Nat /\ \A k \in 1..n : journal[k] \in EntryRecord
  BY DEF TypeOK, JournalTyped
<1>2. \A e \in EntryRecord : Said(kind, e, c) \in Int
  BY DEF Said, EntryRecord
<1>3. \A k \in 0..(n - 1) : k + 1 \in 1..n
  BY <1>1
<1>4. \A k \in 0..(n - 1) : f[k] \in Int
  BY <1>1, <1>2, <1>3
<1>5. SaidSum(kind, journal, c) = PrefixSum(f, n)
  BY DEF SaidSum
<1> HIDE DEF f, n
<1> QED
  BY <1>1, <1>4, <1>5, PrefixSumInt

\* The counters tell the history in the order of the property.
LEMMA HistoryMeans ==
    ASSUME TypeOK, HistoryInv
    PROVE  CountersTellHistory
<1> SUFFICES ASSUME JournalHasRoom, NEW c \in DOMAIN cells
             PROVE  cells[c].reserve + cells[c].settled_out + cells[c].withdrawn
                      + Journaled("cell_consolidated", c)
                    = cells[c].settled_in + Journaled("genesis_deposit", c)
  BY DEF CountersTellHistory
<1>1. cells[c] \in CellRecord
  BY DEF TypeOK, CellsTyped
<1>2. /\ Journaled("genesis_deposit", c) \in Int /\ Journaled("cell_consolidated", c) \in Int
  BY JournaledSaid, SaidNumber
<1>3. Tally(cells[c]) = Journaled("genesis_deposit", c) - Journaled("cell_consolidated", c)
  BY DEF HistoryInv, HistoryTold
<1> DEFINE x == cells[c]
           dep == Journaled("genesis_deposit", c)
           con == Journaled("cell_consolidated", c)
<1>4. x \in CellRecord /\ dep \in Int /\ con \in Int /\ Tally(x) = dep - con
  BY <1>1, <1>2, <1>3
<1> HIDE DEF x, dep, con
<1>5. /\ x.reserve \in Nat /\ x.settled_in \in Nat
      /\ x.settled_out \in Nat /\ x.withdrawn \in Nat
  BY <1>4, CellCounts
<1>6. x.reserve + x.settled_out + x.withdrawn - x.settled_in = dep - con
  BY <1>4 DEF Tally
<1>7. dep \in Int /\ con \in Int
  BY <1>4
<1>8. x.reserve + x.settled_out + x.withdrawn + con = x.settled_in + dep
  <2> DEFINE p == x.reserve
             q == x.settled_out
             r == x.withdrawn
             t == x.settled_in
  <2>1. p \in Int /\ q \in Int /\ r \in Int /\ t \in Int /\ dep \in Int /\ con \in Int
    BY <1>5, <1>7
  <2>2. p + q + r - t = dep - con
    BY <1>6
  <2> HIDE DEF p, q, r, t
  <2>3. p + q + r + con = t + dep
    BY <2>1, <2>2
  <2> QED
    BY <2>3 DEF p, q, r, t
<1> QED
  BY <1>8 DEF x, dep, con

(***************************************************************************)
(* What a call has to show of its entries and of a cell.                   *)
(***************************************************************************)
CellTold(entries, c) ==
    /\ \A kind \in HistoryKinds : \A k \in DOMAIN entries : Said(kind, entries[k], c) \in Int
    /\ Tally(cells'[c]) = Tally(cells[c]) + SaidSum("genesis_deposit", entries, c)
                            - SaidSum("cell_consolidated", entries, c)
    /\ cells'[c].settled_in <= cells[c].settled_in + Len(entries) * MaxSupply
    /\ cells'[c].settled_out <= cells[c].settled_out + Len(entries) * MaxSupply
    /\ cells'[c].withdrawn <= cells[c].withdrawn + Len(entries) * MaxSupply

LEMMA Distributes ==
    ASSUME NEW n \in Nat, NEW m \in Nat, NEW k \in Nat
    PROVE  (n + m) * k = n * k + m * k /\ n * k \in Nat /\ m * k \in Nat
OBVIOUS

LEMMA StoryStep ==
    ASSUME TypeOK, TypeOK', HistoryInv, NEW entries, Written(entries), JournalHasRoom',
           NEW c \in DOMAIN cells, CellTold(entries, c), cells'[c] \in CellRecord
    PROVE  HistoryTold(c)'
<1> DEFINE n == Len(journal)
           m == Len(entries)
           x == cells[c]
           y == cells'[c]
           dep(j) == SaidSum("genesis_deposit", j, c)
           con(j) == SaidSum("cell_consolidated", j, c)
           M == MaxSupply
<1>1. /\ n \in Nat /\ m \in Nat /\ Len(journal') = n + m /\ JournalHasRoom
      /\ M \in Nat
  BY LedgerAssumption DEF TypeOK, JournalTyped, Written
<1>2. x \in CellRecord /\ y \in CellRecord
  BY DEF TypeOK, CellsTyped
<1>3. /\ dep(journal) \in Int /\ dep(entries) \in Int /\ dep(journal') = dep(journal) + dep(entries)
      /\ con(journal) \in Int /\ con(entries) \in Int /\ con(journal') = con(journal) + con(entries)
  BY SaidGrows DEF CellTold, HistoryKinds
<1>4. HistoryTold(c)
  BY <1>1 DEF HistoryInv
<1>5. /\ Tally(x) = dep(journal) - con(journal)
      /\ x.settled_in <= n * M /\ x.settled_out <= n * M /\ x.withdrawn <= n * M
  BY <1>4, JournaledSaid DEF HistoryTold
<1>6. /\ Tally(y) = Tally(x) + dep(entries) - con(entries)
      /\ y.settled_in <= x.settled_in + m * M
      /\ y.settled_out <= x.settled_out + m * M
      /\ y.withdrawn <= x.withdrawn + m * M
  BY DEF CellTold
<1> HIDE DEF n, m, x, y, dep, con, M
<1>7. Tally(y) = dep(journal') - con(journal')
  BY <1>3, <1>5, <1>6
<1>8. (n + m) * M = n * M + m * M /\ n * M \in Nat /\ m * M \in Nat
  BY <1>1, Distributes
<1>9. /\ y.settled_in <= (n + m) * M
      /\ y.settled_out <= (n + m) * M
      /\ y.withdrawn <= (n + m) * M
  <2> DEFINE p == n * M
             q == m * M
             s == (n + m) * M
  <2>1. s = p + q /\ p \in Nat /\ q \in Nat
    BY <1>8
  <2>2. /\ x.settled_in <= p /\ x.settled_out <= p /\ x.withdrawn <= p
        /\ y.settled_in <= x.settled_in + q
        /\ y.settled_out <= x.settled_out + q
        /\ y.withdrawn <= x.withdrawn + q
    BY <1>5, <1>6
  <2> HIDE DEF p, q, s
  <2>3. y.settled_in <= s
    BY <1>2, <2>1, <2>2, CellCounts
  <2>4. y.settled_out <= s
    BY <1>2, <2>1, <2>2, CellCounts
  <2>5. y.withdrawn <= s
    BY <1>2, <2>1, <2>2, CellCounts
  <2> QED
    BY <2>3, <2>4, <2>5 DEF s
<1>10. dep(journal') = Journaled("genesis_deposit", c)'
       /\ con(journal') = Journaled("cell_consolidated", c)'
  BY JournaledSaid DEF dep, con
<1> QED
  BY <1>1, <1>7, <1>9, <1>10 DEF HistoryTold, y, M, n

\* Entries that are neither deposits nor mergers leave the account to the counters.
LEMMA EvenTold ==
    ASSUME NEW entries, Written(entries),
           \A k \in DOMAIN entries : entries[k].kind \notin HistoryKinds,
           NEW c \in DOMAIN cells, cells[c] \in CellRecord,
           EvenCell(cells[c], cells'[c], Len(entries) * MaxSupply)
    PROVE  CellTold(entries, c)
<1>1. \A kind \in HistoryKinds : \A k \in DOMAIN entries : Said(kind, entries[k], c) = 0
  BY DEF Said
<1>2. Len(entries) \in Nat /\ DOMAIN entries = 1..Len(entries)
  BY DEF Written
<1>3. \A kind \in HistoryKinds : SaidSum(kind, entries, c) = 0
  BY <1>1, <1>2, QuietSaid
<1>4. EvenCell(cells[c], cells'[c], Len(entries) * MaxSupply)
  OBVIOUS
<1>5. Tally(cells[c]) \in Int
  BY CellCounts
<1>6. /\ SaidSum("genesis_deposit", entries, c) = 0 /\ SaidSum("cell_consolidated", entries, c) = 0
  BY <1>3 DEF HistoryKinds
<1>7. Tally(cells'[c]) = Tally(cells[c]) + SaidSum("genesis_deposit", entries, c)
                           - SaidSum("cell_consolidated", entries, c)
  BY <1>4, <1>5, <1>6 DEF EvenCell
<1> QED
  BY <1>1, <1>4, <1>7 DEF CellTold, EvenCell

\* A step of the history: the journal has room for what the call writes.
Ready ==
    /\ SolvencyInv /\ SupplyFits /\ HistoryFits /\ HistoryInv
    /\ [Next]_vars /\ TypeOK' /\ JournalHasRoom'

\* As long as the journal has room, the counters can count as much as it writes.
LEMMA RoomToCount ==
    ASSUME Ready, NEW entries, Written(entries)
    PROVE  /\ Countable(DOMAIN cells, cells, Len(entries) * MaxSupply)
           /\ Len(entries) \in Nat /\ MaxSupply \in Nat /\ Len(entries) * MaxSupply \in Nat
           /\ Len(entries) >= 1 => MaxSupply <= Len(entries) * MaxSupply
           /\ Len(entries) >= 2 => MaxSupply + MaxSupply <= Len(entries) * MaxSupply
<1> DEFINE n == Len(journal)
           m == Len(entries)
           M == MaxSupply
<1>1. TypeOK
  BY DEF Ready, SolvencyInv, ReferenceInv
<1>2. /\ n \in Nat /\ m \in Nat /\ Len(journal') = n + m /\ JournalHasRoom
      /\ M \in Nat /\ MaxJournal \in Nat /\ n + m < MaxJournal /\ AmountModulus \in Nat
      /\ MaxJournal * M < AmountModulus
  BY <1>1, LedgerAssumption, AmountAssumption
     DEF TypeOK, JournalTyped, Written, Ready, JournalHasRoom, HistoryFits
<1>3. ASSUME NEW c \in DOMAIN cells
      PROVE  /\ cells[c] \in CellRecord /\ cells[c].settled_in <= n * M
             /\ cells[c].settled_out <= n * M /\ cells[c].withdrawn <= n * M
  BY <1>1, <1>2 DEF Ready, HistoryInv, HistoryTold, TypeOK, CellsTyped
<1> HIDE DEF n, m, M
<1>4. (n + m) * M = n * M + m * M /\ n * M \in Nat /\ m * M \in Nat
  BY <1>2, Distributes
<1>5. (n + m) * M <= MaxJournal * M
  <2>1. PICK d \in Nat : MaxJournal = (n + m) + d
    <3>1. MaxJournal - (n + m) \in Nat /\ MaxJournal = (n + m) + (MaxJournal - (n + m))
      BY <1>2
    <3> QED
      BY <3>1
  <2>2. ((n + m) + d) * M = (n + m) * M + d * M /\ (n + m) * M \in Nat /\ d * M \in Nat
    <3>1. n + m \in Nat
      BY <1>2
    <3> QED
      BY <1>2, <3>1, Distributes
  <2> QED
    BY <2>1, <2>2
<1>6. Countable(DOMAIN cells, cells, m * M)
  <2> DEFINE p == n * M
             q == m * M
             s == (n + m) * M
             t == MaxJournal * M
  <2>1. s = p + q /\ p \in Nat /\ q \in Nat /\ s <= t /\ t < AmountModulus
    BY <1>2, <1>4, <1>5
  <2>2. t \in Nat
    BY <1>2
  <2>3. \A c \in DOMAIN cells : /\ cells[c] \in CellRecord /\ cells[c].settled_in <= p
                                /\ cells[c].settled_out <= p /\ cells[c].withdrawn <= p
    BY <1>3
  <2> HIDE DEF p, q, s, t
  <2>4. p + q < AmountModulus
    BY <1>2, <2>1, <2>2
  <2>5. ASSUME NEW c \in DOMAIN cells
        PROVE  /\ cells[c].settled_in + q < AmountModulus
               /\ cells[c].settled_out + q < AmountModulus
               /\ cells[c].withdrawn + q < AmountModulus
    <3> DEFINE x == cells[c]
    <3>1. x \in CellRecord /\ x.settled_in <= p /\ x.settled_out <= p /\ x.withdrawn <= p
      BY <2>3
    <3> HIDE DEF x
    <3> DEFINE u == x.settled_in
               v == x.settled_out
               w == x.withdrawn
    <3>2. u \in Nat /\ v \in Nat /\ w \in Nat
      BY <3>1, CellCounts
    <3>3. u <= p /\ v <= p /\ w <= p
      BY <3>1
    <3>4. AmountModulus \in Nat
      BY <1>2
    <3> HIDE DEF u, v, w
    <3>5. u + q < AmountModulus /\ v + q < AmountModulus /\ w + q < AmountModulus
      BY <2>1, <2>4, <3>2, <3>3, <3>4
    <3> QED
      BY <3>5 DEF u, v, w, x
  <2> QED
    BY <2>5 DEF Countable, q
<1>7. /\ m >= 1 => M <= m * M
      /\ m >= 2 => M + M <= m * M
  <2>1. ASSUME m >= 1 PROVE M <= m * M
    <3>1. (1 + (m - 1)) * M = 1 * M + (m - 1) * M /\ (m - 1) * M \in Nat
      BY <1>2, <2>1, Distributes
    <3>2. 1 + (m - 1) = m /\ 1 * M = M
      BY <1>2
    <3> QED
      BY <1>2, <3>1, <3>2
  <2>2. ASSUME m >= 2 PROVE M + M <= m * M
    <3>1. (2 + (m - 2)) * M = 2 * M + (m - 2) * M /\ (m - 2) * M \in Nat
      BY <1>2, <2>2, Distributes
    <3>2. 2 + (m - 2) = m /\ 2 * M = M + M
      BY <1>2
    <3> QED
      BY <1>2, <3>1, <3>2
  <2> QED
    BY <2>1, <2>2
<1> QED
  BY <1>2, <1>4, <1>6, <1>7 DEF m, M

LEMMA CountableLess ==
    ASSUME NEW D, NEW cs \in [D -> CellRecord], NEW a \in Nat, NEW b \in Nat, a <= b,
           Countable(D, cs, b)
    PROVE  Countable(D, cs, a)
<1> SUFFICES ASSUME NEW c \in D
             PROVE  /\ cs[c].settled_in + a < AmountModulus
                    /\ cs[c].settled_out + a < AmountModulus
                    /\ cs[c].withdrawn + a < AmountModulus
  BY DEF Countable
<1> DEFINE x == cs[c]
<1>1. /\ x \in CellRecord /\ AmountModulus \in Nat
      /\ x.settled_in + b < AmountModulus /\ x.settled_out + b < AmountModulus
      /\ x.withdrawn + b < AmountModulus
  BY AmountAssumption DEF Countable
<1> HIDE DEF x
<1>2. /\ x.settled_in + a < AmountModulus /\ x.settled_out + a < AmountModulus
      /\ x.withdrawn + a < AmountModulus
  BY <1>1, CellCounts
<1> QED
  BY <1>2 DEF x

-----------------------------------------------------------------------------
(* The calls: each is told, in the cells and in the entries it writes.     *)

Accounted ==
    /\ DOMAIN cells' = DOMAIN cells
    /\ \E entries : Written(entries) /\ \A c \in DOMAIN cells : CellTold(entries, c)

\* Calls that leave the account of each cell to its counters.
LEMMA EvenCall ==
    ASSUME Ready, NEW entries, Written(entries),
           \A k \in DOMAIN entries : entries[k].kind \notin HistoryKinds,
           NEW a \in Nat, a <= Len(entries) * MaxSupply,
           Even(DOMAIN cells, cells, cells', a)
    PROVE  Accounted
<1>1. TypeOK /\ cells \in [DOMAIN cells -> CellRecord]
  BY DEF Ready, SolvencyInv, ReferenceInv, TypeOK, CellsTyped
<1>2. Len(entries) * MaxSupply \in Nat
  BY RoomToCount
<1>3. Even(DOMAIN cells, cells, cells', Len(entries) * MaxSupply)
  BY <1>1, <1>2, EvenWithin
<1>4. \A c \in DOMAIN cells : CellTold(entries, c)
  BY <1>1, <1>3, EvenTold DEF Even
<1>5. DOMAIN cells' = DOMAIN cells
  BY DEF Even
<1> QED
  BY <1>4, <1>5 DEF Accounted

\* The cells before a call that may change them.
LEMMA ReadyCells ==
    ASSUME Ready
    PROVE  /\ TypeOK /\ SolvencyInv /\ SupplyFits /\ cell_count \in Nat
           /\ DOMAIN cells = 0..(cell_count - 1)
           /\ cells \in [DOMAIN cells -> CellRecord]
           /\ MaxSupply \in Nat
           /\ \A c \in DOMAIN cells :
                 cells[c].reserve \in Nat /\ cells[c].reserve <= MaxSupply
           /\ Reserves(cells, cell_count) \in Nat
           /\ Reserves(cells, cell_count) < AmountModulus
           /\ AmountModulus \in Nat
<1>1. TypeOK /\ SolvencyInv /\ SupplyFits
  BY DEF Ready, SolvencyInv, ReferenceInv
<1>2. /\ cell_count \in Nat /\ DOMAIN cells = 0..(cell_count - 1)
      /\ cells \in [0..(cell_count - 1) -> CellRecord]
  BY <1>1, Holdings
<1>3. /\ Reserves(cells, cell_count) \in Nat /\ MaxSupply \in Nat /\ AmountModulus \in Nat
      /\ Reserves(cells, cell_count) <= MaxSupply /\ MaxSupply < AmountModulus
  BY <1>1, Room
<1>4. \A c \in 0..(cell_count - 1) :
         cells[c].reserve \in Nat /\ cells[c].reserve <= Reserves(cells, cell_count)
  BY <1>2, ReservesBound
<1>5. \A c \in 0..(cell_count - 1) : cells[c].reserve <= MaxSupply
  BY <1>3, <1>4
<1>6. Reserves(cells, cell_count) < AmountModulus
  BY <1>3
<1> QED
  BY <1>1, <1>2, <1>3, <1>4, <1>5, <1>6

\* A stamped array is as even as it was.
LEMMA StampedEven ==
    ASSUME TypeOK, NEW cs \in [DOMAIN cells -> CellRecord], NEW a \in Nat, NEW touched,
           cells \in [DOMAIN cells -> CellRecord],
           Even(DOMAIN cells, cells, cs, a), cells' = Stamp(cs, touched)
    PROVE  Even(DOMAIN cells, cells, cells', a)
<1> DEFINE D == DOMAIN cells
           ds == Stamp(cs, touched)
<1>1. Even(D, cs, ds, 0)
  BY StampEven
<1> HIDE DEF ds, D
<1>2. Even(D, cells, ds, a + 0)
  BY <1>1, EvenTwice DEF D
<1>3. a + 0 = a
  OBVIOUS
<1> QED
  BY <1>2, <1>3 DEF ds, D

\* Issuing and cancelling move nothing (pdtl_issue_receipt, pdtl_cancel_receipt).
LEMMA IssueAccounted ==
    ASSUME Ready, NEW origin \in CellArgs, NEW beneficiary \in CellArgs,
           NEW gross \in CallAmounts, IssueReceipt(origin, beneficiary, gross), ~Silent
    PROVE  Accounted
<1> DEFINE entry == Entry("receipt_issued", origin, beneficiary, receipt_count, gross,
                          cells[origin].reserved_out, cells'[origin].reserved_out)
           ds == Reserve(cells, origin, gross)
<1>1. cells' = Stamp(ds, {origin}) /\ AppendJournal(<<entry>>) /\ IsCell(origin)
  BY DEF IssueReceipt, IssueError, Reject, Silent
<1>2. entry.kind \notin HistoryKinds
  BY DEF Entry, HistoryKinds
<1>3. /\ TypeOK /\ cells \in [DOMAIN cells -> CellRecord]
      /\ origin \in DOMAIN cells /\ gross \in Amount
  BY <1>1, ReadyCells, Slots, LedgerAssumption
<1> HIDE DEF entry
<1>4. ds \in [DOMAIN cells -> CellRecord] /\ Even(DOMAIN cells, cells, ds, 0)
  BY <1>3, CellMutations, CommitmentsEven
<1> HIDE DEF ds
<1>5. Even(DOMAIN cells, cells, cells', 0)
  BY <1>1, <1>3, <1>4, StampedEven
<1>6. Written(<<entry>>) /\ DOMAIN <<entry>> = {1} /\ <<entry>>[1] = entry
  BY <1>1, <1>3, WritesOne, Entries
<1>7. \A k \in DOMAIN <<entry>> : <<entry>>[k].kind \notin HistoryKinds
  BY <1>2, <1>6
<1>8. 0 <= Len(<<entry>>) * MaxSupply
  BY <1>6, RoomToCount
<1> QED
  BY <1>5, <1>6, <1>7, <1>8, EvenCall

LEMMA CancelAccounted ==
    ASSUME Ready, NEW r \in ReceiptArgs, CancelReceipt(r), ~Silent
    PROVE  Accounted
<1> DEFINE origin == receipts[r].origin_cell
           gross == receipts[r].gross
           entry == Entry("receipt_cancelled", origin, receipts[r].beneficiary_cell, r, gross,
                          cells[origin].reserved_out, cells'[origin].reserved_out)
           ds == Release(cells, origin, gross)
<1>1. /\ cells' = Stamp(ds, {origin}) /\ AppendJournal(<<entry>>)
      /\ IsReceipt(r) /\ IsCell(origin)
  BY DEF CancelReceipt, CancelError, Reject, Silent
<1>2. entry.kind \notin HistoryKinds
  BY DEF Entry, HistoryKinds
<1>3. TypeOK /\ cells \in [DOMAIN cells -> CellRecord]
  BY ReadyCells
<1>4. origin \in DOMAIN cells /\ gross \in Amount
  <2>1. receipts[r] \in ReceiptRecord
    BY <1>1, <1>3, Slots
  <2>2. origin \in CellArgs /\ gross \in Amount
    BY <2>1 DEF ReceiptRecord, CellArgs
  <2> QED
    BY <1>1, <1>3, <2>2, Slots
<1> HIDE DEF entry, origin, gross
<1>5. ds \in [DOMAIN cells -> CellRecord] /\ Even(DOMAIN cells, cells, ds, 0)
  BY <1>3, <1>4, CellMutations, CommitmentsEven
<1> HIDE DEF ds
<1>6. Even(DOMAIN cells, cells, cells', 0)
  BY <1>1, <1>3, <1>5, StampedEven
<1>7. Written(<<entry>>) /\ DOMAIN <<entry>> = {1} /\ <<entry>>[1] = entry
  BY <1>1, <1>3, WritesOne, Entries
<1>8. \A k \in DOMAIN <<entry>> : <<entry>>[k].kind \notin HistoryKinds
  BY <1>2, <1>7
<1>9. 0 <= Len(<<entry>>) * MaxSupply
  BY <1>7, RoomToCount
<1> QED
  BY <1>6, <1>7, <1>8, <1>9, EvenCall

\* A transfer is paid out and paid in (pdtl_transfer_between_cells).
LEMMA TransferAccounted ==
    ASSUME Ready, NEW from \in CellArgs, NEW to \in CellArgs, NEW amount \in CallAmounts,
           TransferBetweenCells(from, to, amount), ~Silent
    PROVE  Accounted
<1> DEFINE sent == Entry("cell_transfer", from, to, NoIndex, amount,
                         cells[from].reserve, cells'[from].reserve)
           received == Entry("cell_transfer", to, from, NoIndex, amount,
                             cells[to].reserve, cells'[to].reserve)
           entries == <<sent, received>>
           paid == Debit(cells, from, amount)
           ds == Credit(paid, to, amount)
           n == cell_count
           D == DOMAIN cells
<1>1. /\ cells' = Stamp(ds, {from, to}) /\ AppendJournal(entries)
      /\ IsCell(from) /\ IsCell(to) /\ ~(Available(from) < amount)
  BY DEF TransferBetweenCells, TransferError, Reject, Silent
<1>2. sent.kind \notin HistoryKinds /\ received.kind \notin HistoryKinds
  BY DEF Entry, HistoryKinds
<1>3. /\ TypeOK /\ SolvencyInv /\ cells \in [D -> CellRecord]
      /\ n \in Nat /\ D = 0..(n - 1) /\ MaxSupply \in Nat /\ AmountModulus \in Nat
      /\ Reserves(cells, n) \in Nat /\ Reserves(cells, n) < AmountModulus
  BY ReadyCells
<1>4. from \in D /\ to \in D /\ amount \in Amount /\ amount \in Nat
  BY <1>1, <1>3, Slots, LedgerAssumption, AmountClosed
<1>5. amount <= cells[from].reserve /\ amount <= MaxSupply
  <2>1. amount <= cells[from].reserve
    BY <1>1, <1>3, <1>4, AvailableMeans
  <2>2. cells[from].reserve \in Nat /\ cells[from].reserve <= MaxSupply
    BY <1>4, ReadyCells
  <2> QED
    BY <1>3, <1>4, <2>1, <2>2
<1>6. /\ Written(entries) /\ DOMAIN entries = {1, 2} /\ Len(entries) = 2
      /\ entries[1] = sent /\ entries[2] = received
  <2> HIDE DEF sent, received
  <2> QED
    BY <1>1, <1>3, WritesTwo, Entries
<1>7. \A k \in DOMAIN entries : entries[k].kind \notin HistoryKinds
  BY <1>2, <1>6
<1> HIDE DEF sent, received, entries, n, D
<1>8. /\ amount + amount <= Len(entries) * MaxSupply
      /\ Countable(D, cells, amount + amount) /\ Countable(D, cells, amount)
  <2>1. /\ Countable(D, cells, Len(entries) * MaxSupply)
        /\ Len(entries) * MaxSupply \in Nat
        /\ MaxSupply + MaxSupply <= Len(entries) * MaxSupply
    <3>1. Len(entries) >= 2
      BY <1>6
    <3> QED
      BY <1>6, <3>1, RoomToCount, Zenon DEF D
  <2>2. amount + amount <= Len(entries) * MaxSupply /\ amount <= Len(entries) * MaxSupply
    BY <1>3, <1>4, <1>5, <2>1
  <2>3. amount + amount \in Nat
    BY <1>4
  <2> QED
    BY <1>3, <1>4, <2>1, <2>2, <2>3, CountableLess
<1>9. Even(D, cells, paid, amount) /\ Reserves(paid, n) = Reserves(cells, n) - amount
      /\ paid \in [D -> CellRecord]
  BY <1>3, <1>4, <1>5, <1>8, DebitEven, DebitReserves, CellMutations
<1> HIDE DEF paid
<1>10. paid[to].reserve + amount < AmountModulus
  <2>1. paid[to].reserve \in Nat /\ paid[to].reserve <= Reserves(paid, n)
    BY <1>3, <1>4, <1>9, ReservesBound
  <2> QED
    BY <1>3, <1>4, <1>9, <2>1
<1>11. ds \in [D -> CellRecord] /\ Even(D, paid, ds, amount)
  <2>1. Countable(D, paid, amount)
    BY <1>3, <1>4, <1>8, <1>9, CountableAfter
  <2> QED
    BY <1>4, <1>9, <1>10, <2>1, CreditEven, CellMutations
<1> HIDE DEF ds
<1>12. Even(D, cells, ds, amount + amount) /\ amount + amount \in Nat
  <2>1. Even(D, cells, paid, amount) /\ Even(D, paid, ds, amount)
    BY <1>9, <1>11
  <2>2. amount + amount \in Nat
    BY <1>4
  <2> QED
    BY <1>3, <1>4, <2>1, <2>2, EvenTwice
<1>13. Even(DOMAIN cells, cells, cells', amount + amount)
  BY <1>1, <1>3, <1>11, <1>12, StampedEven DEF D
<1> QED
  BY <1>6, <1>7, <1>8, <1>12, <1>13, EvenCall

\* A withdrawal is counted as withdrawn (pdtl_withdraw).
LEMMA WithdrawAccounted ==
    ASSUME Ready, NEW cell \in CellArgs, NEW amount \in CallAmounts,
           Withdraw(cell, amount), ~Silent
    PROVE  Accounted
<1> DEFINE entry == Entry("withdrawal", cell, NoIndex, NoIndex, amount,
                          cells[cell].reserve, cells'[cell].reserve)
           ds == [cells EXCEPT ![cell].reserve = Minus(@, amount),
                               ![cell].withdrawn = Plus(@, amount)]
           D == DOMAIN cells
           old == cells[cell]
           new == ds[cell]
<1>1. /\ cells' = Stamp(ds, {cell}) /\ AppendJournal(<<entry>>)
      /\ IsCell(cell) /\ ~(Available(cell) < amount)
  BY DEF Withdraw, WithdrawError, Reject, Silent
<1>2. entry.kind \notin HistoryKinds
  BY DEF Entry, HistoryKinds
<1>3. /\ TypeOK /\ SolvencyInv /\ cells \in [D -> CellRecord]
      /\ MaxSupply \in Nat
  BY ReadyCells
<1>4. cell \in D /\ amount \in Amount /\ amount \in Nat /\ old \in CellRecord
  BY <1>1, <1>3, Slots, LedgerAssumption, AmountClosed
<1>5. amount <= old.reserve /\ amount <= MaxSupply
  <2>1. amount <= cells[cell].reserve
    BY <1>1, <1>3, <1>4, AvailableMeans
  <2>2. cells[cell].reserve \in Nat /\ cells[cell].reserve <= MaxSupply
    BY <1>4, ReadyCells
  <2> QED
    BY <1>3, <1>4, <2>1, <2>2
<1>6. Written(<<entry>>) /\ DOMAIN <<entry>> = {1} /\ <<entry>>[1] = entry /\ Len(<<entry>>) = 1
  <2> HIDE DEF entry
  <2> QED
    BY <1>1, <1>3, WritesOne, Entries
<1>7. \A k \in DOMAIN <<entry>> : <<entry>>[k].kind \notin HistoryKinds
  BY <1>2, <1>6
<1> HIDE DEF entry
<1>8. amount <= Len(<<entry>>) * MaxSupply /\ Countable(D, cells, amount)
  <2>1. /\ Countable(D, cells, Len(<<entry>>) * MaxSupply)
        /\ Len(<<entry>>) * MaxSupply \in Nat
        /\ MaxSupply <= Len(<<entry>>) * MaxSupply
    <3>1. Len(<<entry>>) >= 1
      BY <1>6
    <3> QED
      BY <1>6, <3>1, RoomToCount, Zenon
  <2>2. amount <= Len(<<entry>>) * MaxSupply
    BY <1>3, <1>4, <1>5, <2>1
  <2> QED
    BY <1>3, <1>4, <2>1, <2>2, CountableLess
<1>9. /\ ds \in [D -> CellRecord]
      /\ \A c \in D : c # cell => ds[c] = cells[c]
  <2>1. ds \in [D -> CellRecord]
    BY ZenonT(60), <1>3, <1>4, AmountClosed DEF CellRecord
  <2> QED
    BY <1>3, <2>1
<1>10. /\ new.reserve = Minus(old.reserve, amount)
       /\ new.withdrawn = Plus(old.withdrawn, amount)
       /\ new.settled_in = old.settled_in /\ new.settled_out = old.settled_out
  BY <1>3, <1>4 DEF CellRecord
<1>11. new.reserve = old.reserve - amount /\ new.withdrawn = old.withdrawn + amount
  <2>1. old.withdrawn + amount < AmountModulus
    BY <1>4, <1>8 DEF Countable
  <2> HIDE DEF ds, old, new, D
  <2> QED
    BY <1>4, <1>5, <1>10, <2>1, CellCounts, NoWrap
<1>12. EvenCell(old, new, amount)
  <2> HIDE DEF ds, old, new, D
  <2> QED
    BY <1>4, <1>10, <1>11, CellCounts DEF EvenCell, Tally
<1> HIDE DEF ds
<1>13. Even(D, cells, ds, amount)
  <2>1. \A c \in D : EvenCell(cells[c], ds[c], amount)
    BY <1>3, <1>4, <1>9, <1>12, EvenSame
  <2> QED
    BY <1>9, <2>1 DEF Even
<1>14. Even(DOMAIN cells, cells, cells', amount)
  BY <1>1, <1>3, <1>4, <1>9, <1>13, StampedEven
<1> QED
  BY <1>4, <1>6, <1>7, <1>8, <1>14, EvenCall

\* The payments of a settlement count the gross twice: once out, once in.
LEMMA FeeEven ==
    ASSUME NEW D, NEW cs \in [D -> CellRecord], NEW fee_cell, NEW fee \in Amount,
           fee_cell # NoIndex =>
               fee_cell \in D /\ cs[fee_cell].reserve + fee < AmountModulus,
           Countable(D, cs, fee)
    PROVE  Even(D, cs, FeePaid(cs, fee_cell, fee), fee)
<1>1. fee \in Nat
  BY AmountClosed
<1>2. CASE fee_cell # NoIndex /\ fee > 0
  <2>1. FeePaid(cs, fee_cell, fee) = Credit(cs, fee_cell, fee)
    BY <1>2 DEF FeePaid
  <2>2. Even(D, cs, Credit(cs, fee_cell, fee), fee)
    BY <1>2, CreditEven
  <2> QED
    BY <2>1, <2>2, Zenon
<1>3. CASE ~(fee_cell # NoIndex /\ fee > 0)
  <2>1. FeePaid(cs, fee_cell, fee) = cs
    BY <1>3 DEF FeePaid
  <2>2. \A c \in D : EvenCell(cs[c], cs[c], fee)
    BY <1>1, EvenSame
  <2>3. Even(D, cs, cs, fee)
    BY <2>2 DEF Even
  <2> QED
    BY <2>1, <2>3, Zenon
<1> QED
  BY <1>2, <1>3

LEMMA SettlementEven ==
    ASSUME NEW n \in Nat, NEW D, D = 0..(n - 1), NEW cs \in [D -> CellRecord],
           NEW payer \in D, NEW to \in D, NEW fee_cell, fee_cell # NoIndex => fee_cell \in D,
           NEW gross \in Amount, NEW net \in Amount, NEW fee \in Amount,
           fee + net = gross, gross <= cs[payer].reserve,
           Reserves(cs, n) < AmountModulus, Countable(D, cs, gross + gross)
    PROVE  Even(D, cs, SettlementPaid(cs, payer, to, fee_cell, gross, net, fee), gross + gross)
<1> DEFINE paid == Debit(cs, payer, gross)
           credited == Credit(paid, to, net)
           ds == FeePaid(credited, fee_cell, fee)
<1>1. /\ gross \in Nat /\ net \in Nat /\ fee \in Nat /\ AmountModulus \in Nat
      /\ Reserves(cs, n) \in Nat
  BY AmountClosed, AmountAssumption, ReservesBound
<1>2. /\ gross + (net + fee) = gross + gross /\ gross <= gross + gross
      /\ net + fee \in Nat /\ gross + gross \in Nat
  BY <1>1
<1>3. Countable(D, cs, gross) /\ Countable(D, cs, gross + (net + fee))
  BY <1>1, <1>2, CountableLess
<1>4. /\ paid \in [D -> CellRecord] /\ Reserves(paid, n) = Reserves(cs, n) - gross
  BY DebitReserves
<1>5. Even(D, cs, paid, gross)
  BY <1>3, DebitEven
<1> HIDE DEF paid
<1>6. Countable(D, paid, net + fee)
  BY <1>1, <1>2, <1>3, <1>5, CountableAfter
<1>7. Countable(D, paid, net)
  <2>1. net <= net + fee
    BY <1>1
  <2> QED
    BY <1>1, <1>2, <1>4, <1>6, <2>1, CountableLess
<1>8. Reserves(paid, n) + net < AmountModulus
  BY <1>1, <1>4
<1>9. paid[to].reserve + net < AmountModulus
  <2>1. paid[to].reserve \in Nat /\ paid[to].reserve <= Reserves(paid, n)
        /\ Reserves(paid, n) \in Nat
    BY <1>4, ReservesBound
  <2> QED
    BY <1>1, <1>8, <2>1
<1>10. /\ credited \in [D -> CellRecord] /\ Reserves(credited, n) = Reserves(paid, n) + net
  BY <1>4, <1>8, CreditReserves
<1>11. Even(D, paid, credited, net)
  BY <1>4, <1>7, <1>9, CreditEven
<1> HIDE DEF credited
<1>12. Countable(D, credited, fee)
  BY <1>1, <1>4, <1>6, <1>11, CountableAfter
<1>13. fee_cell # NoIndex =>
           fee_cell \in D /\ credited[fee_cell].reserve + fee < AmountModulus
  <2> SUFFICES ASSUME fee_cell # NoIndex
               PROVE  credited[fee_cell].reserve + fee < AmountModulus
    OBVIOUS
  <2>1. /\ credited[fee_cell].reserve \in Nat /\ Reserves(credited, n) \in Nat
        /\ credited[fee_cell].reserve <= Reserves(credited, n)
    BY <1>10, ReservesBound
  <2> QED
    BY <1>1, <1>4, <1>10, <2>1
<1>14. Even(D, credited, ds, fee)
  BY <1>10, <1>12, <1>13, FeeEven
<1> HIDE DEF ds
<1>15. Even(D, paid, ds, net + fee)
  BY <1>1, <1>4, <1>11, <1>14, EvenTwice
<1>16. Even(D, cs, ds, gross + (net + fee))
  BY <1>1, <1>2, <1>5, <1>15, EvenTwice
<1>17. Even(D, cs, ds, gross + gross)
  BY <1>2, <1>16
<1>18. ds = SettlementPaid(cs, payer, to, fee_cell, gross, net, fee)
  BY DEF SettlementPaid, ds, credited, paid
<1> QED
  BY <1>17, <1>18, Zenon

\* A settlement is paid out and paid in (pdtl_settle_receipt, pdtl_apply_settlement).
LEMMA SettleAccounted ==
    ASSUME Ready, NEW r \in ReceiptArgs, NEW payer \in CellArgs,
           SettleReceipt(r, payer), ~Silent
    PROVE  Accounted
<1> DEFINE receipt == receipts[r]
           origin == receipt.origin_cell
           to == receipt.beneficiary_cell
           gross == receipt.gross
           net == receipt.net
           fee == receipt.fee
           fee_cell == routes[receipt.route].fee_cell
           more == fee_cell # NoIndex /\ fee > 0
           ps == SettlementPaid(cells, payer, to, fee_cell, gross, net, fee)
           ds == Release(ps, origin, gross)
           touched == {payer, to, origin, fee_cell}
           a == Entry("receipt_settled", payer, to, r, gross,
                      cells[payer].reserve, cells'[payer].reserve)
           b == Entry("receipt_settled", to, payer, r, net,
                      cells[to].reserve, cells'[to].reserve)
           c == Entry("receipt_settled", fee_cell, payer, r, fee,
                      cells[fee_cell].reserve, cells'[fee_cell].reserve)
           entries == <<a, b>> \o IF more THEN <<c>> ELSE <<>>
           n == cell_count
           D == DOMAIN cells
<1>1. /\ SettleError(r, payer) = "PDTL_OK"
      /\ cells' = SettledCells(receipt, payer, fee_cell)
      /\ AppendJournal(entries)
  BY DEF SettleReceipt, Reject, Silent
<1>2. cells' = Stamp(ds, touched)
  BY <1>1 DEF SettledCells, SettlementPaid, FeePaid
<1>3. /\ TypeOK /\ SolvencyInv /\ SupplyFits /\ cells \in [D -> CellRecord]
      /\ n \in Nat /\ D = 0..(n - 1) /\ MaxSupply \in Nat
      /\ Reserves(cells, n) < AmountModulus
  BY ReadyCells
<1>4. /\ receipt \in ReceiptRecord /\ payer \in D /\ origin \in D /\ to \in D
      /\ fee_cell \in D \cup {NoIndex}
  BY <1>1, <1>3, SettlementShape
<1>5. /\ gross \in Amount /\ net \in Amount /\ fee \in Amount /\ gross \in Nat
  BY <1>4, AmountClosed DEF ReceiptRecord
<1>6. gross <= cells[payer].reserve /\ fee + net = gross
  BY <1>1, <1>3, SettlementCovered
<1>7. gross <= MaxSupply
  <2>1. cells[payer].reserve \in Nat /\ cells[payer].reserve <= MaxSupply
    BY <1>4, ReadyCells
  <2> QED
    BY <1>3, <1>5, <1>6, <2>1
<1>8. /\ a.kind \notin HistoryKinds /\ b.kind \notin HistoryKinds /\ c.kind \notin HistoryKinds
  BY DEF Entry, HistoryKinds
<1> HIDE DEF a, b, c
<1>9. SettlementList(entries, a, b, c, more)
  <2>1. more \in BOOLEAN
    OBVIOUS
  <2> HIDE DEF more
  <2>2. entries = <<a, b>> \o IF more THEN <<c>> ELSE <<>>
    BY DEF more
  <2> HIDE DEF entries
  <2> QED
    BY <2>1, <2>2, SettlementEntries, Zenon
<1> HIDE DEF entries
<1>10. Written(entries) /\ \A k \in DOMAIN entries : entries[k].kind \notin HistoryKinds
  <2>1. Written(entries)
    BY <1>1, <1>3, <1>9, AppendWrites DEF SettlementList
  <2>2. \A k \in DOMAIN entries : entries[k].kind \notin HistoryKinds
    BY <1>8, <1>9 DEF SettlementList
  <2> QED
    BY <2>1, <2>2
<1>11. Len(entries) >= 2
  <2>1. Len(entries) \in Nat /\ DOMAIN entries = 1..Len(entries) /\ 2 \in DOMAIN entries
    BY <1>9, <1>10 DEF Written, SettlementList
  <2> QED
    BY <2>1
<1> HIDE DEF receipt, origin, to, gross, net, fee, fee_cell, more, touched, n, D
<1>12. gross + gross <= Len(entries) * MaxSupply /\ Countable(D, cells, gross + gross)
       /\ gross + gross \in Nat
  <2>1. /\ Countable(D, cells, Len(entries) * MaxSupply)
        /\ Len(entries) * MaxSupply \in Nat
        /\ MaxSupply + MaxSupply <= Len(entries) * MaxSupply
    BY <1>10, <1>11, RoomToCount, Zenon DEF D
  <2>2. gross + gross <= Len(entries) * MaxSupply
    BY <1>3, <1>5, <1>7, <2>1
  <2>3. gross + gross \in Nat
    BY <1>5
  <2> QED
    BY <1>3, <2>1, <2>2, <2>3, CountableLess
<1>13. Even(D, cells, ps, gross + gross)
  <2>1. /\ n \in Nat /\ D = 0..(n - 1) /\ cells \in [D -> CellRecord]
        /\ payer \in D /\ to \in D /\ (fee_cell # NoIndex => fee_cell \in D)
        /\ gross \in Amount /\ net \in Amount /\ fee \in Amount
        /\ fee + net = gross /\ gross <= cells[payer].reserve
        /\ Reserves(cells, n) < AmountModulus /\ Countable(D, cells, gross + gross)
    BY <1>3, <1>4, <1>5, <1>6, <1>12
  <2> HIDE DEF ps
  <2>2. ps = SettlementPaid(cells, payer, to, fee_cell, gross, net, fee)
    BY DEF ps
  <2> QED
    BY <2>1, <2>2, SettlementEven, Zenon
<1> HIDE DEF ps
<1>14. ds \in [D -> CellRecord] /\ Even(D, ps, ds, 0)
  <2>1. ps \in [D -> CellRecord]
    BY <1>13 DEF Even
  <2> QED
    BY <1>4, <1>5, <2>1, CellMutations, CommitmentsEven
<1> HIDE DEF ds
<1>15. Even(D, cells, ds, gross + gross)
  <2>1. Even(D, cells, ds, (gross + gross) + 0)
    BY <1>3, <1>12, <1>13, <1>14, EvenTwice
  <2>2. (gross + gross) + 0 = gross + gross
    BY <1>12
  <2> QED
    BY <2>1, <2>2
<1>16. Even(DOMAIN cells, cells, cells', gross + gross)
  BY <1>2, <1>3, <1>12, <1>14, <1>15, StampedEven DEF D
<1> QED
  BY <1>10, <1>12, <1>16, EvenCall

\* Calls that add to the history of cells, by what they do before the stamp.
Retold(D, cs, ds, entries, c, a) ==
    /\ \A kind \in HistoryKinds : \A k \in DOMAIN entries : Said(kind, entries[k], c) \in Int
    /\ Tally(ds[c]) = Tally(cs[c]) + SaidSum("genesis_deposit", entries, c)
                        - SaidSum("cell_consolidated", entries, c)
    /\ ds[c].settled_in <= cs[c].settled_in + a
    /\ ds[c].settled_out <= cs[c].settled_out + a
    /\ ds[c].withdrawn <= cs[c].withdrawn + a

LEMMA RetoldCall ==
    ASSUME Ready, NEW entries, Written(entries), NEW a \in Nat, a <= Len(entries) * MaxSupply,
           NEW ds \in [DOMAIN cells -> CellRecord], NEW touched, cells' = Stamp(ds, touched),
           \A c \in DOMAIN cells : Retold(DOMAIN cells, cells, ds, entries, c, a)
    PROVE  Accounted
<1> DEFINE D == DOMAIN cells
           es == Stamp(ds, touched)
           b == Len(entries) * MaxSupply
<1>1. TypeOK /\ cells \in [D -> CellRecord]
  BY ReadyCells
<1>2. Even(D, ds, es, 0)
  BY <1>1, StampEven
<1>3. b \in Nat /\ a <= b
  BY RoomToCount
<1>4. DOMAIN cells' = D
  <2>1. es \in [D -> CellRecord]
    BY <1>2 DEF Even
  <2> HIDE DEF es, D
  <2>2. cells' = es
    BY DEF es
  <2> QED
    BY <2>1, <2>2
<1>5. ASSUME NEW c \in DOMAIN cells PROVE CellTold(entries, c)
  <2> DEFINE x == cells[c]
             y == ds[c]
             z == es[c]
             dep == SaidSum("genesis_deposit", entries, c)
             con == SaidSum("cell_consolidated", entries, c)
  <2>1. EvenCell(y, z, 0) /\ z \in CellRecord /\ y \in CellRecord /\ x \in CellRecord
    BY <1>1, <1>2 DEF Even
  <2>2. /\ \A kind \in HistoryKinds : \A k \in DOMAIN entries : Said(kind, entries[k], c) \in Int
        /\ Tally(y) = Tally(x) + dep - con
        /\ y.settled_in <= x.settled_in + a
        /\ y.settled_out <= x.settled_out + a
        /\ y.withdrawn <= x.withdrawn + a
    BY DEF Retold
  <2>3. cells'[c] = z
    OBVIOUS
  <2> HIDE DEF x, y, z, dep, con, b
  <2>4. Tally(z) = Tally(x) + dep - con
    BY <2>1, <2>2 DEF EvenCell
  <2>5. z.settled_in <= x.settled_in + b
    <3> DEFINE p == x.settled_in
               q == y.settled_in
               r == z.settled_in
    <3>1. p \in Nat /\ q \in Nat /\ r \in Nat
      BY <2>1, CellCounts
    <3>2. r <= q + 0 /\ q <= p + a
      BY <2>1, <2>2 DEF EvenCell
    <3> HIDE DEF p, q, r
    <3>3. r <= p + b
      BY <1>3, <3>1, <3>2
    <3> QED
      BY <3>3 DEF p, r
  <2>6. z.settled_out <= x.settled_out + b
    <3> DEFINE p == x.settled_out
               q == y.settled_out
               r == z.settled_out
    <3>1. p \in Nat /\ q \in Nat /\ r \in Nat
      BY <2>1, CellCounts
    <3>2. r <= q + 0 /\ q <= p + a
      BY <2>1, <2>2 DEF EvenCell
    <3> HIDE DEF p, q, r
    <3>3. r <= p + b
      BY <1>3, <3>1, <3>2
    <3> QED
      BY <3>3 DEF p, r
  <2>7. z.withdrawn <= x.withdrawn + b
    <3> DEFINE p == x.withdrawn
               q == y.withdrawn
               r == z.withdrawn
    <3>1. p \in Nat /\ q \in Nat /\ r \in Nat
      BY <2>1, CellCounts
    <3>2. r <= q + 0 /\ q <= p + a
      BY <2>1, <2>2 DEF EvenCell
    <3> HIDE DEF p, q, r
    <3>3. r <= p + b
      BY <1>3, <3>1, <3>2
    <3> QED
      BY <3>3 DEF p, r
  <2> QED
    BY <2>2, <2>3, <2>4, <2>5, <2>6, <2>7, Zenon DEF CellTold, x, dep, con, b
<1> QED
  BY <1>4, <1>5 DEF Accounted

\* A deposit is an entry and a reserve that grows (pdtl_deposit_genesis).
LEMMA DepositAccounted ==
    ASSUME Ready, NEW cell \in CellArgs, NEW amount \in CallAmounts,
           DepositGenesis(cell, amount), totals.initial_supply + amount <= MaxSupply, ~Silent
    PROVE  Accounted
<1> DEFINE entry == Entry("genesis_deposit", cell, NoIndex, NoIndex, amount,
                          cells[cell].reserve, cells'[cell].reserve)
           ds == [cells EXCEPT ![cell].reserve = Plus(@, amount)]
           D == DOMAIN cells
           old == cells[cell]
           new == ds[cell]
<1>1. /\ cells' = Stamp(ds, {cell}) /\ AppendJournal(<<entry>>) /\ IsCell(cell)
  BY DEF DepositGenesis, DepositGenesisError, Reject, Silent
<1>2. /\ entry.kind = "genesis_deposit" /\ entry.cell = cell /\ entry.amount = amount
  BY DEF Entry
<1>3. /\ TypeOK /\ SolvencyInv /\ SupplyFits /\ cells \in [D -> CellRecord]
  BY ReadyCells
<1>4. cell \in D /\ amount \in Amount /\ amount \in Nat /\ old \in CellRecord
  BY <1>1, <1>3, Slots, LedgerAssumption, AmountClosed
<1>5. Written(<<entry>>)
  <2> HIDE DEF entry
  <2> QED
    BY <1>1, <1>3, WritesOne
<1>6. ds \in [D -> CellRecord]
  BY ZenonT(60), <1>3, <1>4, AmountClosed DEF CellRecord
<1>7. \A c \in D : c # cell => ds[c] = cells[c]
  BY <1>3, <1>6
<1>8. /\ new.reserve = Plus(old.reserve, amount) /\ new.withdrawn = old.withdrawn
      /\ new.settled_in = old.settled_in /\ new.settled_out = old.settled_out
  BY <1>3, <1>4 DEF CellRecord
<1> HIDE DEF entry, ds
<1>9. DOMAIN <<entry>> = {1} /\ <<entry>>[1] = entry /\ Len(<<entry>>) = 1
  BY Entries
<1>10. new.reserve = old.reserve + amount
  <2>1. old.reserve + amount < AmountModulus
    <3>1. /\ old.reserve \in Nat /\ old.reserve <= Reserves(cells, cell_count)
      <4>1. /\ cell_count \in Nat /\ cells \in [0..(cell_count - 1) -> CellRecord]
            /\ cell \in 0..(cell_count - 1)
        BY <1>4, ReadyCells
      <4> QED
        BY <4>1, ReservesBound
    <3> HIDE DEF old
    <3> QED
      BY <1>3, <1>4, <3>1, Room
  <2> HIDE DEF old, new
  <2> QED
    BY <1>4, <1>8, <2>1, CellCounts, NoWrap
<1>11. ASSUME NEW c \in D PROVE Retold(D, cells, ds, <<entry>>, c, 0)
  <2>1. /\ Said("genesis_deposit", entry, c) = IF c = cell THEN amount ELSE 0
        /\ Said("cell_consolidated", entry, c) = 0
    BY <1>2 DEF Said
  <2>2. \A kind \in HistoryKinds : Said(kind, entry, c) \in Int
    BY <1>4, <2>1 DEF HistoryKinds
  <2>3. /\ SaidSum("genesis_deposit", <<entry>>, c) = (IF c = cell THEN amount ELSE 0)
        /\ SaidSum("cell_consolidated", <<entry>>, c) = 0
    <3>1. \A kind \in HistoryKinds : SaidSum(kind, <<entry>>, c) = Said(kind, entry, c)
      BY <2>2, OneSaid
    <3>2. /\ SaidSum("genesis_deposit", <<entry>>, c) = Said("genesis_deposit", entry, c)
          /\ SaidSum("cell_consolidated", <<entry>>, c) = Said("cell_consolidated", entry, c)
      BY <3>1 DEF HistoryKinds
    <3> QED
      BY <2>1, <3>2, Zenon
  <2>4. Tally(ds[c]) = Tally(cells[c]) + (IF c = cell THEN amount ELSE 0) - 0
    <3>1. CASE c = cell
      <4>1. Tally(new) = Tally(old) + amount - 0
        <5> HIDE DEF old, new
        <5> QED
          BY <1>4, <1>8, <1>10, CellCounts DEF Tally
      <4> QED
        BY <3>1, <4>1
    <3>2. CASE c # cell
      <4>1. ds[c] = cells[c] /\ Tally(cells[c]) \in Int
        BY <1>3, <1>7, <3>2, CellCounts
      <4> QED
        BY <3>2, <4>1
    <3> QED
      BY <3>1, <3>2
  <2>5. /\ ds[c].settled_in <= cells[c].settled_in + 0
        /\ ds[c].settled_out <= cells[c].settled_out + 0
        /\ ds[c].withdrawn <= cells[c].withdrawn + 0
    <3>1. /\ ds[c].settled_in = cells[c].settled_in
          /\ ds[c].settled_out = cells[c].settled_out
          /\ ds[c].withdrawn = cells[c].withdrawn
      BY <1>7, <1>8
    <3>2. cells[c] \in CellRecord
      BY <1>3
    <3> QED
      BY <3>1, <3>2, CellCounts
  <2>6. Tally(ds[c]) = Tally(cells[c]) + SaidSum("genesis_deposit", <<entry>>, c)
                         - SaidSum("cell_consolidated", <<entry>>, c)
    BY <2>3, <2>4
  <2>7. \A kind \in HistoryKinds : \A k \in DOMAIN <<entry>> :
            Said(kind, <<entry>>[k], c) \in Int
    BY <1>9, <2>2
  <2> QED
    BY <2>5, <2>6, <2>7 DEF Retold
<1>12. 0 \in Nat /\ 0 <= Len(<<entry>>) * MaxSupply
  BY <1>5, RoomToCount
<1> QED
  BY <1>1, <1>5, <1>6, <1>11, <1>12, RetoldCall

\* What a source loses is told as merged, and the target counts it in (pdtl_consolidate_cell).
LEMMA ConsolidateAccounted ==
    ASSUME Ready, NEW target \in CellArgs, NEW source \in CellArgs,
           ConsolidateCell(target, source), ~Silent
    PROVE  Accounted
<1> DEFINE moved == cells[source].reserve
           credited == Credit(cells, target, moved)
           ds == [credited EXCEPT ![source].reserve = 0, ![source].state = "closed"]
           gone == Entry("cell_consolidated", source, target, NoIndex, moved, moved, 0)
           got == Entry("cell_consolidated", target, source, NoIndex, moved,
                        cells[target].reserve, cells'[target].reserve)
           entries == <<gone, got>>
           D == DOMAIN cells
           n == cell_count
<1>1. /\ cells' = Stamp(ds, {source, target}) /\ AppendJournal(entries)
      /\ IsCell(target) /\ IsCell(source) /\ source # target
  BY DEF ConsolidateCell, ConsolidateError, Reject, Silent
<1>2. /\ gone.kind = "cell_consolidated" /\ gone.cell = source
      /\ gone.amount = moved /\ gone.before_balance = moved /\ gone.after_balance = 0
      /\ got.kind = "cell_consolidated" /\ got.cell = target
      /\ got.amount = moved /\ got.before_balance = cells[target].reserve
      /\ got.after_balance = cells'[target].reserve
  BY DEF Entry
<1>3. /\ TypeOK /\ SolvencyInv /\ cells \in [D -> CellRecord]
      /\ n \in Nat /\ D = 0..(n - 1) /\ MaxSupply \in Nat /\ AmountModulus \in Nat
      /\ Reserves(cells, n) \in Nat /\ Reserves(cells, n) < AmountModulus
  BY ReadyCells
<1>4. target \in D /\ source \in D
  BY <1>1, <1>3, Slots
<1>5. moved \in Amount /\ moved \in Nat /\ moved <= MaxSupply
  <2>1. cells[source] \in CellRecord /\ cells[source].reserve <= MaxSupply
    BY <1>3, <1>4, ReadyCells
  <2> QED
    BY <2>1, CellCounts
<1>6. Written(entries)
  <2> HIDE DEF gone, got
  <2> QED
    BY <1>1, <1>3, WritesTwo
<1> HIDE DEF gone, got
<1>7. /\ DOMAIN entries = {1, 2} /\ Len(entries) = 2
      /\ entries[1] = gone /\ entries[2] = got
  BY Entries
<1>8. moved + cells[target].reserve < AmountModulus /\ cells[target].reserve \in Nat
  <2>1. moved + cells[target].reserve <= Reserves(cells, n)
    BY <1>1, <1>3, <1>4, TwoReserves
  <2>2. cells[target] \in CellRecord /\ cells[target].reserve \in Nat
    BY <1>3, <1>4, CellCounts
  <2> HIDE DEF moved, n
  <2> QED
    BY <1>3, <1>5, <2>1, <2>2
<1> HIDE DEF moved, entries, n, D
<1>9. /\ moved <= Len(entries) * MaxSupply /\ Countable(D, cells, moved)
  <2>1. /\ Countable(D, cells, Len(entries) * MaxSupply)
        /\ Len(entries) * MaxSupply \in Nat
        /\ MaxSupply <= Len(entries) * MaxSupply
    <3>1. Len(entries) >= 1
      BY <1>7
    <3> QED
      BY <1>6, <3>1, RoomToCount, Zenon DEF D
  <2>2. moved <= Len(entries) * MaxSupply
    BY <1>3, <1>5, <2>1
  <2> QED
    BY <1>3, <1>5, <2>1, <2>2, CountableLess
<1>10. /\ Even(D, cells, credited, moved) /\ credited \in [D -> CellRecord]
       /\ \A c \in D : c # target => credited[c] = cells[c]
       /\ credited[target].reserve = cells[target].reserve + moved
  <2>1. cells[target].reserve + moved < AmountModulus
    BY <1>5, <1>8
  <2>2. Even(D, cells, credited, moved) /\ credited \in [D -> CellRecord]
    <3>1. /\ cells \in [D -> CellRecord] /\ target \in D /\ moved \in Amount
          /\ cells[target].reserve + moved < AmountModulus /\ Countable(D, cells, moved)
      BY <1>3, <1>4, <1>5, <1>9, <2>1
    <3>2. Even(D, cells, credited, moved)
      BY <3>1, CreditEven
    <3> QED
      BY <3>2 DEF Even
  <2>3. \A c \in D : c # target => credited[c] = cells[c]
    <3>1. cells \in [D -> CellRecord] /\ target \in D /\ moved \in Amount
      BY <1>3, <1>4, <1>5
    <3> QED
      BY <3>1, MutationsElsewhere
  <2>4. credited[target].reserve = Plus(cells[target].reserve, moved)
    BY <1>3, <1>4, <1>5, <2>2 DEF Credit, CellRecord
  <2>5. cells[target].reserve \in Amount
    BY <1>3, <1>4, CellCounts
  <2>6. Plus(cells[target].reserve, moved) = cells[target].reserve + moved
    BY <1>5, <2>1, <2>5, NoWrap
  <2> QED
    BY <2>2, <2>3, <2>4, <2>6
<1> HIDE DEF credited
<1>11. /\ ds \in [D -> CellRecord] /\ ds[source].reserve = 0
       /\ ds[source].settled_in = credited[source].settled_in
       /\ ds[source].settled_out = credited[source].settled_out
       /\ ds[source].withdrawn = credited[source].withdrawn
       /\ \A c \in D : c # source => ds[c] = credited[c]
  <2>1. credited[source] \in CellRecord
    BY <1>4, <1>10
  <2>2. ds \in [D -> CellRecord]
    BY <1>4, <1>10, <2>1, AmountClosed DEF CellRecord
  <2>3. /\ ds[source].reserve = 0
        /\ ds[source].settled_in = credited[source].settled_in
        /\ ds[source].settled_out = credited[source].settled_out
        /\ ds[source].withdrawn = credited[source].withdrawn
    BY <1>4, <1>10, <2>1 DEF CellRecord
  <2>4. \A c \in D : c # source => ds[c] = credited[c]
    BY <1>4, <1>10
  <2> QED
    BY <2>2, <2>3, <2>4
<1> HIDE DEF ds
<1>12. cells'[target].reserve = cells[target].reserve + moved
  <2>1. cells'[target].reserve = ds[target].reserve
    <3>1. cells'[target] = [ds[target] EXCEPT !.sequence = NextSequence]
      BY <1>1, <1>4, <1>11 DEF Stamp
    <3>2. ds[target] \in CellRecord
      BY <1>4, <1>11
    <3> QED
      BY <3>1, <3>2 DEF CellRecord
  <2> QED
    BY <1>1, <1>4, <1>10, <1>11, <2>1
<1>13. ASSUME NEW c \in D PROVE Retold(D, cells, ds, entries, c, moved)
  <2>1. /\ Said("genesis_deposit", gone, c) = 0 /\ Said("genesis_deposit", got, c) = 0
        /\ Said("cell_consolidated", got, c) = 0
        /\ Said("cell_consolidated", gone, c) = IF c = source THEN moved ELSE 0
    <3>1. ~(cells'[target].reserve < cells[target].reserve)
      BY <1>5, <1>8, <1>12
    <3>2. Said("cell_consolidated", got, c) = 0
      BY <1>2, <3>1 DEF Said
    <3>3. Said("cell_consolidated", gone, c)
            = IF c = source THEN (IF 0 < moved THEN moved ELSE 0) ELSE 0
      BY <1>2 DEF Said
    <3>4. (IF 0 < moved THEN moved ELSE 0) = moved
      BY <1>5
    <3>5. Said("genesis_deposit", gone, c) = 0 /\ Said("genesis_deposit", got, c) = 0
      BY <1>2 DEF Said
    <3> QED
      BY <3>2, <3>3, <3>4, <3>5
  <2>2. \A kind \in HistoryKinds : Said(kind, gone, c) \in Int /\ Said(kind, got, c) \in Int
    BY <1>5, <2>1 DEF HistoryKinds
  <2>3. /\ SaidSum("genesis_deposit", entries, c) = 0
        /\ SaidSum("cell_consolidated", entries, c) = IF c = source THEN moved ELSE 0
    <3>1. \A kind \in HistoryKinds :
             SaidSum(kind, entries, c) = Said(kind, gone, c) + Said(kind, got, c)
      <4> TAKE kind \in HistoryKinds
      <4>1. Said(kind, gone, c) \in Int /\ Said(kind, got, c) \in Int
        BY <2>2
      <4>2. entries = <<gone, got>>
        BY DEF entries
      <4> QED
        BY <4>1, <4>2, TwoSaid
    <3>2. /\ SaidSum("genesis_deposit", entries, c)
               = Said("genesis_deposit", gone, c) + Said("genesis_deposit", got, c)
          /\ SaidSum("cell_consolidated", entries, c)
               = Said("cell_consolidated", gone, c) + Said("cell_consolidated", got, c)
      BY <3>1 DEF HistoryKinds
    <3> QED
      BY <1>5, <2>1, <3>2
  <2>4. \A kind \in HistoryKinds : \A k \in DOMAIN entries :
            Said(kind, entries[k], c) \in Int
    BY <1>7, <2>2
  <2> DEFINE x == cells[c]
             y == credited[c]
             z == ds[c]
             m == IF c = source THEN moved ELSE 0
  <2>5. x \in CellRecord /\ y \in CellRecord /\ z \in CellRecord /\ EvenCell(x, y, moved)
    BY <1>3, <1>10, <1>11 DEF Even
  <2>6. /\ y.reserve = z.reserve + m /\ z.settled_in = y.settled_in
        /\ z.settled_out = y.settled_out /\ z.withdrawn = y.withdrawn /\ m \in Nat
    <3>1. CASE c = source
      <4>1. y.reserve = moved /\ z.reserve = 0
        BY <1>1, <1>4, <1>10, <1>11, <3>1 DEF moved
      <4> QED
        BY <1>5, <1>11, <3>1, <4>1
    <3>2. CASE c # source
      <4>1. z = y /\ m = 0 /\ y.reserve \in Nat
        BY <1>11, <2>5, <3>2, CellCounts
      <4> HIDE DEF y, z
      <4> QED
        BY <4>1
    <3> QED
      BY <3>1, <3>2
  <2> HIDE DEF x, y, z, m
  <2>7. Tally(y) = Tally(z) + m /\ Tally(y) = Tally(x) /\ Tally(x) \in Int /\ Tally(z) \in Int
    <3>1. Tally(y) = Tally(z) + m
      <4>1. /\ y.reserve \in Nat /\ y.settled_in \in Nat /\ y.settled_out \in Nat
            /\ y.withdrawn \in Nat /\ z.reserve \in Nat
        BY <2>5, CellCounts
      <4>2. /\ Tally(y) = y.reserve + y.settled_out + y.withdrawn - y.settled_in
            /\ Tally(z) = z.reserve + y.settled_out + y.withdrawn - y.settled_in
        BY <2>6 DEF Tally
      <4>3. y.reserve = z.reserve + m /\ m \in Nat
        BY <2>6
      <4> QED
        BY <4>1, <4>2, <4>3
    <3> QED
      BY <2>5, <3>1, CellCounts DEF EvenCell
  <2>8. Tally(z) = Tally(x) + 0 - m
    BY <2>6, <2>7
  <2>9. /\ z.settled_in <= x.settled_in + moved /\ z.settled_out <= x.settled_out + moved
        /\ z.withdrawn <= x.withdrawn + moved
    BY <2>5, <2>6 DEF EvenCell
  <2>10. Tally(ds[c]) = Tally(cells[c]) + SaidSum("genesis_deposit", entries, c)
                          - SaidSum("cell_consolidated", entries, c)
    BY <2>3, <2>8 DEF x, z, m
  <2> QED
    BY <2>4, <2>9, <2>10 DEF Retold, x, z
<1> QED
  BY <1>1, <1>5, <1>6, <1>9, <1>11, <1>13, RetoldCall DEF D

\* Repricing or closing a route touches no cell.
LEMMA RouteControlAccounted ==
    ASSUME Ready, RouteControl, ~Silent
    PROVE  Accounted
<1>1. TypeOK /\ cells \in [DOMAIN cells -> CellRecord]
  BY ReadyCells
<1>2. ASSUME NEW a, AppendJournal(<<a>>), UNCHANGED cells, a.kind \notin HistoryKinds
      PROVE  Accounted
  <2>1. DOMAIN <<a>> = {1} /\ <<a>>[1] = a
    BY Entries
  <2>2. Written(<<a>>)
    BY <1>1, <1>2, WritesOne
  <2>3. Even(DOMAIN cells, cells, cells, 0)
    BY <1>1, EvenSame DEF Even
  <2>4. Even(DOMAIN cells, cells, cells', 0)
    BY <1>2, <2>3
  <2>5. 0 \in Nat /\ 0 <= Len(<<a>>) * MaxSupply
    BY <2>2, RoomToCount
  <2>6. \A k \in DOMAIN <<a>> : <<a>>[k].kind \notin HistoryKinds
    BY <1>2, <2>1
  <2> QED
    BY <2>2, <2>4, <2>5, <2>6, EvenCall
<1>3. ASSUME NEW n, NEW b, NEW c, UpdateRouteFee(n, b, c)
      PROVE  Accounted
  <2> DEFINE a == Entry("route_fee_updated", c, NoIndex, NoIndex, b, routes[n].fee_bps, b)
  <2>1. AppendJournal(<<a>>) /\ UNCHANGED cells
    BY <1>3 DEF UpdateRouteFee, Reject, Silent
  <2>2. a.kind \notin HistoryKinds
    BY DEF Entry, HistoryKinds
  <2> HIDE DEF a
  <2> QED
    BY <1>2, <2>1, <2>2
<1>4. ASSUME NEW n, CloseRoute(n)
      PROVE  Accounted
  <2> DEFINE a == Entry("route_closed", NoIndex, NoIndex, NoIndex, 0, 0, 0)
  <2>1. AppendJournal(<<a>>) /\ UNCHANGED cells
    BY <1>4 DEF CloseRoute, Reject, Silent, vars
  <2>2. a.kind \notin HistoryKinds
    BY DEF Entry, HistoryKinds
  <2> HIDE DEF a
  <2> QED
    BY <1>2, <2>1, <2>2
<1> QED
  BY <1>3, <1>4 DEF RouteControl

\* A new cell has no history, and nothing tells one (pdtl_create_cell).
LEMMA CreateCellHistory ==
    ASSUME Ready, JournalInv, NEW owner, NEW asset, NEW route, NEW policy,
           CreateCell(owner, asset, route, policy), ~Silent
    PROVE  \A c \in DOMAIN cells' : HistoryTold(c)'
<1> DEFINE entry == Entry("cell_created", cell_count, NoIndex, NoIndex, 0, 0, 0)
           n == cell_count
           new == cells'[n]
<1>1. /\ cells' = [i \in 0..n |->
                     IF i = n THEN NewCell(owner, asset, route, policy) ELSE cells[i]]
      /\ AppendJournal(<<entry>>)
  BY DEF CreateCell, Reject, Silent
<1>2. entry.kind = "cell_created"
  BY DEF Entry
<1> HIDE DEF entry
<1>3. /\ TypeOK /\ TypeOK' /\ HistoryInv /\ JournalHasRoom' /\ n \in Nat
      /\ DOMAIN cells = 0..(n - 1) /\ cells \in [DOMAIN cells -> CellRecord] /\ MaxSupply \in Nat
  BY ReadyCells DEF Ready
<1>4. /\ Written(<<entry>>) /\ DOMAIN <<entry>> = {1} /\ <<entry>>[1] = entry
  BY <1>1, <1>3, WritesOne, Entries
<1>5. /\ DOMAIN cells' = 0..n /\ n \notin DOMAIN cells
      /\ \A c \in DOMAIN cells : c \in 0..n /\ cells'[c] = cells[c]
      /\ \A c \in 0..n : c \in DOMAIN cells \/ c = n
      /\ new = NewCell(owner, asset, route, policy)
  BY <1>1, <1>3
<1>6. entry.kind \notin HistoryKinds /\ entry.kind \notin ReserveKinds
  BY <1>2 DEF HistoryKinds, ReserveKinds
<1>7. ASSUME NEW c \in DOMAIN cells PROVE HistoryTold(c)'
  <2>1. cells'[c] = cells[c] /\ cells[c] \in CellRecord
    BY <1>3, <1>5
  <2>2. Len(<<entry>>) * MaxSupply \in Nat
    BY <1>4, RoomToCount
  <2>3. EvenCell(cells[c], cells[c], Len(<<entry>>) * MaxSupply)
    BY <2>1, <2>2, EvenSame
  <2>4. EvenCell(cells[c], cells'[c], Len(<<entry>>) * MaxSupply)
    BY <2>1, <2>3, Zenon
  <2>5. CellTold(<<entry>>, c)
    BY <1>4, <1>6, <2>1, <2>4, EvenTold
  <2> QED
    BY <1>3, <1>4, <2>1, <2>5, StoryStep
<1>8. ASSUME NEW c, c = n PROVE HistoryTold(c)'
  <2>1. ASSUME NEW kind \in HistoryKinds
        PROVE  SaidSum(kind, journal', c) = 0
    <3>1. EntriesRefer
      BY <1>3, <1>4, JournalParts DEF JournalInv, JournalSound
    <3>2. \A k \in DOMAIN journal : /\ k \in DOMAIN journal'
                                    /\ Said(kind, journal[k], c) = 0
      <4>1. HistoryKinds \subseteq ReserveKinds
        BY DEF HistoryKinds, ReserveKinds
      <4> QED
        BY <1>3, <1>4, <1>5, <1>8, <2>1, <3>1, <4>1, JournalParts DEF EntriesRefer, Said
    <3>3. \A k \in DOMAIN journal' : Said(kind, journal'[k], c) = 0
      <4> SUFFICES ASSUME NEW k \in DOMAIN journal'
                   PROVE  Said(kind, journal'[k], c) = 0
        OBVIOUS
      <4>1. CASE k \in DOMAIN journal
        <5>1. journal'[k] = journal[k]
          BY <1>3, <1>4, <4>1, JournalParts
        <5> QED
          BY <3>2, <4>1, <5>1
      <4>2. CASE \E j \in DOMAIN <<entry>> : k = Len(journal) + j
        <5>1. PICK j \in DOMAIN <<entry>> : k = Len(journal) + j
          BY <4>2
        <5>2. journal'[k] = <<entry>>[j]
          BY <1>3, <1>4, <5>1, JournalParts
        <5>3. journal'[k] = entry
          BY <1>4, <5>1, <5>2
        <5> QED
          BY <1>6, <2>1, <5>3 DEF Said
      <4> QED
        BY <1>3, <1>4, <4>1, <4>2, JournalParts
    <3>4. Len(journal') \in Nat /\ DOMAIN journal' = 1..Len(journal')
      BY <1>3 DEF TypeOK, JournalTyped
    <3> QED
      BY <3>3, <3>4, QuietSaid
  <2>2. /\ Journaled("genesis_deposit", c)' = 0 /\ Journaled("cell_consolidated", c)' = 0
    <3>1. /\ SaidSum("genesis_deposit", journal', c) = 0
          /\ SaidSum("cell_consolidated", journal', c) = 0
      BY <2>1 DEF HistoryKinds
    <3>2. /\ Journaled("genesis_deposit", c)' = SaidSum("genesis_deposit", journal', c)
          /\ Journaled("cell_consolidated", c)' = SaidSum("cell_consolidated", journal', c)
      BY JournaledSaid
    <3> QED
      BY <3>1, <3>2
  <2>3. /\ cells'[c].reserve = 0 /\ cells'[c].settled_in = 0
        /\ cells'[c].settled_out = 0 /\ cells'[c].withdrawn = 0
    BY <1>5, <1>8 DEF NewCell
  <2>4. 0 <= Len(journal') * MaxSupply
    <3>1. Len(journal') \in Nat
      BY <1>3 DEF TypeOK, JournalTyped
    <3>2. Len(journal') * MaxSupply \in Nat
      BY <1>3, <3>1, Distributes
    <3> QED
      BY <3>2
  <2> QED
    BY <2>2, <2>3, <2>4 DEF HistoryTold, Tally
<1> QED
  BY <1>5, <1>7, <1>8

-----------------------------------------------------------------------------
(* The step and the theorem.                                               *)

\* A call that is told in the cells and the journal keeps the history told.
LEMMA AccountedKeeps ==
    ASSUME Ready, Accounted
    PROVE  \A c \in DOMAIN cells' : HistoryTold(c)'
<1> SUFFICES ASSUME NEW c \in DOMAIN cells'
             PROVE  HistoryTold(c)'
  OBVIOUS
<1>1. PICK entries : Written(entries) /\ \A k \in DOMAIN cells : CellTold(entries, k)
  BY DEF Accounted
<1>2. c \in DOMAIN cells /\ CellTold(entries, c)
  BY <1>1 DEF Accounted
<1>3. TypeOK /\ TypeOK' /\ HistoryInv /\ JournalHasRoom'
  BY ReadyCells DEF Ready
<1>4. cells'[c] \in CellRecord
  BY <1>3 DEF TypeOK, CellsTyped
<1> QED
  BY <1>1, <1>2, <1>3, <1>4, StoryStep

LEMMA NextHistory ==
    ASSUME SolvencyInv, SupplyFits, HistoryFits, JournalInv, HistoryInv, [Next]_vars
    PROVE  HistoryInv'
<1> SUFFICES ASSUME JournalHasRoom'
             PROVE  \A c \in DOMAIN cells' : HistoryTold(c)'
  BY DEF HistoryInv
<1>1. TypeOK' /\ Ready
  <2>1. TypeOK
    BY DEF SolvencyInv, ReferenceInv
  <2>2. TypeOK'
    BY <2>1, NextType
  <2> QED
    BY <2>2 DEF Ready
<1>2. CASE Silent
  <2>1. JournalHasRoom
    BY <1>2 DEF Silent, JournalHasRoom
  <2>2. \A c \in DOMAIN cells : HistoryTold(c)
    BY <2>1 DEF HistoryInv
  <2> QED
    BY <1>2, <2>2 DEF Silent, HistoryTold, Journaled
<1>3. CASE ~Silent
  <2>1. CASE Setup
    <3>1. PICK o, a, n, p : CreateCell(o, a, n, p)
      BY ZenonT(60), <1>3, <2>1 DEF Setup, AddPolicy, AddRoute, Reject, Silent
    <3> QED
      BY <1>1, <1>3, <3>1, CreateCellHistory
  <2>2. CASE Movement
    <3>1. Accounted
      BY <1>1, <1>3, <2>2, DepositAccounted, TransferAccounted, ConsolidateAccounted,
         WithdrawAccounted DEF Movement
    <3> QED
      BY <1>1, <3>1, AccountedKeeps
  <2>3. CASE ReceiptLife
    <3>1. Accounted
      BY <1>1, <1>3, <2>3, IssueAccounted, SettleAccounted, CancelAccounted DEF ReceiptLife
    <3> QED
      BY <1>1, <3>1, AccountedKeeps
  <2>4. CASE RouteControl
    <3>1. Accounted
      BY <1>1, <1>3, <2>4, RouteControlAccounted
    <3> QED
      BY <1>1, <3>1, AccountedKeeps
  <2>5. CASE ClearError \/ UNCHANGED vars
    BY <1>3, <2>5 DEF ClearError, vars, Silent
  <2> QED
    BY <2>1, <2>2, <2>3, <2>4, <2>5 DEF Next
<1> QED
  BY <1>2, <1>3

LEMMA InitHistory == Init => HistoryInv
<1> SUFFICES ASSUME Init PROVE HistoryInv
  OBVIOUS
<1>1. TypeOK
  BY InitType
<1>2. DOMAIN cells = {}
  <2>1. cell_count = 0
    BY DEF Init
  <2>2. DOMAIN cells = 0..(0 - 1)
    BY <1>1, <2>1, Slots
  <2> QED
    BY <2>2
<1> QED
  BY <1>2 DEF HistoryInv

(***************************************************************************)
(* pdtl_debit_cell, pdtl_credit_cell and pdtl_withdraw keep counters that  *)
(* nothing reads back, and pdtl_append_journal writes what each call did:  *)
(* while the journal has room, what a cell has counted in and out and the  *)
(* deposits and mergers it was told of make up its reserve.  The counters  *)
(* only grow, so no supply bounds them; the room in the journal does.      *)
(***************************************************************************)
THEOREM HistoryCorrect == SupplyFits /\ HistoryFits => (Spec => []CountersTellHistory)
<1> SUFFICES ASSUME SupplyFits, HistoryFits
             PROVE  Spec => []CountersTellHistory
  OBVIOUS
<1>1. SolvencyInv /\ JournalInv /\ HistoryInv /\ [Next]_vars => HistoryInv'
  BY NextHistory
<1>2. TypeOK /\ HistoryInv => CountersTellHistory
  BY HistoryMeans
<1>3. Spec => []SolvencyInv
  BY SolvencyHolds
<1> QED
  BY <1>1, <1>2, <1>3, InitHistory, JournalHolds, TypeCorrect, PTL DEF Spec

-----------------------------------------------------------------------------
(***************************************************************************)
(* The state digest.  A call that leaves it alone appended nothing, so the *)
(* journal is the same; a field the digest hashes is the same; and what it *)
(* does not hash of these structs is constant.                             *)
(***************************************************************************)
Appended == \E S : \E entries \in Seq(S) : AppendJournal(entries)

\* One entry, two or the list of a settlement: sequences.
LEMMA EntriesAppended ==
    /\ \A a : AppendJournal(<<a>>) => Appended
    /\ \A a, b : AppendJournal(<<a, b>>) => Appended
    /\ \A a, b, c : \A more \in BOOLEAN :
          AppendJournal(<<a, b>> \o IF more THEN <<c>> ELSE <<>>) => Appended
<1>1. ASSUME NEW a, AppendJournal(<<a>>) PROVE Appended
  <2>1. <<a>> \in Seq({a})
    BY Entries
  <2> QED
    BY <1>1, <2>1 DEF Appended
<1>2. ASSUME NEW a, NEW b, AppendJournal(<<a, b>>) PROVE Appended
  <2>1. <<a, b>> \in Seq({a, b})
    BY Entries
  <2> QED
    BY <1>2, <2>1 DEF Appended
<1>3. ASSUME NEW a, NEW b, NEW c, NEW more \in BOOLEAN,
             AppendJournal(<<a, b>> \o IF more THEN <<c>> ELSE <<>>)
      PROVE  Appended
  <2> DEFINE entries == <<a, b>> \o IF more THEN <<c>> ELSE <<>>
  <2>1. entries = <<a, b>> \o IF more THEN <<c>> ELSE <<>>
    OBVIOUS
  <2>2. AppendJournal(entries)
    BY <1>3
  <2> HIDE DEF entries
  <2>3. SettlementList(entries, a, b, c, more)
    BY <2>1, SettlementEntries, Zenon
  <2> QED
    BY <2>2, <2>3 DEF Appended, SettlementList
<1> QED
  BY <1>1, <1>2, <1>3

\* Whatever a call does to the journal is appending.
LEMMA NextAppends ==
    ASSUME [Next]_vars, journal' # journal
    PROVE  Appended
<1>1. CASE Setup
  BY ZenonT(60), <1>1, EntriesAppended DEF Setup, AddPolicy, AddRoute, CreateCell, Reject
<1>2. CASE Movement
  <2>1. ASSUME NEW c, NEW a, DepositGenesis(c, a) PROVE Appended
    BY Zenon, <2>1, EntriesAppended DEF DepositGenesis, Reject
  <2>2. ASSUME NEW f, NEW t, NEW a, TransferBetweenCells(f, t, a) PROVE Appended
    BY Zenon, <2>2, EntriesAppended DEF TransferBetweenCells, Reject
  <2>3. ASSUME NEW t, NEW s, ConsolidateCell(t, s) PROVE Appended
    BY Zenon, <2>3, EntriesAppended DEF ConsolidateCell, Reject
  <2>4. ASSUME NEW c, NEW a, Withdraw(c, a) PROVE Appended
    BY Zenon, <2>4, EntriesAppended DEF Withdraw, Reject
  <2> QED
    BY <1>2, <2>1, <2>2, <2>3, <2>4 DEF Movement
<1>3. CASE ReceiptLife
  <2>1. ASSUME NEW o, NEW b, NEW a, IssueReceipt(o, b, a) PROVE Appended
    BY Zenon, <2>1, EntriesAppended DEF IssueReceipt, Reject
  <2>2. ASSUME NEW r, NEW p, SettleReceipt(r, p) PROVE Appended
    <3> DEFINE receipt == receipts[r]
               to == receipt.beneficiary_cell
               fee_cell == routes[receipt.route].fee_cell
               more == fee_cell # NoIndex /\ receipt.fee > 0
               a == Entry("receipt_settled", p, to, r, receipt.gross,
                          cells[p].reserve, cells'[p].reserve)
               b == Entry("receipt_settled", to, p, r, receipt.net,
                          cells[to].reserve, cells'[to].reserve)
               c == Entry("receipt_settled", fee_cell, p, r, receipt.fee,
                          cells[fee_cell].reserve, cells'[fee_cell].reserve)
    <3>1. AppendJournal(<<a, b>> \o IF more THEN <<c>> ELSE <<>>)
      BY <2>2 DEF SettleReceipt, Reject
    <3>2. more \in BOOLEAN
      OBVIOUS
    <3> HIDE DEF a, b, c, more
    <3> QED
      BY Zenon, <3>1, <3>2, EntriesAppended
  <2>3. ASSUME NEW r, CancelReceipt(r) PROVE Appended
    BY Zenon, <2>3, EntriesAppended DEF CancelReceipt, Reject
  <2> QED
    BY <1>3, <2>1, <2>2, <2>3 DEF ReceiptLife
<1>4. CASE RouteControl
  <2>1. ASSUME NEW n, NEW b, NEW c, UpdateRouteFee(n, b, c) PROVE Appended
    BY Zenon, <2>1, EntriesAppended DEF UpdateRouteFee, Reject
  <2>2. ASSUME NEW n, CloseRoute(n) PROVE Appended
    BY Zenon, <2>2, EntriesAppended DEF CloseRoute, Reject, vars
  <2> QED
    BY <1>4, <2>1, <2>2 DEF RouteControl
<1>5. CASE ClearError \/ UNCHANGED vars
  BY <1>5 DEF ClearError, vars
<1> QED
  BY <1>1, <1>2, <1>3, <1>4, <1>5 DEF Next

\* A journal that is no longer than it was is the same.
LEMMA SameLength ==
    ASSUME TypeOK, [Next]_vars, Len(journal') = Len(journal)
    PROVE  journal' = journal
<1> SUFFICES ASSUME journal' # journal PROVE FALSE
  OBVIOUS
<1>0. PICK S : \E entries \in Seq(S) : AppendJournal(entries)
  BY NextAppends DEF Appended
<1>1. PICK entries \in Seq(S) : AppendJournal(entries)
  BY <1>0
<1> DEFINE room == MaxJournal - Len(journal)
           taken == IF Len(entries) <= room THEN Len(entries) ELSE room
           part == SubSeq(entries, 1, taken)
           T == EntryRecord \cup S
<1>2. /\ journal \in Seq(T) /\ entries \in Seq(T) /\ Len(entries) \in Nat
      /\ Len(journal) \in Nat /\ Len(journal) <= MaxJournal /\ MaxJournal \in Nat
      /\ DOMAIN entries = 1..Len(entries)
  BY LedgerAssumption DEF TypeOK, JournalTyped
<1>3. taken \in Nat /\ taken <= Len(entries)
  BY <1>2
<1>4. journal' = journal \o part
  BY <1>1 DEF AppendJournal
<1> HIDE DEF T, taken, room
<1>5. part \in Seq(T) /\ Len(part) = taken
  <2>1. \A i \in 1..taken : entries[i] \in T
    <3>1. \A i \in 1..taken : i \in 1..Len(entries)
      BY <1>2, <1>3
    <3> QED
      BY <1>2, <3>1, ElementOfSeq
  <2>2. /\ part \in Seq(T)
        /\ Len(part) = IF 1 <= taken THEN taken - 1 + 1 ELSE 0
    BY <1>3, <2>1, SubSeqProperties
  <2> HIDE DEF part
  <2> QED
    BY <1>3, <2>2
<1> HIDE DEF part
<1>6. Len(journal') = Len(journal) + taken
  BY <1>2, <1>4, <1>5, ConcatProperties
<1>7. part = <<>>
  <2>1. taken = 0
    BY <1>2, <1>3, <1>6
  <2> QED
    BY <1>5, <2>1, EmptySeq
<1> QED
  BY <1>2, <1>4, <1>7, ConcatEmptySeq

\* A route, a cell and a receipt are their fields.
LEMMA RouteFields ==
    ASSUME NEW r \in RouteRecord, NEW s \in RouteRecord,
           r.asset = s.asset, r.policy = s.policy, r.fee_bps = s.fee_bps,
           r.fee_cell = s.fee_cell, r.closed = s.closed
    PROVE  r = s
BY DEF RouteRecord

LEMMA CellFields ==
    ASSUME NEW c \in CellRecord, NEW d \in CellRecord,
           c.owner = d.owner, c.asset = d.asset, c.route = d.route, c.policy = d.policy,
           c.reserve = d.reserve, c.reserved_out = d.reserved_out,
           c.settled_in = d.settled_in, c.settled_out = d.settled_out,
           c.withdrawn = d.withdrawn, c.sequence = d.sequence, c.state = d.state
    PROVE  c = d
BY DEF CellRecord

LEMMA ReceiptFields ==
    ASSUME NEW r \in ReceiptRecord, NEW s \in ReceiptRecord,
           r.origin_cell = s.origin_cell, r.beneficiary_cell = s.beneficiary_cell,
           r.paid_by_cell = s.paid_by_cell, r.asset = s.asset, r.route = s.route,
           r.policy = s.policy, r.gross = s.gross, r.fee = s.fee, r.net = s.net,
           r.route_digest = s.route_digest, r.status = s.status
    PROVE  r = s
BY DEF ReceiptRecord

\* Arrays of the same digests are the same arrays.
LEMMA RoutesByDigest ==
    ASSUME TypeOK, TypeOK',
           [n \in DOMAIN routes |-> RouteDigest(n)]' = [n \in DOMAIN routes |-> RouteDigest(n)]
    PROVE  routes' = routes
<1>1. DOMAIN routes' = DOMAIN routes
  OBVIOUS
<1>2. ASSUME NEW n \in DOMAIN routes PROVE routes'[n] = routes[n]
  <2>1. routes[n] \in RouteRecord /\ routes'[n] \in RouteRecord
    BY <1>1 DEF TypeOK, RoutesTyped
  <2>2. RouteDigest(n)' = RouteDigest(n)
    BY <1>1
  <2>3. /\ routes'[n].asset = routes[n].asset /\ routes'[n].policy = routes[n].policy
        /\ routes'[n].fee_bps = routes[n].fee_bps
        /\ routes'[n].fee_cell = routes[n].fee_cell /\ routes'[n].closed = routes[n].closed
    BY <2>2 DEF RouteDigest
  <2> QED
    BY <2>1, <2>3, RouteFields
<1> QED
  BY <1>1, <1>2 DEF TypeOK, RoutesTyped

LEMMA CellsByDigest ==
    ASSUME TypeOK, TypeOK',
           [i \in DOMAIN cells |-> CellDigest(i)]' = [i \in DOMAIN cells |-> CellDigest(i)]
    PROVE  cells' = cells
<1>1. DOMAIN cells' = DOMAIN cells
  OBVIOUS
<1>2. ASSUME NEW i \in DOMAIN cells PROVE cells'[i] = cells[i]
  <2>1. cells[i] \in CellRecord /\ cells'[i] \in CellRecord
    BY <1>1 DEF TypeOK, CellsTyped
  <2>2. CellDigest(i)' = CellDigest(i)
    BY <1>1
  <2> DEFINE c == cells[i]
             d == cells'[i]
  <2>3. <<d.owner, d.asset, d.route, d.policy, d.reserve, d.reserved_out, d.settled_in,
          d.settled_out, d.withdrawn, d.sequence, d.state>>
      = <<c.owner, c.asset, c.route, c.policy, c.reserve, c.reserved_out, c.settled_in,
          c.settled_out, c.withdrawn, c.sequence, c.state>>
    BY <2>2 DEF CellDigest
  <2> HIDE DEF c, d
  <2>4. /\ d.owner = c.owner /\ d.asset = c.asset /\ d.route = c.route
        /\ d.policy = c.policy /\ d.reserve = c.reserve
        /\ d.reserved_out = c.reserved_out /\ d.settled_in = c.settled_in
        /\ d.settled_out = c.settled_out /\ d.withdrawn = c.withdrawn
        /\ d.sequence = c.sequence /\ d.state = c.state
    BY <2>3
  <2> QED
    BY <2>1, <2>4, CellFields DEF c, d
<1>3. cells \in [DOMAIN cells -> CellRecord] /\ cells' \in [DOMAIN cells -> CellRecord]
  BY <1>1 DEF TypeOK, CellsTyped
<1> QED
  BY <1>2, <1>3

LEMMA ReceiptsByDigest ==
    ASSUME TypeOK, TypeOK',
           [i \in DOMAIN receipts |-> ReceiptDigest(i)]'
             = [i \in DOMAIN receipts |-> ReceiptDigest(i)]
    PROVE  receipts' = receipts
<1>1. DOMAIN receipts' = DOMAIN receipts
  OBVIOUS
<1>2. ASSUME NEW i \in DOMAIN receipts PROVE receipts'[i] = receipts[i]
  <2>1. receipts[i] \in ReceiptRecord /\ receipts'[i] \in ReceiptRecord
    BY <1>1 DEF TypeOK, ReceiptsTyped
  <2>2. ReceiptDigest(i)' = ReceiptDigest(i)
    BY <1>1
  <2> DEFINE r == receipts[i]
             s == receipts'[i]
  <2>3. <<s.origin_cell, s.beneficiary_cell, s.paid_by_cell, s.asset, s.route, s.policy,
          s.gross, s.fee, s.net, s.route_digest, s.status>>
      = <<r.origin_cell, r.beneficiary_cell, r.paid_by_cell, r.asset, r.route, r.policy,
          r.gross, r.fee, r.net, r.route_digest, r.status>>
    BY <2>2 DEF ReceiptDigest
  <2> HIDE DEF r, s
  <2>4. /\ s.origin_cell = r.origin_cell /\ s.beneficiary_cell = r.beneficiary_cell
        /\ s.paid_by_cell = r.paid_by_cell /\ s.asset = r.asset /\ s.route = r.route
        /\ s.policy = r.policy /\ s.gross = r.gross /\ s.fee = r.fee /\ s.net = r.net
        /\ s.route_digest = r.route_digest /\ s.status = r.status
    BY <2>3
  <2> QED
    BY <2>1, <2>4, ReceiptFields DEF r, s
<1>3. /\ receipts \in [DOMAIN receipts -> ReceiptRecord]
      /\ receipts' \in [DOMAIN receipts -> ReceiptRecord]
  BY <1>1 DEF TypeOK, ReceiptsTyped
<1> QED
  BY <1>2, <1>3

(***************************************************************************)
(* docs/operacion.md compares state digests to review a transition: every  *)
(* call that changes a route, a cell, a receipt, a count, the journal or a *)
(* total changes the digest, also a call that a full journal cuts.         *)
(***************************************************************************)
THEOREM ChangesSeen == Spec => DigestSeesChanges
<1>1. TypeOK /\ [Next]_vars /\ StateDigest' = StateDigest =>
        UNCHANGED <<routes, cells, cell_count, receipts, receipt_count, journal, totals>>
  <2> SUFFICES ASSUME TypeOK, [Next]_vars, StateDigest' = StateDigest
               PROVE  UNCHANGED <<routes, cells, cell_count, receipts, receipt_count,
                                  journal, totals>>
    OBVIOUS
  <2>1. TypeOK'
    BY NextType
  <2> DEFINE R == [n \in DOMAIN routes |-> RouteDigest(n)]
             C == [i \in DOMAIN cells |-> CellDigest(i)]
             P == [i \in DOMAIN receipts |-> ReceiptDigest(i)]
  <2>2. /\ Len(journal') = Len(journal)
        /\ totals'.initial_supply = totals.initial_supply
        /\ totals'.external_withdrawals = totals.external_withdrawals
        /\ cell_count' = cell_count /\ receipt_count' = receipt_count
        /\ R' = R /\ C' = C /\ P' = P
    <3>1. <<Len(journal'), totals'.initial_supply, totals'.external_withdrawals, cell_count',
            receipt_count', Len(journal'), R', C', P'>>
        = <<Len(journal), totals.initial_supply, totals.external_withdrawals, cell_count,
            receipt_count, Len(journal), R, C, P>>
      BY DEF StateDigest
    <3> HIDE DEF R, C, P
    <3> QED
      BY <3>1
  <2>3. routes' = routes /\ cells' = cells /\ receipts' = receipts
    BY <2>1, <2>2, RoutesByDigest, CellsByDigest, ReceiptsByDigest
  <2>4. journal' = journal
    BY <2>2, SameLength
  <2>5. totals' = totals
    BY <2>1, <2>2 DEF TypeOK, TotalsRecord
  <2> QED
    BY <2>2, <2>3, <2>4, <2>5
<1> QED
  BY <1>1, TypeCorrect, PTL DEF Spec, DigestSeesChanges

-----------------------------------------------------------------------------
(***************************************************************************)
(* The books when amounts wrap.  Nothing bounds the supply here: a sum or  *)
(* a difference may be cut, and is then off by a multiple of the modulus.  *)
(* Every call leaves the books off by such a multiple at most, and that is *)
(* what pdtl_global_reconciliation_ok, which computes modulo 2^64, sees.   *)
(***************************************************************************)

Multiples == {k * AmountModulus : k \in Int}

\* Multiples are numbers, and so are their sums and differences.
LEMMA MultiplesClosed ==
    /\ Multiples \subseteq Int /\ 0 \in Multiples
    /\ \A a, b \in Multiples : a + b \in Multiples /\ a - b \in Multiples
<1>1. AmountModulus \in Int
  BY AmountAssumption
<1>2. Multiples \subseteq Int
  BY <1>1 DEF Multiples
<1>3. 0 \in Multiples
  <2>1. 0 = 0 * AmountModulus
    BY <1>1
  <2> QED
    BY <2>1 DEF Multiples
<1>4. ASSUME NEW a \in Multiples, NEW b \in Multiples
      PROVE  a + b \in Multiples /\ a - b \in Multiples
  <2>1. PICK k \in Int : a = k * AmountModulus
    BY DEF Multiples
  <2>2. PICK l \in Int : b = l * AmountModulus
    BY DEF Multiples
  <2>3. a + b = (k + l) * AmountModulus /\ a - b = (k - l) * AmountModulus
    BY <1>1, <2>1, <2>2
  <2>4. k + l \in Int /\ k - l \in Int
    OBVIOUS
  <2> QED
    BY <2>3, <2>4 DEF Multiples
<1> QED
  BY <1>2, <1>3, <1>4

\* What is cut is off by a multiple.
LEMMA CutOff ==
    ASSUME NEW a \in Int
    PROVE  a % AmountModulus \in Amount /\ \E m \in Multiples : a % AmountModulus = a + m
<1> DEFINE q == a \div AmountModulus
<1>1. AmountModulus \in Nat \ {0}
  BY AmountAssumption
<1>2. q \in Int /\ a % AmountModulus \in 0..(AmountModulus - 1)
  BY <1>1
<1>3. a % AmountModulus = a - AmountModulus * q
  BY <1>1
<1> HIDE DEF q
<1>4. 0 - q \in Int /\ a - AmountModulus * q = a + (0 - q) * AmountModulus
  BY <1>1, <1>2
<1>5. (0 - q) * AmountModulus \in Multiples
  BY <1>4 DEF Multiples
<1> QED
  BY <1>2, <1>3, <1>4, <1>5, Zenon DEF Amount

\* Amounts that are off by a multiple are equal.
LEMMA AmountsEqual ==
    ASSUME NEW a \in Amount, NEW b \in Amount, NEW m \in Multiples, a = b + m
    PROVE  a = b
<1>1. PICK k \in Int : m = k * AmountModulus
  BY DEF Multiples
<1>2. /\ AmountModulus \in Nat \ {0} /\ a \in Nat /\ b \in Nat
      /\ a < AmountModulus /\ b < AmountModulus
  BY AmountAssumption DEF Amount
<1>3. CASE k >= 1
  <2>1. k * AmountModulus >= AmountModulus
    BY <1>2, <1>3
  <2> QED
    BY <1>1, <1>2, <2>1
<1>4. CASE k <= 0 - 1
  <2>1. k * AmountModulus <= 0 - AmountModulus
    BY <1>2, <1>4
  <2> QED
    BY <1>1, <1>2, <2>1
<1>5. CASE k = 0
  BY <1>1, <1>2, <1>5
<1> QED
  BY <1>3, <1>4, <1>5

\* Payments change the sum of all reserves by what is paid and a multiple.
LEMMA PaymentCut ==
    ASSUME NEW n \in Nat, NEW cs \in [0..(n - 1) -> CellRecord],
           NEW ds \in [0..(n - 1) -> CellRecord], NEW i \in 0..(n - 1),
           \A j \in 0..(n - 1) : j # i => ds[j].reserve = cs[j].reserve,
           NEW change \in Int, ds[i].reserve = (cs[i].reserve + change) % AmountModulus
    PROVE  \E m \in Multiples : Reserves(ds, n) = Reserves(cs, n) + change + m
<1>1. Reserves(ds, n) = Reserves(cs, n) - cs[i].reserve + ds[i].reserve
  BY ReservesUpdate
<1>2. Reserves(cs, n) \in Nat /\ cs[i].reserve \in Nat
  BY ReservesBound
<1>3. cs[i].reserve + change \in Int
  BY <1>2
<1>4. PICK m \in Multiples :
         (cs[i].reserve + change) % AmountModulus = cs[i].reserve + change + m
  BY <1>3, CutOff
<1>5. m \in Int
  BY MultiplesClosed
<1>6. Reserves(ds, n) = Reserves(cs, n) + change + m
  BY <1>1, <1>2, <1>4, <1>5
<1> QED
  BY <1>6

(***************************************************************************)
(* Payments that make ds of cs change the sum of all reserves by change,   *)
(* up to a multiple.                                                       *)
(***************************************************************************)
Moves(cs, ds, n, change) ==
    /\ ds \in [0..(n - 1) -> CellRecord]
    /\ \E m \in Multiples : Reserves(ds, n) = Reserves(cs, n) + change + m

\* One payment after the other.
LEMMA MovesTwice ==
    ASSUME NEW n \in Nat, NEW cs \in [0..(n - 1) -> CellRecord], NEW es, NEW ds,
           NEW x \in Int, NEW y \in Int, Moves(cs, es, n, x), Moves(es, ds, n, y)
    PROVE  Moves(cs, ds, n, x + y)
<1>1. PICK m \in Multiples : Reserves(es, n) = Reserves(cs, n) + x + m
  BY DEF Moves
<1>2. PICK k \in Multiples : Reserves(ds, n) = Reserves(es, n) + y + k
  BY DEF Moves
<1>3. m \in Int /\ k \in Int /\ m + k \in Multiples /\ Reserves(cs, n) \in Nat
  BY MultiplesClosed, ReservesBound
<1>4. Reserves(ds, n) = Reserves(cs, n) + (x + y) + (m + k)
  BY <1>1, <1>2, <1>3
<1> QED
  BY <1>3, <1>4 DEF Moves

LEMMA DebitCut ==
    ASSUME NEW n \in Nat, NEW cs \in [0..(n - 1) -> CellRecord], NEW i \in 0..(n - 1),
           NEW amount \in Amount
    PROVE  Moves(cs, Debit(cs, i, amount), n, 0 - amount)
<1> DEFINE ds == Debit(cs, i, amount)
<1>1. ds \in [0..(n - 1) -> CellRecord]
  BY CellMutations
<1>2. cs[i] \in CellRecord /\ cs[i].reserve \in Nat /\ amount \in Nat /\ 0 - amount \in Int
  <2>1. amount \in Nat
    BY AmountClosed
  <2> QED
    BY <2>1, ReservesBound
<1>3. /\ ds[i].reserve = Minus(cs[i].reserve, amount)
      /\ \A j \in 0..(n - 1) : j # i => ds[j].reserve = cs[j].reserve
  BY <1>2 DEF Debit, CellRecord
<1> HIDE DEF ds
<1>4. cs[i].reserve - amount = cs[i].reserve + (0 - amount)
  BY <1>2
<1>5. ds[i].reserve = (cs[i].reserve + (0 - amount)) % AmountModulus
  BY <1>3, <1>4 DEF Minus
<1>6. \E m \in Multiples : Reserves(ds, n) = Reserves(cs, n) + (0 - amount) + m
  BY <1>1, <1>2, <1>3, <1>5, PaymentCut
<1> QED
  BY <1>1, <1>6 DEF ds, Moves

LEMMA CreditCut ==
    ASSUME NEW n \in Nat, NEW cs \in [0..(n - 1) -> CellRecord], NEW i \in 0..(n - 1),
           NEW amount \in Amount
    PROVE  Moves(cs, Credit(cs, i, amount), n, amount)
<1> DEFINE ds == Credit(cs, i, amount)
<1>1. ds \in [0..(n - 1) -> CellRecord]
  BY CellMutations
<1>2. cs[i] \in CellRecord /\ amount \in Int
  BY AmountClosed
<1>3. /\ ds[i].reserve = Plus(cs[i].reserve, amount)
      /\ \A j \in 0..(n - 1) : j # i => ds[j].reserve = cs[j].reserve
  BY <1>2 DEF Credit, CellRecord
<1> HIDE DEF ds
<1>4. \E m \in Multiples : Reserves(ds, n) = Reserves(cs, n) + amount + m
  BY <1>1, <1>2, <1>3, PaymentCut DEF Plus
<1> QED
  BY <1>1, <1>4 DEF ds, Moves

\* A stamp touches no reserve.
LEMMA StampedReserves ==
    ASSUME TypeOK, NEW n \in Nat, NEW ds \in [0..(n - 1) -> CellRecord], NEW touched,
           cells' = Stamp(ds, touched)
    PROVE  Reserves(cells', n) = Reserves(ds, n)
<1>1. cells' \in [0..(n - 1) -> CellRecord]
  BY StampType DEF TypeOK, JournalTyped
<1>2. \A j \in 0..(n - 1) : ds[j] \in CellRecord /\ cells'[j] = Stamp(ds, touched)[j]
  OBVIOUS
<1>3. \A j \in 0..(n - 1) : cells'[j].reserve = ds[j].reserve
  BY <1>2 DEF Stamp, CellRecord
<1> QED
  BY <1>1, <1>3, ReservesSame

\* The difference that the reconciliation check looks for, over the integers.
Imbalance ==
    Reserves(cells, cell_count) + totals.external_withdrawals
        + LostSum(receipts, receipt_count) - totals.initial_supply

KeepsBooks == \E m \in Multiples : Imbalance' = Imbalance + m

\* The arrays and totals of a well-typed ledger.
LEMMA Numbers ==
    ASSUME TypeOK
    PROVE  /\ cell_count \in Nat /\ DOMAIN cells = 0..(cell_count - 1)
           /\ cells \in [0..(cell_count - 1) -> CellRecord]
           /\ receipt_count \in Nat /\ DOMAIN receipts = 0..(receipt_count - 1)
           /\ receipts \in [0..(receipt_count - 1) -> ReceiptRecord]
           /\ Reserves(cells, cell_count) \in Nat
           /\ LostSum(receipts, receipt_count) \in Nat
           /\ totals \in TotalsRecord
           /\ totals.external_withdrawals \in Amount /\ totals.external_withdrawals \in Nat
           /\ totals.initial_supply \in Amount /\ totals.initial_supply \in Nat
           /\ Imbalance \in Int
<1>1. /\ cell_count \in Nat /\ DOMAIN cells = 0..(cell_count - 1)
      /\ cells \in [0..(cell_count - 1) -> CellRecord]
      /\ receipt_count \in Nat /\ DOMAIN receipts = 0..(receipt_count - 1)
      /\ receipts \in [0..(receipt_count - 1) -> ReceiptRecord]
  BY Slots DEF TypeOK, CellsTyped, ReceiptsTyped
<1>2. totals.external_withdrawals \in Amount /\ totals.initial_supply \in Amount
      /\ totals \in TotalsRecord
  BY DEF TypeOK, TotalsRecord
<1>3. totals.external_withdrawals \in Nat /\ totals.initial_supply \in Nat
  BY <1>2, AmountClosed
<1>4. Reserves(cells, cell_count) \in Nat /\ LostSum(receipts, receipt_count) \in Nat
  BY <1>1, ReservesBound, ReceiptSums
<1>5. Imbalance \in Int
  BY <1>3, <1>4 DEF Imbalance
<1> QED
  BY <1>1, <1>2, <1>3, <1>4, <1>5

\* A call that changes neither cells nor receipts nor totals keeps the books.
LEMMA BooksUntouched ==
    ASSUME TypeOK, UNCHANGED <<cells, cell_count, receipts, receipt_count, totals>>
    PROVE  KeepsBooks
<1>1. Imbalance' = Imbalance
  BY DEF Imbalance
<1>2. Imbalance = Imbalance + 0
  BY Numbers
<1> QED
  BY <1>1, <1>2, MultiplesClosed DEF KeepsBooks

\* A call keeps the books if what it adds to them makes a multiple.
LEMMA BooksKept ==
    ASSUME TypeOK, NEW held \in Int, NEW left \in Int, NEW lost \in Int, NEW added \in Int,
           Reserves(cells', cell_count') = Reserves(cells, cell_count) + held,
           totals'.external_withdrawals = totals.external_withdrawals + left,
           LostSum(receipts', receipt_count') = LostSum(receipts, receipt_count) + lost,
           totals'.initial_supply = totals.initial_supply + added,
           held + left + lost - added \in Multiples
    PROVE  KeepsBooks
<1> DEFINE m == held + left + lost - added
<1>1. /\ Reserves(cells, cell_count) \in Nat /\ totals.external_withdrawals \in Nat
      /\ LostSum(receipts, receipt_count) \in Nat /\ totals.initial_supply \in Nat
  BY Numbers
<1>2. (Reserves(cells, cell_count) + held) + (totals.external_withdrawals + left)
        + (LostSum(receipts, receipt_count) + lost) - (totals.initial_supply + added)
        = Imbalance + m
  BY <1>1 DEF Imbalance
<1>3. Imbalance' = Imbalance + m
  BY <1>2, Zenon DEF Imbalance
<1> QED
  BY <1>3 DEF KeepsBooks

\* The same for a call that changes reserves only.
LEMMA ReservesKept ==
    ASSUME TypeOK, UNCHANGED <<receipts, receipt_count, totals>>, NEW m \in Multiples,
           Reserves(cells', cell_count') = Reserves(cells, cell_count) + m
    PROVE  KeepsBooks
<1>1. /\ Reserves(cells, cell_count) \in Nat /\ totals.external_withdrawals \in Nat
      /\ LostSum(receipts, receipt_count) \in Nat /\ totals.initial_supply \in Nat
      /\ m \in Int /\ 0 \in Int
  BY Numbers, MultiplesClosed
<1>2. /\ totals'.external_withdrawals = totals.external_withdrawals + 0
      /\ LostSum(receipts', receipt_count') = LostSum(receipts, receipt_count) + 0
      /\ totals'.initial_supply = totals.initial_supply + 0
  BY <1>1
<1>3. m + 0 + 0 - 0 \in Multiples
  BY <1>1
<1> QED
  BY <1>1, <1>2, <1>3, BooksKept

\* A new cell is empty (pdtl_create_cell).
LEMMA CreateCellBooks ==
    ASSUME TypeOK, [Next]_vars, NEW owner, NEW asset, NEW route, NEW policy,
           CreateCell(owner, asset, route, policy)
    PROVE  KeepsBooks
<1>1. CASE UNCHANGED <<cells, cell_count, receipts, receipt_count, totals>>
  BY <1>1, BooksUntouched
<1>2. CASE ~UNCHANGED <<cells, cell_count, receipts, receipt_count, totals>>
  <2> DEFINE n == cell_count
  <2>1. /\ cells' = [i \in 0..n |->
                        IF i = n THEN NewCell(owner, asset, route, policy) ELSE cells[i]]
        /\ cell_count' = n + 1 /\ UNCHANGED <<receipts, receipt_count, totals>>
    BY <1>2 DEF CreateCell, Reject
  <2>2. n \in Nat /\ cells \in [0..(n - 1) -> CellRecord]
    BY Numbers
  <2>3. cells' \in [0..n -> CellRecord]
    <3>1. cells' \in [0..(cell_count' - 1) -> CellRecord]
      BY NextType DEF TypeOK, CellsTyped
    <3>2. cell_count' - 1 = n
      BY <2>1, <2>2
    <3> QED
      BY <3>1, <3>2
  <2>4. cells'[n].reserve = 0 /\ \A i \in 0..(n - 1) : cells'[i] = cells[i]
    BY <2>1, <2>2 DEF NewCell
  <2> HIDE DEF n
  <2>5. Reserves(cells', n + 1) = Reserves(cells, n) + 0 /\ Reserves(cells, n) \in Nat
    BY <2>2, <2>3, <2>4, ReservesAppend, ReservesBound
  <2>6. Reserves(cells', cell_count') = Reserves(cells, n)
    BY <2>1, <2>5
  <2>7. Imbalance' = Imbalance
    BY <2>1, <2>6 DEF Imbalance, n
  <2>8. Imbalance = Imbalance + 0
    BY Numbers
  <2> QED
    BY <2>7, <2>8, MultiplesClosed DEF KeepsBooks
<1> QED
  BY <1>1, <1>2

\* A deposit wraps the reserve, the supply, both or neither (pdtl_deposit_genesis).
LEMMA DepositBooks ==
    ASSUME TypeOK, NEW cell \in CellArgs, NEW amount \in CallAmounts,
           DepositGenesis(cell, amount)
    PROVE  KeepsBooks
<1>1. CASE UNCHANGED <<cells, cell_count, receipts, receipt_count, totals>>
  BY <1>1, BooksUntouched
<1>2. CASE ~UNCHANGED <<cells, cell_count, receipts, receipt_count, totals>>
  <2> DEFINE ds == [cells EXCEPT ![cell].reserve = Plus(@, amount)]
             n == cell_count
  <2>1. /\ cells' = Stamp(ds, {cell}) /\ UNCHANGED <<cell_count, receipts, receipt_count>>
        /\ totals' = [totals EXCEPT !.initial_supply = Plus(@, amount)]
        /\ IsCell(cell)
    BY <1>2 DEF DepositGenesis, DepositGenesisError, Reject
  <2>2. /\ n \in Nat /\ cells \in [0..(n - 1) -> CellRecord] /\ cell \in 0..(n - 1)
        /\ cells[cell] \in CellRecord /\ amount \in Amount /\ amount \in Nat
    BY <2>1, Numbers, Slots, LedgerAssumption, AmountClosed
  <2>3. /\ ds \in [0..(n - 1) -> CellRecord]
        /\ ds[cell].reserve = (cells[cell].reserve + amount) % AmountModulus
        /\ \A j \in 0..(n - 1) : j # cell => ds[j].reserve = cells[j].reserve
    BY <2>2, AmountClosed DEF CellRecord, Plus
  <2>4. /\ totals'.initial_supply = (totals.initial_supply + amount) % AmountModulus
        /\ totals'.external_withdrawals = totals.external_withdrawals
    BY <2>1, Numbers DEF TotalsRecord, Plus
  <2> HIDE DEF ds
  <2>5. PICK m \in Multiples : Reserves(ds, n) = Reserves(cells, n) + amount + m
    <3>1. amount \in Int
      BY <2>2
    <3> HIDE DEF n
    <3> QED
      BY <2>2, <2>3, <3>1, PaymentCut
  <2>6. Reserves(cells', cell_count') = Reserves(ds, n)
    BY <2>1, <2>2, <2>3, StampedReserves
  <2>7. totals.initial_supply + amount \in Int
    BY <2>2, Numbers
  <2>8. PICK k \in Multiples :
           (totals.initial_supply + amount) % AmountModulus = totals.initial_supply + amount + k
    BY <2>7, CutOff
  <2>9. LostSum(receipts', receipt_count') = LostSum(receipts, receipt_count)
    BY <2>1
  <2>10. m \in Int /\ k \in Int /\ m - k \in Multiples
    BY MultiplesClosed
  <2> HIDE DEF n
  <2>11. /\ Reserves(cells', cell_count') = Reserves(cells, cell_count) + (amount + m)
         /\ totals'.external_withdrawals = totals.external_withdrawals + 0
         /\ LostSum(receipts', receipt_count') = LostSum(receipts, receipt_count) + 0
         /\ totals'.initial_supply = totals.initial_supply + (amount + k)
    <3>1. /\ Reserves(cells, n) \in Nat /\ LostSum(receipts, receipt_count) \in Nat
          /\ totals.external_withdrawals \in Nat /\ totals.initial_supply \in Nat
      BY Numbers DEF n
    <3>2. Reserves(ds, n) = Reserves(cells, n) + (amount + m)
      BY <2>2, <2>5, <2>10, <3>1
    <3>3. totals.initial_supply + amount + k = totals.initial_supply + (amount + k)
      BY <2>2, <2>10, <3>1
    <3>4. /\ totals.external_withdrawals = totals.external_withdrawals + 0
          /\ LostSum(receipts, receipt_count) = LostSum(receipts, receipt_count) + 0
      BY <3>1
    <3> QED
      BY <2>4, <2>6, <2>8, <2>9, <3>2, <3>3, <3>4, Zenon DEF n
  <2>12. /\ amount + m \in Int /\ 0 \in Int /\ amount + k \in Int
         /\ (amount + m) + 0 + 0 - (amount + k) \in Multiples
    <3>1. (amount + m) + 0 + 0 - (amount + k) = m - k
      BY <2>2, <2>10
    <3> QED
      BY <2>2, <2>10, <3>1
  <2> QED
    BY <2>11, <2>12, BooksKept
<1> QED
  BY <1>1, <1>2

\* A withdrawal leaves what left (pdtl_withdraw).
LEMMA WithdrawBooks ==
    ASSUME TypeOK, NEW cell \in CellArgs, NEW amount \in CallAmounts, Withdraw(cell, amount)
    PROVE  KeepsBooks
<1>1. CASE UNCHANGED <<cells, cell_count, receipts, receipt_count, totals>>
  BY <1>1, BooksUntouched
<1>2. CASE ~UNCHANGED <<cells, cell_count, receipts, receipt_count, totals>>
  <2> DEFINE ds == [cells EXCEPT ![cell].reserve = Minus(@, amount),
                                 ![cell].withdrawn = Plus(@, amount)]
             n == cell_count
  <2>1. /\ cells' = Stamp(ds, {cell}) /\ UNCHANGED <<cell_count, receipts, receipt_count>>
        /\ totals' = [totals EXCEPT !.external_withdrawals = Plus(@, amount)]
        /\ IsCell(cell)
    BY <1>2 DEF Withdraw, WithdrawError, Reject
  <2>2. /\ n \in Nat /\ cells \in [0..(n - 1) -> CellRecord] /\ cell \in 0..(n - 1)
        /\ cells[cell] \in CellRecord /\ amount \in Amount /\ amount \in Nat
        /\ cells[cell].reserve \in Nat
    BY <2>1, Numbers, Slots, LedgerAssumption, AmountClosed, ReservesBound
  <2>3. /\ ds \in [0..(n - 1) -> CellRecord]
        /\ ds[cell].reserve = Minus(cells[cell].reserve, amount)
        /\ \A j \in 0..(n - 1) : j # cell => ds[j].reserve = cells[j].reserve
    <3>1. ds \in [0..(n - 1) -> CellRecord]
      BY ZenonT(60), <2>2, AmountClosed DEF CellRecord
    <3> QED
      BY <2>2, <3>1 DEF CellRecord
  <2>4. /\ totals'.external_withdrawals = (totals.external_withdrawals + amount) % AmountModulus
        /\ totals'.initial_supply = totals.initial_supply
    BY <2>1, Numbers DEF TotalsRecord, Plus
  <2> HIDE DEF ds
  <2>5. PICK m \in Multiples : Reserves(ds, n) = Reserves(cells, n) + (0 - amount) + m
    <3>1. Minus(cells[cell].reserve, amount) = (cells[cell].reserve + (0 - amount)) % AmountModulus
      <4>1. cells[cell].reserve - amount = cells[cell].reserve + (0 - amount)
        BY <2>2
      <4> QED
        BY <4>1 DEF Minus
    <3>2. 0 - amount \in Int
      BY <2>2
    <3>3. ds[cell].reserve = (cells[cell].reserve + (0 - amount)) % AmountModulus
      BY <2>3, <3>1
    <3> HIDE DEF n
    <3> QED
      BY <2>2, <2>3, <3>2, <3>3, PaymentCut
  <2>6. Reserves(cells', cell_count') = Reserves(ds, n)
    BY <2>1, <2>2, <2>3, StampedReserves
  <2>7. totals.external_withdrawals + amount \in Int
    BY <2>2, Numbers
  <2>8. PICK k \in Multiples :
           (totals.external_withdrawals + amount) % AmountModulus
             = totals.external_withdrawals + amount + k
    BY <2>7, CutOff
  <2>9. LostSum(receipts', receipt_count') = LostSum(receipts, receipt_count)
    BY <2>1
  <2>10. m \in Int /\ k \in Int /\ m + k \in Multiples
    BY MultiplesClosed
  <2> HIDE DEF n
  <2>11. /\ Reserves(cells', cell_count') = Reserves(cells, cell_count) + (m - amount)
         /\ totals'.external_withdrawals = totals.external_withdrawals + (amount + k)
         /\ LostSum(receipts', receipt_count') = LostSum(receipts, receipt_count) + 0
         /\ totals'.initial_supply = totals.initial_supply + 0
    <3>1. /\ Reserves(cells, n) \in Nat /\ LostSum(receipts, receipt_count) \in Nat
          /\ totals.external_withdrawals \in Nat /\ totals.initial_supply \in Nat
      BY Numbers DEF n
    <3>2. Reserves(ds, n) = Reserves(cells, n) + (m - amount)
      BY <2>2, <2>5, <2>10, <3>1
    <3>3. totals.external_withdrawals + amount + k = totals.external_withdrawals + (amount + k)
      BY <2>2, <2>10, <3>1
    <3>4. /\ totals.initial_supply = totals.initial_supply + 0
          /\ LostSum(receipts, receipt_count) = LostSum(receipts, receipt_count) + 0
      BY <3>1
    <3> QED
      BY <2>4, <2>6, <2>8, <2>9, <3>2, <3>3, <3>4, Zenon DEF n
  <2>12. /\ m - amount \in Int /\ 0 \in Int /\ amount + k \in Int
         /\ (m - amount) + (amount + k) + 0 - 0 \in Multiples
    <3>1. (m - amount) + (amount + k) + 0 - 0 = m + k
      BY <2>2, <2>10
    <3> QED
      BY <2>2, <2>10, <3>1
  <2> QED
    BY <2>11, <2>12, BooksKept
<1> QED
  BY <1>1, <1>2

\* A transfer credits what it debits (pdtl_transfer_between_cells).
LEMMA TransferBooks ==
    ASSUME TypeOK, NEW from \in CellArgs, NEW to \in CellArgs, NEW amount \in CallAmounts,
           TransferBetweenCells(from, to, amount)
    PROVE  KeepsBooks
<1>1. CASE UNCHANGED <<cells, cell_count, receipts, receipt_count, totals>>
  BY <1>1, BooksUntouched
<1>2. CASE ~UNCHANGED <<cells, cell_count, receipts, receipt_count, totals>>
  <2> DEFINE paid == Debit(cells, from, amount)
             ds == Credit(paid, to, amount)
             n == cell_count
  <2>1. /\ cells' = Stamp(ds, {from, to})
        /\ UNCHANGED <<cell_count, receipts, receipt_count, totals>>
        /\ IsCell(from) /\ IsCell(to)
    BY <1>2 DEF TransferBetweenCells, TransferError, Reject
  <2>2. /\ n \in Nat /\ cells \in [0..(n - 1) -> CellRecord]
        /\ from \in 0..(n - 1) /\ to \in 0..(n - 1) /\ amount \in Amount /\ amount \in Nat
    BY <2>1, Numbers, Slots, LedgerAssumption, AmountClosed
  <2>3. Moves(cells, paid, n, 0 - amount)
    BY <2>2, DebitCut
  <2> HIDE DEF paid
  <2>4. Moves(paid, ds, n, amount)
    <3>1. paid \in [0..(n - 1) -> CellRecord]
      BY <2>3 DEF Moves
    <3> QED
      BY <2>2, <3>1, CreditCut
  <2> HIDE DEF ds
  <2>5. Moves(cells, ds, n, (0 - amount) + amount)
    <3>1. 0 - amount \in Int /\ amount \in Int
      BY <2>2
    <3> HIDE DEF n
    <3> QED
      BY <2>2, <2>3, <2>4, <3>1, MovesTwice
  <2>6. PICK m \in Multiples :
           Reserves(ds, n) = Reserves(cells, n) + ((0 - amount) + amount) + m
    BY <2>5 DEF Moves
  <2>7. Reserves(cells', cell_count') = Reserves(ds, n)
    <3>1. ds \in [0..(n - 1) -> CellRecord]
      BY <2>5 DEF Moves
    <3> QED
      BY <2>1, <2>2, <3>1, StampedReserves
  <2>8. m \in Int /\ Reserves(cells, n) \in Nat /\ (0 - amount) + amount = 0
    BY <2>2, Numbers, MultiplesClosed
  <2>9. Reserves(ds, n) = Reserves(cells, n) + m
    BY <2>6, <2>8
  <2>10. Reserves(cells', cell_count') = Reserves(cells, cell_count) + m
    BY <2>7, <2>9
  <2> QED
    BY <2>1, <2>10, ReservesKept
<1> QED
  BY <1>1, <1>2

\* A consolidation credits what it empties (pdtl_consolidate_cell).
LEMMA ConsolidateBooks ==
    ASSUME TypeOK, NEW target \in CellArgs, NEW source \in CellArgs,
           ConsolidateCell(target, source)
    PROVE  KeepsBooks
<1>1. CASE UNCHANGED <<cells, cell_count, receipts, receipt_count, totals>>
  BY <1>1, BooksUntouched
<1>2. CASE ~UNCHANGED <<cells, cell_count, receipts, receipt_count, totals>>
  <2> DEFINE moved == cells[source].reserve
             credited == Credit(cells, target, moved)
             ds == [credited EXCEPT ![source].reserve = 0, ![source].state = "closed"]
             n == cell_count
  <2>1. /\ cells' = Stamp(ds, {source, target})
        /\ UNCHANGED <<cell_count, receipts, receipt_count, totals>>
        /\ IsCell(source) /\ IsCell(target) /\ source # target
    BY <1>2 DEF ConsolidateCell, ConsolidateError, Reject
  <2>2. /\ n \in Nat /\ cells \in [0..(n - 1) -> CellRecord]
        /\ source \in 0..(n - 1) /\ target \in 0..(n - 1) /\ cells[source] \in CellRecord
    BY <2>1, Numbers, Slots
  <2>3. moved \in Amount /\ moved \in Nat
    BY <2>2, AmountClosed DEF CellRecord
  <2>4. /\ credited \in [0..(n - 1) -> CellRecord]
        /\ \E m \in Multiples : Reserves(credited, n) = Reserves(cells, n) + moved + m
    <3>1. Moves(cells, credited, n, moved)
      BY <2>2, <2>3, CreditCut
    <3> QED
      BY <3>1 DEF Moves
  <2>5. credited[source].reserve = moved
    BY <2>1, <2>2 DEF Credit
  <2> HIDE DEF credited, moved
  <2>6. /\ ds \in [0..(n - 1) -> CellRecord] /\ ds[source].reserve = 0
        /\ \A j \in 0..(n - 1) : j # source => ds[j].reserve = credited[j].reserve
    <3>1. credited[source] \in CellRecord
      BY <2>2, <2>4
    <3>2. ds \in [0..(n - 1) -> CellRecord]
      BY <2>2, <2>4, <3>1, AmountClosed DEF CellRecord
    <3> QED
      BY <2>2, <2>4, <3>1, <3>2 DEF CellRecord
  <2> HIDE DEF ds
  <2>7. PICK m \in Multiples : Reserves(credited, n) = Reserves(cells, n) + moved + m
    BY <2>4
  <2>8. Reserves(ds, n) = Reserves(credited, n) - credited[source].reserve + ds[source].reserve
    <3> HIDE DEF n
    <3>1. /\ n \in Nat /\ credited \in [0..(n - 1) -> CellRecord]
          /\ ds \in [0..(n - 1) -> CellRecord] /\ source \in 0..(n - 1)
          /\ \A j \in 0..(n - 1) : j # source => ds[j].reserve = credited[j].reserve
      BY <2>2, <2>4, <2>6
    <3> QED
      BY <3>1, ReservesUpdate
  <2>9. Reserves(cells', cell_count') = Reserves(ds, n)
    BY <2>1, <2>2, <2>6, StampedReserves
  <2>10. m \in Int
    BY MultiplesClosed
  <2>11. Reserves(cells', cell_count') = Reserves(cells, cell_count) + m
    BY <2>3, <2>5, <2>6, <2>7, <2>8, <2>9, <2>10, Numbers
  <2> QED
    BY <2>1, <2>11, ReservesKept
<1> QED
  BY <1>1, <1>2

\* A receipt only records what its gross will be (pdtl_issue_receipt).
LEMMA IssueBooks ==
    ASSUME TypeOK, [Next]_vars, NEW origin \in CellArgs, NEW beneficiary \in CellArgs,
           NEW gross \in CallAmounts, IssueReceipt(origin, beneficiary, gross)
    PROVE  KeepsBooks
<1>1. CASE UNCHANGED <<cells, cell_count, receipts, receipt_count, totals>>
  BY <1>1, BooksUntouched
<1>2. CASE ~UNCHANGED <<cells, cell_count, receipts, receipt_count, totals>>
  <2> DEFINE ds == Reserve(cells, origin, gross)
             n == cell_count
             m == receipt_count
             receipt == NewReceipt(origin, beneficiary, gross)
  <2>1. /\ cells' = Stamp(ds, {origin}) /\ UNCHANGED <<cell_count, totals>>
        /\ receipt_count' = m + 1
        /\ receipts' = [r \in 0..m |-> IF r = m THEN receipt ELSE receipts[r]]
        /\ IsCell(origin)
    BY <1>2 DEF IssueReceipt, IssueError, Reject
  <2>2. /\ origin \in 0..(n - 1) /\ gross \in Amount
        /\ n \in Nat /\ cells \in [0..(n - 1) -> CellRecord]
        /\ m \in Nat /\ receipts \in [0..(m - 1) -> ReceiptRecord]
    BY <2>1, Slots, LedgerAssumption, Numbers
  <2>3. /\ ds \in [0..(n - 1) -> CellRecord]
        /\ \A j \in 0..(n - 1) : ds[j].reserve = cells[j].reserve
    <3>1. ds \in [0..(n - 1) -> CellRecord]
      BY <2>2, CellMutations
    <3>2. cells[origin] \in CellRecord
      BY <2>2
    <3> QED
      BY <2>2, <3>1, <3>2 DEF Reserve, CellRecord
  <2>4. receipt.status = "pending"
    BY Zenon DEF NewReceipt
  <2> HIDE DEF ds, receipt
  <2>5. Reserves(ds, n) = Reserves(cells, n)
    BY <2>2, <2>3, ReservesSame
  <2>6. Reserves(cells', cell_count') = Reserves(cells, cell_count)
    <3>1. Reserves(cells', n) = Reserves(ds, n)
      BY <2>1, <2>2, <2>3, StampedReserves
    <3> QED
      BY <2>1, <2>5, <3>1
  <2>7. receipts' \in [0..m -> ReceiptRecord]
    <3>1. receipts' \in [0..(receipt_count' - 1) -> ReceiptRecord]
      BY NextType DEF TypeOK, ReceiptsTyped
    <3>2. receipt_count' - 1 = m
      BY <2>1, <2>2
    <3> QED
      BY <3>1, <3>2
  <2>8. receipts'[m] = receipt /\ \A r \in 0..(m - 1) : receipts'[r] = receipts[r]
    BY <2>1, <2>2
  <2> HIDE DEF n, m
  <2>9. LostSum(receipts', m + 1) = LostSum(receipts, m) + LostTerm(receipts'[m])
    BY <2>2, <2>7, <2>8, ReceiptSumsAppend
  <2>10. LostTerm(receipts'[m]) = 0
    BY <2>4, <2>8 DEF LostTerm
  <2>11. LostSum(receipts', receipt_count') = LostSum(receipts, receipt_count)
    <3>1. LostSum(receipts, m) \in Nat
      BY Numbers DEF m
    <3>2. LostSum(receipts', m + 1) = LostSum(receipts, m)
      BY <2>9, <2>10, <3>1
    <3> QED
      BY <2>1, <3>2, Zenon DEF m
  <2>12. Imbalance' = Imbalance /\ Imbalance = Imbalance + 0
    <3>1. Imbalance' = Imbalance
      BY <2>1, <2>6, <2>11, Zenon DEF Imbalance
    <3> QED
      BY <3>1, Numbers
  <2> QED
    BY <2>12, MultiplesClosed DEF KeepsBooks
<1> QED
  BY <1>1, <1>2

\* Releasing a commitment touches no reserve, even one that wraps.
LEMMA ReleasedReserves ==
    ASSUME NEW n \in Nat, NEW cs \in [0..(n - 1) -> CellRecord], NEW i \in 0..(n - 1),
           NEW amount \in Amount
    PROVE  /\ Release(cs, i, amount) \in [0..(n - 1) -> CellRecord]
           /\ Reserves(Release(cs, i, amount), n) = Reserves(cs, n)
<1> DEFINE ds == Release(cs, i, amount)
<1>1. ds \in [0..(n - 1) -> CellRecord]
  BY CellMutations
<1>2. cs[i] \in CellRecord
  OBVIOUS
<1>3. \A j \in 0..(n - 1) : ds[j].reserve = cs[j].reserve
  BY <1>2 DEF Release, CellRecord
<1> HIDE DEF ds
<1>4. Reserves(ds, n) = Reserves(cs, n)
  BY <1>1, <1>3, ReservesSame
<1> QED
  BY <1>1, <1>4 DEF ds

\* A cancellation moves nothing (pdtl_cancel_receipt).
LEMMA CancelBooks ==
    ASSUME TypeOK, [Next]_vars, NEW r \in ReceiptArgs, CancelReceipt(r)
    PROVE  KeepsBooks
<1>1. CASE UNCHANGED <<cells, cell_count, receipts, receipt_count, totals>>
  BY <1>1, BooksUntouched
<1>2. CASE ~UNCHANGED <<cells, cell_count, receipts, receipt_count, totals>>
  <2> DEFINE origin == receipts[r].origin_cell
             gross == receipts[r].gross
             ds == Release(cells, origin, gross)
             n == cell_count
  <2>1. /\ cells' = Stamp(ds, {origin}) /\ UNCHANGED <<cell_count, receipt_count, totals>>
        /\ receipts' = [receipts EXCEPT ![r].paid_by_cell = NoIndex, ![r].status = "cancelled"]
        /\ IsReceipt(r) /\ receipts[r].status = "pending" /\ IsCell(origin)
    BY <1>2 DEF CancelReceipt, CancelError, Reject
  <2>2. r \in 0..(receipt_count - 1) /\ receipts[r] \in ReceiptRecord
    BY <2>1, Slots
  <2>3. n \in Nat /\ cells \in [0..(n - 1) -> CellRecord]
    BY Numbers
  <2>4. origin \in 0..(n - 1) /\ gross \in Amount
    BY <2>1, <2>2, <2>3, Slots DEF ReceiptRecord, CellArgs
  <2> HIDE DEF origin, gross
  <2>5. ds \in [0..(n - 1) -> CellRecord] /\ Reserves(ds, n) = Reserves(cells, n)
    BY <2>3, <2>4, ReleasedReserves
  <2> HIDE DEF ds
  <2>6. Reserves(cells', cell_count') = Reserves(cells, cell_count)
    <3>1. Reserves(cells', n) = Reserves(ds, n)
      BY <2>1, <2>3, <2>5, StampedReserves
    <3> QED
      BY <2>1, <2>5, <3>1
  <2>7. LostSum(receipts', receipt_count') = LostSum(receipts, receipt_count) + 0
    <3>1. /\ LostSum(receipts', receipt_count')
               = LostSum(receipts, receipt_count) + LostTerm(receipts'[r])
          /\ LostTerm(receipts'[r]) = 0
      BY <2>1, <2>2, ResolvedReceiptSums
    <3> QED
      BY <3>1
  <2>8. LostSum(receipts', receipt_count') = LostSum(receipts, receipt_count)
    BY <2>7, Numbers
  <2>9. Imbalance' = Imbalance /\ Imbalance = Imbalance + 0
    <3>1. Imbalance' = Imbalance
      BY <2>1, <2>6, <2>8, Zenon DEF Imbalance
    <3> QED
      BY <3>1, Numbers
  <2> QED
    BY <2>9, MultiplesClosed DEF KeepsBooks
<1> QED
  BY <1>1, <1>2

\* The fee, if a cell gets it, may wrap the reserve of that cell.
LEMMA FeeCut ==
    ASSUME NEW n \in Nat, NEW cs \in [0..(n - 1) -> CellRecord], NEW fee_cell,
           NEW fee \in Amount, fee_cell # NoIndex => fee_cell \in 0..(n - 1)
    PROVE  Moves(cs, FeePaid(cs, fee_cell, fee), n, fee - Uncredited(fee_cell, fee))
<1>1. fee \in Nat /\ Reserves(cs, n) \in Nat /\ 0 \in Multiples /\ Multiples \subseteq Int
  BY AmountClosed, ReservesBound, MultiplesClosed
<1>2. CASE fee_cell # NoIndex /\ fee > 0
  <2>1. FeePaid(cs, fee_cell, fee) = Credit(cs, fee_cell, fee)
    BY <1>2 DEF FeePaid
  <2>2. fee - Uncredited(fee_cell, fee) = fee
    BY <1>1, <1>2 DEF Uncredited
  <2> QED
    BY <1>2, <2>1, <2>2, CreditCut
<1>3. CASE ~(fee_cell # NoIndex /\ fee > 0)
  <2>1. FeePaid(cs, fee_cell, fee) = cs /\ (fee_cell = NoIndex \/ fee = 0)
    BY <1>1, <1>3 DEF FeePaid
  <2>2. fee - Uncredited(fee_cell, fee) = 0
    BY <1>1, <2>1 DEF Uncredited
  <2>3. Reserves(cs, n) = Reserves(cs, n) + 0 + 0
    BY <1>1
  <2> QED
    BY <1>1, <2>1, <2>2, <2>3 DEF Moves
<1> QED
  BY <1>2, <1>3

\* The payments of a settlement lose the fee that no cell gets, up to a multiple.
LEMMA SettlementCut ==
    ASSUME NEW n \in Nat, NEW cs \in [0..(n - 1) -> CellRecord],
           NEW payer \in 0..(n - 1), NEW to \in 0..(n - 1), NEW fee_cell,
           NEW gross \in Amount, NEW net \in Amount, NEW fee \in Amount,
           fee + net = gross, fee_cell # NoIndex => fee_cell \in 0..(n - 1)
    PROVE  Moves(cs, SettlementPaid(cs, payer, to, fee_cell, gross, net, fee), n,
                 0 - Uncredited(fee_cell, fee))
<1> DEFINE paid == Debit(cs, payer, gross)
           credited == Credit(paid, to, net)
           ps == FeePaid(credited, fee_cell, fee)
           lost == Uncredited(fee_cell, fee)
<1>1. Moves(cs, paid, n, 0 - gross) /\ paid \in [0..(n - 1) -> CellRecord]
  <2>1. Moves(cs, paid, n, 0 - gross)
    BY DebitCut
  <2> QED
    BY <2>1 DEF Moves
<1> HIDE DEF paid
<1>2. Moves(paid, credited, n, net) /\ credited \in [0..(n - 1) -> CellRecord]
  <2>1. Moves(paid, credited, n, net)
    BY <1>1, CreditCut
  <2> QED
    BY <2>1 DEF Moves
<1> HIDE DEF credited
<1>3. Moves(credited, ps, n, fee - lost)
  BY <1>2, FeeCut
<1>4. SettlementPaid(cs, payer, to, fee_cell, gross, net, fee) = ps
  BY DEF SettlementPaid, credited, paid
<1>5. gross \in Nat /\ net \in Nat /\ fee \in Nat /\ lost \in Nat
  BY AmountClosed DEF Uncredited
<1> HIDE DEF ps, lost
<1>6. /\ 0 - gross \in Int /\ net \in Int /\ (0 - gross) + net \in Int /\ fee - lost \in Int
      /\ ((0 - gross) + net) + (fee - lost) = 0 - lost
  BY <1>5
<1>7. Moves(cs, credited, n, (0 - gross) + net)
  BY <1>1, <1>2, <1>6, MovesTwice
<1>8. Moves(cs, ps, n, ((0 - gross) + net) + (fee - lost))
  BY <1>3, <1>6, <1>7, MovesTwice
<1> QED
  BY <1>4, <1>6, <1>8 DEF lost

\* What a settlement guarantees when amounts may wrap.
LEMMA SettlementTerms ==
    ASSUME ReferenceInv, NEW r \in ReceiptArgs, NEW payer \in CellArgs,
           SettleError(r, payer) = "PDTL_OK"
    PROVE  /\ receipts[r].status = "pending"
           /\ receipts[r].fee + receipts[r].net = receipts[r].gross
           /\ receipts[r].route_digest.fee_cell = routes[receipts[r].route].fee_cell
<1>1. TypeOK /\ ReceiptsRefer /\ PendingTermsCurrent
  BY DEF ReferenceInv, ReferencesOK
<1>2. r \in DOMAIN receipts
  BY <1>1, SettlementShape
<1>3. receipts[r].status = "pending"
  BY DEF SettleError, ShapeError, ApplyError
<1> QED
  BY <1>1, <1>2, <1>3 DEF ReceiptsRefer, PendingTermsCurrent

\* A settlement loses the fee that no cell gets (pdtl_settle_receipt).
LEMMA SettleBooks ==
    ASSUME ReferenceInv, [Next]_vars, NEW r \in ReceiptArgs, NEW payer \in CellArgs,
           SettleReceipt(r, payer)
    PROVE  KeepsBooks
<1> TypeOK
  BY DEF ReferenceInv
<1>1. CASE UNCHANGED <<cells, cell_count, receipts, receipt_count, totals>>
  BY <1>1, BooksUntouched
<1>2. CASE ~UNCHANGED <<cells, cell_count, receipts, receipt_count, totals>>
  <2> DEFINE origin == receipts[r].origin_cell
             to == receipts[r].beneficiary_cell
             gross == receipts[r].gross
             net == receipts[r].net
             fee == receipts[r].fee
             fee_cell == routes[receipts[r].route].fee_cell
             touched == {payer, to, origin, fee_cell}
             ps == SettlementPaid(cells, payer, to, fee_cell, gross, net, fee)
             ds == Release(ps, origin, gross)
             n == cell_count
             lost == Uncredited(fee_cell, fee)
  <2>1. /\ SettleError(r, payer) = "PDTL_OK"
        /\ cells' = SettledCells(receipts[r], payer, fee_cell)
        /\ UNCHANGED <<cell_count, receipt_count, totals>>
        /\ receipts' = [receipts EXCEPT ![r].paid_by_cell = payer, ![r].status = "settled"]
    BY <1>2 DEF SettleReceipt, Reject
  <2>2. cells' = Stamp(ds, touched)
    BY <2>1 DEF SettledCells, SettlementPaid, FeePaid
  <2>3. /\ n \in Nat /\ DOMAIN cells = 0..(n - 1) /\ cells \in [0..(n - 1) -> CellRecord]
        /\ DOMAIN receipts = 0..(receipt_count - 1)
    BY Numbers
  <2>4. /\ r \in 0..(receipt_count - 1) /\ receipts[r] \in ReceiptRecord
        /\ payer \in 0..(n - 1) /\ origin \in 0..(n - 1) /\ to \in 0..(n - 1)
        /\ fee_cell # NoIndex => fee_cell \in 0..(n - 1)
    BY <2>1, <2>3, SettlementShape
  <2>5. /\ gross \in Amount /\ net \in Amount /\ fee \in Amount /\ fee \in Nat
    BY <2>4, AmountClosed DEF ReceiptRecord
  <2>6. /\ receipts[r].status = "pending" /\ fee + net = gross
        /\ receipts[r].route_digest.fee_cell = fee_cell
    BY <2>1, SettlementTerms
  <2>7. /\ LostSum(receipts', receipt_count')
             = LostSum(receipts, receipt_count) + LostTerm(receipts'[r])
        /\ LostTerm(receipts'[r]) =
             IF "settled" = "settled" /\ receipts[r].route_digest.fee_cell = NoIndex
             THEN receipts[r].fee ELSE 0
    BY <2>1, <2>4, <2>6, ResolvedReceiptSums
  <2>8. LostTerm(receipts'[r]) = lost
    BY <2>6, <2>7 DEF Uncredited
  <2> HIDE DEF origin, to, gross, net, fee, fee_cell, touched, n, lost
  <2>9. /\ ps \in [0..(n - 1) -> CellRecord]
        /\ \E m \in Multiples : Reserves(ps, n) = Reserves(cells, n) + (0 - lost) + m
    <3>1. /\ n \in Nat /\ cells \in [0..(n - 1) -> CellRecord]
          /\ payer \in 0..(n - 1) /\ to \in 0..(n - 1)
          /\ gross \in Amount /\ net \in Amount /\ fee \in Amount
          /\ fee + net = gross
          /\ fee_cell # NoIndex => fee_cell \in 0..(n - 1)
      BY <2>3, <2>4, <2>5, <2>6
    <3>2. Moves(cells, SettlementPaid(cells, payer, to, fee_cell, gross, net, fee), n,
                0 - Uncredited(fee_cell, fee))
      BY <3>1, SettlementCut
    <3> QED
      BY <3>2 DEF Moves, lost
  <2> HIDE DEF ps
  <2>10. ds \in [0..(n - 1) -> CellRecord] /\ Reserves(ds, n) = Reserves(ps, n)
    BY <2>3, <2>4, <2>5, <2>9, ReleasedReserves
  <2> HIDE DEF ds
  <2>11. PICK m \in Multiples : Reserves(ps, n) = Reserves(cells, n) + (0 - lost) + m
    BY <2>9
  <2>12. Reserves(cells', n) = Reserves(ds, n)
    BY <2>2, <2>3, <2>10, StampedReserves
  <2>13. /\ lost \in Nat /\ m \in Int /\ Reserves(cells, n) \in Nat
         /\ totals.external_withdrawals \in Nat /\ totals.initial_supply \in Nat
    BY <2>5, Numbers, MultiplesClosed DEF lost, n, Uncredited
  <2>14. /\ Reserves(cells', cell_count') = Reserves(cells, cell_count) + (m - lost)
         /\ totals'.external_withdrawals = totals.external_withdrawals + 0
         /\ LostSum(receipts', receipt_count') = LostSum(receipts, receipt_count) + lost
         /\ totals'.initial_supply = totals.initial_supply + 0
    <3>1. Reserves(cells, n) + (0 - lost) + m = Reserves(cells, n) + (m - lost)
      BY <2>13
    <3>2. /\ totals.external_withdrawals = totals.external_withdrawals + 0
          /\ totals.initial_supply = totals.initial_supply + 0
      BY <2>13
    <3>3. cell_count' = n /\ totals' = totals
      BY <2>1 DEF n
    <3> QED
      BY <2>7, <2>8, <2>10, <2>11, <2>12, <3>1, <3>2, <3>3, Zenon DEF n
  <2>15. /\ m - lost \in Int /\ 0 \in Int /\ lost \in Int
         /\ (m - lost) + 0 + lost - 0 = m
    BY <2>13
  <2> QED
    BY <2>14, <2>15, BooksKept
<1> QED
  BY <1>1, <1>2

\* Every call keeps the books, up to a multiple.
LEMMA NextBooks ==
    ASSUME ReferenceInv, [Next]_vars
    PROVE  KeepsBooks
<1> TypeOK
  BY DEF ReferenceInv
<1>1. CASE Setup
  <2>1. CASE \E n \in PolicyNames \cup {NoName}, f \in Flags, m \in MinReserves,
                b \in BpsValues : AddPolicy(n, f, m, b)
    <3>1. UNCHANGED <<cells, cell_count, receipts, receipt_count, totals>>
      BY <2>1 DEF AddPolicy, Reject
    <3> QED
      BY <3>1, BooksUntouched
  <2>2. CASE \E n \in RouteNames \cup {NoName}, a \in AssetNames, p \in PolicyNames,
                b \in BpsValues, c \in CellArgs : AddRoute(n, a, p, b, c)
    <3>1. UNCHANGED <<cells, cell_count, receipts, receipt_count, totals>>
      BY <2>2 DEF AddRoute, Reject
    <3> QED
      BY <3>1, BooksUntouched
  <2>3. CASE \E o \in OwnerNames \cup {NoName}, a \in AssetNames, n \in RouteNames,
                p \in PolicyNames : CreateCell(o, a, n, p)
    BY <2>3, CreateCellBooks
  <2> QED
    BY <1>1, <2>1, <2>2, <2>3 DEF Setup
<1>2. CASE Movement
  BY <1>2, DepositBooks, TransferBooks, ConsolidateBooks, WithdrawBooks DEF Movement
<1>3. CASE ReceiptLife
  BY <1>3, IssueBooks, SettleBooks, CancelBooks DEF ReceiptLife
<1>4. CASE RouteControl
  <2>1. UNCHANGED <<cells, cell_count, receipts, receipt_count, totals>>
    BY <1>4 DEF RouteControl, UpdateRouteFee, CloseRoute, Reject, vars
  <2> QED
    BY <2>1, BooksUntouched
<1>5. CASE ClearError \/ UNCHANGED vars
  <2>1. UNCHANGED <<cells, cell_count, receipts, receipt_count, totals>>
    BY <1>5 DEF ClearError, vars
  <2> QED
    BY <2>1, BooksUntouched
<1> QED
  BY <1>1, <1>2, <1>3, <1>4, <1>5 DEF Next

(***************************************************************************)
(* The inductive invariant: references are sound, and the books are off by *)
(* a multiple of the modulus at most.                                      *)
(***************************************************************************)
WrappedBooks == ReferenceInv /\ Imbalance \in Multiples

\* An empty ledger has empty books.
LEMMA InitBooks == Init => WrappedBooks
<1> SUFFICES ASSUME Init PROVE WrappedBooks
  OBVIOUS
<1>1. SolvencyInv
  BY InitSolvent
<1>2. ReferenceInv /\ SupplyAccountedFor
  BY <1>1 DEF SolvencyInv, Solvent
<1>3. Reserves(cells, cell_count) + totals.external_withdrawals
        + LostSum(receipts, receipt_count) = totals.initial_supply
  BY <1>2, SumsOfLedger DEF SupplyAccountedFor
<1>4. totals.initial_supply \in Nat
  BY <1>2, Numbers DEF ReferenceInv
<1>5. Imbalance = 0
  <2>1. totals.initial_supply - totals.initial_supply = 0
    BY <1>4
  <2>2. /\ Reserves(cells, cell_count) \in Nat /\ totals.external_withdrawals \in Nat
        /\ LostSum(receipts, receipt_count) \in Nat
    BY <1>2, Numbers DEF ReferenceInv
  <2>3. Imbalance = totals.initial_supply - totals.initial_supply
    BY <1>3, <1>4, <2>2 DEF Imbalance
  <2> QED
    BY <2>1, <2>3
<1> QED
  BY <1>2, <1>5, MultiplesClosed DEF WrappedBooks

\* What the reconciliation check computes is the supply.
LEMMA WrappedBooksReconcile ==
    ASSUME WrappedBooks
    PROVE  ReconcilesUpToFees
<1> DEFINE held == Reserves(cells, cell_count)
           left == totals.external_withdrawals
           lost == LostSum(receipts, receipt_count)
           supply == totals.initial_supply
<1>1. /\ held \in Nat /\ left \in Nat /\ lost \in Nat /\ supply \in Nat /\ supply \in Amount
  BY Numbers DEF WrappedBooks, ReferenceInv
<1>2. PICK m \in Multiples : held + left + lost - supply = m
  BY DEF WrappedBooks, Imbalance
<1> HIDE DEF held, left, lost, supply
<1> DEFINE x == ((held % AmountModulus) + left) % AmountModulus
           y == lost % AmountModulus
<1>3. PICK a \in Multiples : (held % AmountModulus) = held + a
  BY <1>1, CutOff
<1>4. held % AmountModulus \in Nat /\ a \in Int /\ x \in Nat /\ y \in Nat
  <2>1. \A z \in Int : z % AmountModulus \in Nat
    BY CutOff, AmountClosed
  <2>2. held % AmountModulus \in Nat /\ lost % AmountModulus \in Nat
    BY <1>1, <2>1
  <2>3. (held % AmountModulus) + left \in Int
    BY <1>1, <2>2
  <2> QED
    BY <2>1, <2>2, <2>3, MultiplesClosed
<1>5. PICK b \in Multiples :
         ((held % AmountModulus) + left) % AmountModulus = (held % AmountModulus) + left + b
  BY <1>1, <1>4, CutOff
<1>6. PICK c \in Multiples : lost % AmountModulus = lost + c
  BY <1>1, CutOff
<1>7. b \in Int /\ c \in Int /\ m \in Int
  BY MultiplesClosed
<1>8. x = held + a + left + b /\ y = lost + c
  BY <1>3, <1>5, <1>6
<1> HIDE DEF x, y
<1>9. x + y \in Int
  BY <1>4
<1>10. PICK d \in Multiples : (x + y) % AmountModulus = x + y + d
  BY <1>9, CutOff
<1>11. (x + y) % AmountModulus \in Amount
  BY <1>9, CutOff
<1>12. d \in Int /\ (((a + b) + c) + d) + m \in Multiples
  BY MultiplesClosed
<1>13. (x + y) % AmountModulus = supply + ((((a + b) + c) + d) + m)
  BY <1>1, <1>2, <1>4, <1>7, <1>8, <1>10, <1>12
<1>14. (x + y) % AmountModulus = supply
  BY <1>1, <1>11, <1>12, <1>13, AmountsEqual
<1>15. Plus(Plus(TotalCellReserves, left), UncreditedFees % AmountModulus)
         = (x + y) % AmountModulus
  BY SumsOfLedger DEF Plus, TotalCellReserves, x, y, held, left, lost
<1> QED
  BY <1>14, <1>15 DEF ReconcilesUpToFees, supply, left

(***************************************************************************)
(* The law of pdtl_global_reconciliation_ok, with the fees that no cell    *)
(* got, holds in every state, however often sums and totals wrap.          *)
(***************************************************************************)
THEOREM ReconciliationUpToFees == Spec => []ReconcilesUpToFees
<1>1. WrappedBooks /\ [Next]_vars => WrappedBooks'
  <2> SUFFICES ASSUME WrappedBooks, [Next]_vars PROVE WrappedBooks'
    OBVIOUS
  <2>1. ReferenceInv'
    BY NextReferences DEF WrappedBooks
  <2>2. PICK m \in Multiples : Imbalance' = Imbalance + m
    BY NextBooks DEF WrappedBooks, KeepsBooks
  <2>3. Imbalance' \in Multiples
    BY <2>2, MultiplesClosed DEF WrappedBooks
  <2>4. Multiples' = Multiples
    BY DEF Multiples
  <2> QED
    BY <2>1, <2>3, <2>4 DEF WrappedBooks
<1>2. WrappedBooks => ReconcilesUpToFees
  BY WrappedBooksReconcile
<1> QED
  BY <1>1, <1>2, InitBooks, PTL DEF Spec

=============================================================================
