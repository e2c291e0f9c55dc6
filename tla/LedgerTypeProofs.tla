-------------------------- MODULE LedgerTypeProofs --------------------------
(***************************************************************************)
(* Type correctness of the ledger, for every value of the constants: no    *)
(* call leaves a field outside the type of its C declaration, an array     *)
(* longer than its capacity, or an index that no array has.                *)
(***************************************************************************)
EXTENDS LedgerProperties, SequenceTheorems, FiniteSetTheorems, TLAPS

-----------------------------------------------------------------------------
(* Amounts.                                                                *)

\* Sums and differences of amounts are amounts.
LEMMA AmountClosed ==
    /\ Amount \subseteq Nat /\ 0 \in Amount
    /\ \A a, b \in Amount : Plus(a, b) \in Amount /\ Minus(a, b) \in Amount
BY AmountAssumption DEF Amount, Plus, Minus

\* What divides into a whole number of parts that is at most so much a part.
LEMMA Quotient ==
    ASSUME NEW a \in Nat, NEW b \in Nat, NEW d \in Nat \ {0}, a <= b * d
    PROVE  a \div d \in 0..b
<1>1. a \div d \in Nat /\ (a \div d) * d <= a
  OBVIOUS
<1>2. a \div d <= b
  <2> SUFFICES ASSUME a \div d > b PROVE FALSE
    BY <1>1
  <2>1. (a \div d) * d > b * d
    BY <1>1
  <2> QED
    BY <1>1, <2>1
<1> QED
  BY <1>1, <1>2

\* A rate of at most the whole takes at most the whole (pdtl_issue_receipt).
LEMMA FeeWithinGross ==
    ASSUME NEW gross \in Amount, NEW bps \in 0..BpsScale
    PROVE  FeeOf(gross, bps) \in 0..gross /\ NetOf(gross, FeeOf(gross, bps)) \in Amount
<1> DEFINE cut == (gross * bps) % AmountModulus
<1>1. gross \in Nat /\ bps \in Nat /\ gross * bps \in Nat /\ gross * bps <= gross * BpsScale
  BY AmountAssumption DEF Amount
<1>2. cut \in Nat /\ cut <= gross * bps
  BY <1>1, AmountAssumption
<1> HIDE DEF cut
<1>3. cut \div BpsScale \in 0..gross
  BY <1>1, <1>2, AmountAssumption, Quotient
<1>4. FeeOf(gross, bps) \in 0..gross
  BY <1>3 DEF FeeOf, cut
<1>5. FeeOf(gross, bps) \in Amount
  BY <1>1, <1>4, AmountAssumption DEF Amount
<1> QED
  BY <1>4, <1>5, AmountClosed DEF NetOf

-----------------------------------------------------------------------------
(* The helpers the calls are made of.                                      *)

\* Every mutation of one cell leaves an array of well-formed cells.
LEMMA CellMutations ==
    ASSUME NEW D, NEW cs \in [D -> CellRecord], NEW i \in D, NEW amount \in Amount
    PROVE  /\ Debit(cs, i, amount) \in [D -> CellRecord]
           /\ Credit(cs, i, amount) \in [D -> CellRecord]
           /\ Reserve(cs, i, amount) \in [D -> CellRecord]
           /\ Release(cs, i, amount) \in [D -> CellRecord]
<1>1. cs[i] \in CellRecord
  OBVIOUS
<1>2. Debit(cs, i, amount) \in [D -> CellRecord]
  BY <1>1, AmountClosed DEF Debit, CellRecord
<1>3. Credit(cs, i, amount) \in [D -> CellRecord]
  BY <1>1, AmountClosed DEF Credit, CellRecord
<1>4. Reserve(cs, i, amount) \in [D -> CellRecord]
  BY <1>1, AmountClosed DEF Reserve, CellRecord
<1>5. Release(cs, i, amount) \in [D -> CellRecord]
  BY <1>1, AmountClosed DEF Release, CellRecord
<1> QED
  BY <1>2, <1>3, <1>4, <1>5

\* So does stamping any set of cells with the next sequence number.
LEMMA StampType ==
    ASSUME NEW D, NEW cs \in [D -> CellRecord], NEW touched, journal \in Seq(EntryRecord)
    PROVE  Stamp(cs, touched) \in [D -> CellRecord]
<1>1. NextSequence \in Nat
  BY DEF NextSequence
<1>2. \A i \in D : [cs[i] EXCEPT !.sequence = NextSequence] \in CellRecord
  BY <1>1 DEF CellRecord
<1> QED
  BY <1>2 DEF Stamp

\* Appending entries keeps the journal within its capacity.
LEMMA AppendType ==
    ASSUME NEW entries \in Seq(EntryRecord), TypeOK, AppendJournal(entries)
    PROVE  JournalTyped' /\ last_error' \in ErrorCodes
<1> DEFINE room == MaxJournal - Len(journal)
           taken == IF Len(entries) <= room THEN Len(entries) ELSE room
<1>1. journal \in Seq(EntryRecord) /\ Len(journal) <= MaxJournal /\ Len(journal) \in Nat
  BY DEF TypeOK, JournalTyped
<1>2. taken \in 0..Len(entries) /\ Len(journal) + taken <= MaxJournal
  BY <1>1, LedgerAssumption
<1>3. SubSeq(entries, 1, taken) \in Seq(EntryRecord) /\ Len(SubSeq(entries, 1, taken)) = taken
  BY <1>2, SubSeqProperties
<1>4. journal' = journal \o SubSeq(entries, 1, taken)
  BY DEF AppendJournal
<1>5. journal' \in Seq(EntryRecord) /\ Len(journal') = Len(journal) + taken
  BY <1>1, <1>3, <1>4, ConcatProperties
<1>6. last_error' \in ErrorCodes
  BY DEF AppendJournal, TypeOK, ErrorCodes
<1> QED
  BY <1>2, <1>5, <1>6 DEF JournalTyped

\* What a call leaves alone keeps its type.
LEMMA FrameTypes ==
    /\ PoliciesTyped /\ UNCHANGED policies => PoliciesTyped'
    /\ RoutesTyped /\ UNCHANGED routes => RoutesTyped'
    /\ CellsTyped /\ UNCHANGED <<cells, cell_count>> => CellsTyped'
    /\ ReceiptsTyped /\ UNCHANGED <<receipts, receipt_count>> => ReceiptsTyped'
    /\ JournalTyped /\ UNCHANGED journal => JournalTyped'
BY DEF PoliciesTyped, RoutesTyped, CellsTyped, ReceiptsTyped, JournalTyped

\* A rejected call changes the last error only.
LEMMA RejectType ==
    ASSUME NEW error \in ErrorCodes, TypeOK, Reject(error)
    PROVE  TypeOK'
BY FrameTypes DEF TypeOK, Reject

\* A slot that is free can be taken: one name more stays within the capacity.
LEMMA OneNameMore ==
    ASSUME NEW S, NEW name, NEW max \in Nat, IsFiniteSet(S), ~(Cardinality(S) >= max)
    PROVE  IsFiniteSet(S \cup {name}) /\ Cardinality(S \cup {name}) <= max
<1>1. Cardinality(S) \in Nat
  BY FS_CardinalityType
<1>2. /\ IsFiniteSet(S \cup {name})
      /\ Cardinality(S \cup {name}) = IF name \in S THEN Cardinality(S) ELSE Cardinality(S) + 1
  BY FS_AddElement
<1> QED
  BY <1>1, <1>2

-----------------------------------------------------------------------------
(* One lemma per call.                                                     *)

\* Adding a policy keeps the types (pdtl_add_policy).
LEMMA AddPolicyType ==
    ASSUME TypeOK, NEW name \in PolicyNames \cup {NoName}, NEW flags \in Flags,
           NEW min_reserve \in MinReserves, NEW bps \in BpsValues,
           AddPolicy(name, flags, min_reserve, bps)
    PROVE  TypeOK'
<1> DEFINE error == AddPolicyError(name, bps)
<1>1. error \in ErrorCodes
  BY DEF AddPolicyError, ErrorCodes
<1>2. CASE Reject(error)
  BY <1>1, <1>2, RejectType
<1>3. CASE error = "PDTL_OK" /\ ~Reject(error)
  <2>1. name \in PolicyNames /\ bps \in 0..BpsScale
    BY <1>3, LedgerAssumption, AmountAssumption DEF AddPolicyError
  <2>2. PoliciesTyped'
    <3> DEFINE names == DOMAIN policies
               policy == [flags |-> flags, min_reserve |-> min_reserve, max_exit_bps |-> bps]
    <3>1. policies' = [n \in names \cup {name} |-> IF n = name THEN policy ELSE policies[n]]
      BY <1>3 DEF AddPolicy
    <3>2. policy \in PolicyRecord
      BY <2>1 DEF PolicyRecord
    <3>3. IsFiniteSet(names) /\ ~(Cardinality(names) >= MaxPolicies)
      BY <1>3 DEF AddPolicyError, TypeOK, PoliciesTyped
    <3>4. IsFiniteSet(names \cup {name}) /\ Cardinality(names \cup {name}) <= MaxPolicies
      BY <3>3, OneNameMore, LedgerAssumption
    <3>5. names \subseteq PolicyNames /\ \A n \in names : policies[n] \in PolicyRecord
      BY DEF TypeOK, PoliciesTyped
    <3> HIDE DEF names, policy
    <3>6. /\ DOMAIN policies' = names \cup {name}
          /\ policies' \in [names \cup {name} -> PolicyRecord]
      BY <3>1, <3>2, <3>5
    <3> QED
      BY <2>1, <3>4, <3>5, <3>6 DEF PoliciesTyped
  <2>3. UNCHANGED <<routes, cells, cell_count, receipts, receipt_count, journal, totals,
                    last_error>>
    BY <1>3 DEF AddPolicy
  <2> QED
    BY <2>2, <2>3, FrameTypes DEF TypeOK
<1> QED
  BY <1>2, <1>3 DEF AddPolicy

\* Adding a route keeps the types (pdtl_add_route).
LEMMA AddRouteType ==
    ASSUME TypeOK, NEW name \in RouteNames \cup {NoName}, NEW asset \in AssetNames,
           NEW policy \in PolicyNames, NEW bps \in BpsValues, NEW cell \in CellArgs,
           AddRoute(name, asset, policy, bps, cell)
    PROVE  TypeOK'
<1> DEFINE error == AddRouteError(name, asset, policy, bps, cell)
<1>1. error \in ErrorCodes
  BY DEF AddRouteError, ErrorCodes
<1>2. CASE Reject(error)
  BY <1>1, <1>2, RejectType
<1>3. CASE error = "PDTL_OK" /\ ~Reject(error)
  <2>1. name \in RouteNames /\ bps \in 0..BpsScale
    BY <1>3, LedgerAssumption, AmountAssumption DEF AddRouteError
  <2>2. RoutesTyped'
    <3> DEFINE route == [asset |-> asset, policy |-> policy, fee_bps |-> bps,
                         fee_cell |-> cell, closed |-> FALSE]
    <3>1. route \in RouteRecord
      BY <2>1, Zenon DEF RouteRecord, CellArgs
    <3>2. routes' = [n \in DOMAIN routes \cup {name} |->
                       IF n = name THEN route ELSE routes[n]]
      BY <1>3 DEF AddRoute
    <3>3. IsFiniteSet(DOMAIN routes) /\ ~(Cardinality(DOMAIN routes) >= MaxRoutes)
      BY <1>3 DEF AddRouteError, TypeOK, RoutesTyped
    <3>4. /\ IsFiniteSet(DOMAIN routes \cup {name})
          /\ Cardinality(DOMAIN routes \cup {name}) <= MaxRoutes
      BY <3>3, OneNameMore, LedgerAssumption
    <3>5. DOMAIN routes \subseteq RouteNames /\ \A n \in DOMAIN routes : routes[n] \in RouteRecord
      BY DEF TypeOK, RoutesTyped
    <3> HIDE DEF route
    <3>6. /\ DOMAIN routes' = DOMAIN routes \cup {name}
          /\ routes' \in [DOMAIN routes \cup {name} -> RouteRecord]
      BY <3>1, <3>2, <3>5
    <3> QED
      BY <2>1, <3>4, <3>5, <3>6 DEF RoutesTyped
  <2>3. UNCHANGED <<policies, cells, cell_count, receipts, receipt_count, journal, totals,
                    last_error>>
    BY <1>3 DEF AddRoute
  <2> QED
    BY <2>2, <2>3, FrameTypes DEF TypeOK
<1> QED
  BY <1>2, <1>3 DEF AddRoute

\* An entry about existing cells and receipts is well-formed.
LEMMA EntryType ==
    ASSUME NEW kind \in EventKinds, NEW cell \in CellArgs, NEW counterparty \in CellArgs,
           NEW receipt \in ReceiptArgs, NEW amount \in Nat, NEW before \in Nat,
           NEW after \in Nat
    PROVE  Entry(kind, cell, counterparty, receipt, amount, before, after) \in EntryRecord
BY DEF Entry, EntryRecord, CellArgs, ReceiptArgs

\* Creating a cell keeps the types (pdtl_create_cell).
LEMMA CreateCellType ==
    ASSUME TypeOK, NEW owner \in OwnerNames \cup {NoName}, NEW asset \in AssetNames,
           NEW route \in RouteNames, NEW policy \in PolicyNames,
           CreateCell(owner, asset, route, policy)
    PROVE  TypeOK'
<1> DEFINE error == CreateCellError(owner, asset, route, policy)
           entry == Entry("cell_created", cell_count, NoIndex, NoIndex, 0, 0, 0)
<1>1. error \in ErrorCodes
  BY DEF CreateCellError, ErrorCodes
<1>2. CASE Reject(error)
  BY <1>1, <1>2, RejectType
<1>3. CASE error = "PDTL_OK" /\ ~Reject(error)
  <2>1. owner \in OwnerNames /\ cell_count \in CellSlots
    BY <1>3, LedgerAssumption DEF CreateCellError, TypeOK, CellsTyped, CellSlots
  <2>2. NewCell(owner, asset, route, policy) \in CellRecord
    <3>1. NextSequence \in Nat
      BY DEF TypeOK, JournalTyped, NextSequence
    <3> QED
      BY <2>1, <3>1, AmountClosed DEF NewCell, CellRecord
  <2>3. CellsTyped'
    <3>1. cell_count' = cell_count + 1
      BY <1>3 DEF CreateCell
    <3>2. cells' = [i \in 0..cell_count |->
                      IF i = cell_count THEN NewCell(owner, asset, route, policy)
                                        ELSE cells[i]]
      BY <1>3 DEF CreateCell
    <3>3. \A i \in 0..cell_count : i # cell_count => cells[i] \in CellRecord
      BY DEF TypeOK, CellsTyped
    <3>4. cell_count \in Nat /\ 0..(cell_count' - 1) = 0..cell_count
      BY <3>1 DEF TypeOK, CellsTyped
    <3>5. cells' \in [0..cell_count -> CellRecord]
      BY <2>2, <3>2, <3>3
    <3>6. cell_count' \in 0..MaxCells
      BY <2>1, <3>1, LedgerAssumption DEF CellSlots
    <3> QED
      BY <3>4, <3>5, <3>6 DEF CellsTyped
  <2>4. <<entry>> \in Seq(EntryRecord)
    <3>1. "cell_created" \in EventKinds /\ cell_count \in CellArgs
          /\ NoIndex \in CellArgs /\ NoIndex \in ReceiptArgs
      BY <2>1 DEF EventKinds, CellArgs, ReceiptArgs
    <3>2. entry \in EntryRecord
      BY <3>1, EntryType
    <3> HIDE DEF entry
    <3> QED
      BY <3>2
  <2>5. AppendJournal(<<entry>>)
    BY <1>3 DEF CreateCell
  <2>6. JournalTyped' /\ last_error' \in ErrorCodes
    BY <2>4, <2>5, AppendType
  <2>7. UNCHANGED <<policies, routes, receipts, receipt_count, totals>>
    BY <1>3 DEF CreateCell
  <2> QED
    BY <2>3, <2>6, <2>7, FrameTypes DEF TypeOK
<1> QED
  BY <1>2, <1>3 DEF CreateCell

\* pdtl_get_cell and pdtl_get_receipt return slots of the arrays.
LEMMA Slots ==
    ASSUME TypeOK
    PROVE  /\ cell_count \in Nat /\ DOMAIN cells = 0..(cell_count - 1)
           /\ receipt_count \in Nat /\ DOMAIN receipts = 0..(receipt_count - 1)
           /\ \A i \in CellArgs : IsCell(i) =>
                 i \in CellSlots /\ i \in DOMAIN cells /\ cells[i] \in CellRecord
           /\ \A r \in ReceiptArgs : IsReceipt(r) =>
                 r \in ReceiptSlots /\ r \in DOMAIN receipts /\ receipts[r] \in ReceiptRecord
           /\ DOMAIN cells \subseteq CellSlots /\ DOMAIN receipts \subseteq ReceiptSlots
BY LedgerAssumption DEF TypeOK, CellsTyped, ReceiptsTyped, IsCell, IsReceipt, CellArgs,
   ReceiptArgs, CellSlots, ReceiptSlots

\* A call that mutates some cells and stamps them keeps their types.
LEMMA StampedCells ==
    ASSUME TypeOK, NEW cs \in [DOMAIN cells -> CellRecord], NEW touched,
           cells' = Stamp(cs, touched), UNCHANGED cell_count
    PROVE  CellsTyped' /\ \A i \in DOMAIN cells : cells'[i] \in CellRecord
<1>1. cells' \in [DOMAIN cells -> CellRecord]
  BY StampType DEF TypeOK, JournalTyped
<1> QED
  BY <1>1, Slots DEF TypeOK, CellsTyped

\* The entries of a call that name a cell, with amounts or without.
LEMMA AmountEntry ==
    ASSUME NEW kind \in EventKinds, NEW cell \in CellArgs, NEW counterparty \in CellArgs,
           NEW receipt \in ReceiptArgs, NEW amount \in Amount, NEW before \in Amount,
           NEW after \in Amount
    PROVE  Entry(kind, cell, counterparty, receipt, amount, before, after) \in EntryRecord
BY EntryType, AmountClosed

\* A genesis deposit keeps the types (pdtl_deposit_genesis).
LEMMA DepositGenesisType ==
    ASSUME TypeOK, NEW cell \in CellArgs, NEW amount \in CallAmounts,
           DepositGenesis(cell, amount)
    PROVE  TypeOK'
<1> DEFINE error == DepositGenesisError(cell)
           entry == Entry("genesis_deposit", cell, NoIndex, NoIndex, amount,
                          cells[cell].reserve, cells'[cell].reserve)
<1>1. error \in ErrorCodes
  BY DEF DepositGenesisError, ErrorCodes
<1>2. CASE Reject(error)
  BY <1>1, <1>2, RejectType
<1>3. CASE error = "PDTL_OK" /\ ~Reject(error)
  <2>1. /\ cell \in CellSlots /\ cell \in DOMAIN cells /\ cells[cell] \in CellRecord
        /\ amount \in Amount
    BY <1>3, Slots, LedgerAssumption DEF DepositGenesisError
  <2>2. CellsTyped'
    <3> DEFINE deposited == [cells EXCEPT ![cell].reserve = Plus(@, amount)]
    <3>1. cells \in [DOMAIN cells -> CellRecord]
      BY DEF TypeOK, CellsTyped
    <3>2. deposited \in [DOMAIN cells -> CellRecord]
      BY <2>1, <3>1, AmountClosed DEF CellRecord
    <3>3. cells' = Stamp(deposited, {cell}) /\ UNCHANGED cell_count
      BY <1>3 DEF DepositGenesis
    <3> HIDE DEF deposited
    <3> QED
      BY <3>2, <3>3, StampedCells
  <2>3. cells'[cell] \in CellRecord
    BY <1>3, <2>1, <2>2, Slots DEF CellsTyped, DepositGenesis
  <2>4. <<entry>> \in Seq(EntryRecord)
    <3>1. "genesis_deposit" \in EventKinds /\ NoIndex \in CellArgs /\ NoIndex \in ReceiptArgs
      BY DEF EventKinds, CellArgs, ReceiptArgs
    <3>2. amount \in Nat /\ cells[cell].reserve \in Nat /\ cells'[cell].reserve \in Nat
      BY <2>1, <2>3, AmountClosed DEF CellRecord
    <3>3. entry \in EntryRecord
      BY <3>1, <3>2, EntryType
    <3> HIDE DEF entry
    <3> QED
      BY <3>3
  <2>5. JournalTyped' /\ last_error' \in ErrorCodes
    BY <1>3, <2>4, AppendType DEF DepositGenesis
  <2>6. totals' \in TotalsRecord
    BY <1>3, <2>1, AmountClosed DEF DepositGenesis, TypeOK, TotalsRecord
  <2>7. UNCHANGED <<policies, routes, receipts, receipt_count>>
    BY <1>3 DEF DepositGenesis
  <2> QED
    BY <2>2, <2>5, <2>6, <2>7, FrameTypes DEF TypeOK
<1> QED
  BY <1>2, <1>3 DEF DepositGenesis

\* A transfer keeps the types (pdtl_transfer_between_cells).
LEMMA TransferType ==
    ASSUME TypeOK, NEW from \in CellArgs, NEW to \in CellArgs, NEW amount \in CallAmounts,
           TransferBetweenCells(from, to, amount)
    PROVE  TypeOK'
<1> DEFINE error == TransferError(from, to, amount)
           sent == Entry("cell_transfer", from, to, NoIndex, amount,
                         cells[from].reserve, cells'[from].reserve)
           received == Entry("cell_transfer", to, from, NoIndex, amount,
                             cells[to].reserve, cells'[to].reserve)
<1>1. error \in ErrorCodes
  BY DEF TransferError, ErrorCodes
<1>2. CASE Reject(error)
  BY <1>1, <1>2, RejectType
<1>3. CASE error = "PDTL_OK" /\ ~Reject(error)
  <2>1. /\ from \in DOMAIN cells /\ cells[from] \in CellRecord
        /\ to \in DOMAIN cells /\ cells[to] \in CellRecord
        /\ amount \in Amount
    BY <1>3, Slots, LedgerAssumption DEF TransferError
  <2>2. CellsTyped' /\ \A i \in DOMAIN cells : cells'[i] \in CellRecord
    <3>1. cells \in [DOMAIN cells -> CellRecord]
      BY DEF TypeOK, CellsTyped
    <3>2. Debit(cells, from, amount) \in [DOMAIN cells -> CellRecord]
      BY <2>1, <3>1, CellMutations
    <3>3. Credit(Debit(cells, from, amount), to, amount) \in [DOMAIN cells -> CellRecord]
      BY <2>1, <3>2, CellMutations
    <3>4. /\ cells' = Stamp(Credit(Debit(cells, from, amount), to, amount), {from, to})
          /\ UNCHANGED cell_count
      BY <1>3 DEF TransferBetweenCells
    <3> QED
      BY <3>3, <3>4, StampedCells
  <2>3. <<sent, received>> \in Seq(EntryRecord)
    <3>1. "cell_transfer" \in EventKinds /\ NoIndex \in ReceiptArgs
      BY DEF EventKinds, ReceiptArgs
    <3>2. /\ cells[from].reserve \in Amount /\ cells'[from].reserve \in Amount
          /\ cells[to].reserve \in Amount /\ cells'[to].reserve \in Amount
      BY <2>1, <2>2 DEF CellRecord
    <3>3. sent \in EntryRecord /\ received \in EntryRecord
      BY <2>1, <3>1, <3>2, AmountEntry
    <3> HIDE DEF sent, received
    <3> QED
      BY <3>3
  <2>4. JournalTyped' /\ last_error' \in ErrorCodes
    BY <1>3, <2>3, AppendType DEF TransferBetweenCells
  <2>5. UNCHANGED <<policies, routes, receipts, receipt_count, totals>>
    BY <1>3 DEF TransferBetweenCells
  <2> QED
    BY <2>2, <2>4, <2>5, FrameTypes DEF TypeOK
<1> QED
  BY <1>2, <1>3 DEF TransferBetweenCells

\* A consolidation keeps the types (pdtl_consolidate_cell).
LEMMA ConsolidateType ==
    ASSUME TypeOK, NEW target \in CellArgs, NEW source \in CellArgs,
           ConsolidateCell(target, source)
    PROVE  TypeOK'
<1> DEFINE error == ConsolidateError(target, source)
           moved == cells[source].reserve
           emptied == Entry("cell_consolidated", source, target, NoIndex, moved, moved, 0)
           filled == Entry("cell_consolidated", target, source, NoIndex, moved,
                           cells[target].reserve, cells'[target].reserve)
<1>1. error \in ErrorCodes
  BY DEF ConsolidateError, ErrorCodes
<1>2. CASE Reject(error)
  BY <1>1, <1>2, RejectType
<1>3. CASE error = "PDTL_OK" /\ ~Reject(error)
  <2>1. /\ target \in DOMAIN cells /\ cells[target] \in CellRecord
        /\ source \in DOMAIN cells /\ cells[source] \in CellRecord
    BY <1>3, Slots DEF ConsolidateError
  <2>2. moved \in Amount
    BY <2>1 DEF CellRecord
  <2>3. CellsTyped' /\ \A i \in DOMAIN cells : cells'[i] \in CellRecord
    <3> DEFINE credited == Credit(cells, target, moved)
               closed == [credited EXCEPT ![source].reserve = 0, ![source].state = "closed"]
    <3>1. credited \in [DOMAIN cells -> CellRecord]
      BY <2>1, <2>2, CellMutations DEF TypeOK, CellsTyped
    <3>2. cells' = Stamp(closed, {source, target}) /\ UNCHANGED cell_count
      BY <1>3 DEF ConsolidateCell
    <3> HIDE DEF credited
    <3>3. closed \in [DOMAIN cells -> CellRecord]
      BY <2>1, <3>1, AmountClosed DEF CellRecord
    <3> HIDE DEF closed
    <3> QED
      BY <3>2, <3>3, StampedCells
  <2>4. <<emptied, filled>> \in Seq(EntryRecord)
    <3>1. "cell_consolidated" \in EventKinds /\ NoIndex \in ReceiptArgs
      BY DEF EventKinds, ReceiptArgs
    <3>2. cells[target].reserve \in Amount /\ cells'[target].reserve \in Amount
      BY <2>1, <2>3 DEF CellRecord
    <3>3. emptied \in EntryRecord /\ filled \in EntryRecord
      BY <2>2, <3>1, <3>2, AmountEntry, AmountClosed
    <3> HIDE DEF emptied, filled
    <3> QED
      BY <3>3
  <2>5. JournalTyped' /\ last_error' \in ErrorCodes
    BY <1>3, <2>4, AppendType DEF ConsolidateCell
  <2>6. UNCHANGED <<policies, routes, receipts, receipt_count, totals>>
    BY <1>3 DEF ConsolidateCell
  <2> QED
    BY <2>3, <2>5, <2>6, FrameTypes DEF TypeOK
<1> QED
  BY <1>2, <1>3 DEF ConsolidateCell

\* A withdrawal keeps the types (pdtl_withdraw).
LEMMA WithdrawType ==
    ASSUME TypeOK, NEW cell \in CellArgs, NEW amount \in CallAmounts, Withdraw(cell, amount)
    PROVE  TypeOK'
<1> DEFINE error == WithdrawError(cell, amount)
           entry == Entry("withdrawal", cell, NoIndex, NoIndex, amount,
                          cells[cell].reserve, cells'[cell].reserve)
<1>1. error \in ErrorCodes
  BY DEF WithdrawError, ErrorCodes
<1>2. CASE Reject(error)
  BY <1>1, <1>2, RejectType
<1>3. CASE error = "PDTL_OK" /\ ~Reject(error)
  <2>1. cell \in DOMAIN cells /\ cells[cell] \in CellRecord /\ amount \in Amount
    BY <1>3, Slots, LedgerAssumption DEF WithdrawError
  <2>2. CellsTyped' /\ \A i \in DOMAIN cells : cells'[i] \in CellRecord
    <3> DEFINE withdrawn == [cells EXCEPT ![cell].reserve = Minus(@, amount),
                                          ![cell].withdrawn = Plus(@, amount)]
    <3>1. cells \in [DOMAIN cells -> CellRecord]
      BY DEF TypeOK, CellsTyped
    <3>2. withdrawn \in [DOMAIN cells -> CellRecord]
      BY <2>1, <3>1, AmountClosed DEF CellRecord
    <3>3. cells' = Stamp(withdrawn, {cell}) /\ UNCHANGED cell_count
      BY <1>3 DEF Withdraw
    <3> HIDE DEF withdrawn
    <3> QED
      BY <3>2, <3>3, StampedCells
  <2>3. <<entry>> \in Seq(EntryRecord)
    <3>1. "withdrawal" \in EventKinds /\ NoIndex \in CellArgs /\ NoIndex \in ReceiptArgs
      BY DEF EventKinds, CellArgs, ReceiptArgs
    <3>2. cells[cell].reserve \in Amount /\ cells'[cell].reserve \in Amount
      BY <2>1, <2>2 DEF CellRecord
    <3>3. entry \in EntryRecord
      BY <2>1, <3>1, <3>2, AmountEntry
    <3> HIDE DEF entry
    <3> QED
      BY <3>3
  <2>4. JournalTyped' /\ last_error' \in ErrorCodes
    BY <1>3, <2>3, AppendType DEF Withdraw
  <2>5. totals' \in TotalsRecord
    BY <1>3, <2>1, AmountClosed DEF Withdraw, TypeOK, TotalsRecord
  <2>6. UNCHANGED <<policies, routes, receipts, receipt_count>>
    BY <1>3 DEF Withdraw
  <2> QED
    BY <2>2, <2>4, <2>5, <2>6, FrameTypes DEF TypeOK
<1> QED
  BY <1>2, <1>3 DEF Withdraw

\* Issuing a receipt keeps the types (pdtl_issue_receipt).
LEMMA IssueReceiptType ==
    ASSUME TypeOK, NEW origin \in CellArgs, NEW beneficiary \in CellArgs,
           NEW gross \in CallAmounts, IssueReceipt(origin, beneficiary, gross)
    PROVE  TypeOK'
<1> DEFINE error == IssueError(origin, beneficiary, gross)
           receipt == NewReceipt(origin, beneficiary, gross)
           entry == Entry("receipt_issued", origin, beneficiary, receipt_count, gross,
                          cells[origin].reserved_out, cells'[origin].reserved_out)
<1>1. error \in ErrorCodes
  BY DEF IssueError, ErrorCodes
<1>2. CASE Reject(error)
  BY <1>1, <1>2, RejectType
<1>3. CASE error = "PDTL_OK" /\ ~Reject(error)
  <2>1. /\ origin \in DOMAIN cells /\ cells[origin] \in CellRecord
        /\ origin \in CellSlots /\ beneficiary \in CellSlots
        /\ IsRoute(cells[origin].route) /\ gross \in Amount
    BY <1>3, Slots, LedgerAssumption DEF IssueError
  <2>2. receipt_count \in ReceiptSlots
    BY <1>3, LedgerAssumption DEF IssueError, TypeOK, ReceiptsTyped, ReceiptSlots
  <2>3. receipt \in ReceiptRecord
    <3> DEFINE route == routes[cells[origin].route]
               fee == FeeOf(gross, route.fee_bps)
    <3>1. route \in RouteRecord
      BY <2>1 DEF TypeOK, RoutesTyped, IsRoute
    <3>2. route.fee_bps \in 0..BpsScale
      BY <3>1 DEF RouteRecord
    <3>3. fee \in 0..gross /\ NetOf(gross, fee) \in Amount
      BY <2>1, <3>2, FeeWithinGross
    <3>4. fee \in Amount
      BY <2>1, <3>3, AmountAssumption DEF Amount
    <3>5. /\ cells[origin].asset \in AssetNames /\ cells[origin].route \in RouteNames
          /\ cells[origin].policy \in PolicyNames
      BY <2>1 DEF CellRecord
    <3>6. receipt = [origin_cell |-> origin, beneficiary_cell |-> beneficiary,
                     paid_by_cell |-> NoIndex, asset |-> cells[origin].asset,
                     route |-> cells[origin].route, policy |-> cells[origin].policy,
                     gross |-> gross, fee |-> fee, net |-> NetOf(gross, fee),
                     route_digest |-> route, status |-> "pending"]
      BY DEF NewReceipt
    <3>7. NoIndex \in CellSlots \cup {NoIndex}
      OBVIOUS
    <3> HIDE DEF receipt, route, fee
    <3> QED
      BY <2>1, <3>1, <3>3, <3>4, <3>5, <3>6, <3>7, Zenon DEF ReceiptRecord
  <2>4. ReceiptsTyped'
    <3>1. receipt_count' = receipt_count + 1
      BY <1>3 DEF IssueReceipt
    <3>2. receipts' = [r \in 0..receipt_count |->
                         IF r = receipt_count THEN receipt ELSE receipts[r]]
      BY <1>3 DEF IssueReceipt
    <3>3. \A r \in 0..receipt_count : r # receipt_count => receipts[r] \in ReceiptRecord
      BY DEF TypeOK, ReceiptsTyped
    <3>4. receipt_count \in Nat /\ 0..(receipt_count' - 1) = 0..receipt_count
      BY <3>1 DEF TypeOK, ReceiptsTyped
    <3> HIDE DEF receipt
    <3>5. receipts' \in [0..receipt_count -> ReceiptRecord]
      BY <2>3, <3>2, <3>3
    <3>6. receipt_count' \in 0..MaxReceipts
      BY <2>2, <3>1, LedgerAssumption DEF ReceiptSlots
    <3> QED
      BY <3>4, <3>5, <3>6 DEF ReceiptsTyped
  <2>5. CellsTyped' /\ \A i \in DOMAIN cells : cells'[i] \in CellRecord
    <3>1. cells \in [DOMAIN cells -> CellRecord]
      BY DEF TypeOK, CellsTyped
    <3>2. Reserve(cells, origin, gross) \in [DOMAIN cells -> CellRecord]
      BY <2>1, <3>1, CellMutations
    <3>3. cells' = Stamp(Reserve(cells, origin, gross), {origin}) /\ UNCHANGED cell_count
      BY <1>3 DEF IssueReceipt
    <3> QED
      BY <3>2, <3>3, StampedCells
  <2>6. <<entry>> \in Seq(EntryRecord)
    <3>1. "receipt_issued" \in EventKinds /\ receipt_count \in ReceiptArgs
      BY <2>2 DEF EventKinds, ReceiptArgs
    <3>2. cells[origin].reserved_out \in Amount /\ cells'[origin].reserved_out \in Amount
      BY <2>1, <2>5 DEF CellRecord
    <3>3. entry \in EntryRecord
      BY <2>1, <3>1, <3>2, AmountEntry
    <3> HIDE DEF entry
    <3> QED
      BY <3>3
  <2>7. JournalTyped' /\ last_error' \in ErrorCodes
    BY <1>3, <2>6, AppendType DEF IssueReceipt
  <2>8. UNCHANGED <<policies, routes, totals>>
    BY <1>3 DEF IssueReceipt
  <2> QED
    BY <2>4, <2>5, <2>7, <2>8, FrameTypes DEF TypeOK
<1> QED
  BY <1>2, <1>3 DEF IssueReceipt

\* Resolving a receipt, one way or the other, keeps it well-formed.
LEMMA ResolvedReceipts ==
    ASSUME TypeOK, NEW r \in DOMAIN receipts, NEW payer \in CellSlots \cup {NoIndex},
           NEW status \in {"settled", "cancelled"}, UNCHANGED receipt_count,
           receipts' = [receipts EXCEPT ![r].paid_by_cell = payer, ![r].status = status]
    PROVE  ReceiptsTyped'
<1>1. receipts \in [DOMAIN receipts -> ReceiptRecord] /\ receipts[r] \in ReceiptRecord
  BY DEF TypeOK, ReceiptsTyped
<1>2. [receipts[r] EXCEPT !.paid_by_cell = payer, !.status = status] \in ReceiptRecord
  BY <1>1, Zenon DEF ReceiptRecord
<1>3. receipts' = [receipts EXCEPT ![r] =
                      [receipts[r] EXCEPT !.paid_by_cell = payer, !.status = status]]
  BY <1>1
<1>4. receipts' \in [DOMAIN receipts -> ReceiptRecord]
  BY <1>1, <1>2, <1>3
<1> QED
  BY <1>4, Slots DEF TypeOK, ReceiptsTyped

\* Cancelling a receipt keeps the types (pdtl_cancel_receipt).
LEMMA CancelReceiptType ==
    ASSUME TypeOK, NEW r \in ReceiptArgs, CancelReceipt(r)
    PROVE  TypeOK'
<1> DEFINE error == CancelError(r)
           origin == receipts[r].origin_cell
           gross == receipts[r].gross
           entry == Entry("receipt_cancelled", origin, receipts[r].beneficiary_cell, r, gross,
                          cells[origin].reserved_out, cells'[origin].reserved_out)
<1>1. error \in ErrorCodes
  BY DEF CancelError, ErrorCodes
<1>2. CASE Reject(error)
  BY <1>1, <1>2, RejectType
<1>3. CASE error = "PDTL_OK" /\ ~Reject(error)
  <2>1. r \in DOMAIN receipts /\ receipts[r] \in ReceiptRecord
    BY <1>3, Slots DEF CancelError
  <2>2. /\ origin \in CellArgs /\ receipts[r].beneficiary_cell \in CellArgs
        /\ gross \in Amount
    BY <2>1 DEF ReceiptRecord, CellArgs
  <2>3. origin \in DOMAIN cells /\ cells[origin] \in CellRecord
    BY <1>3, <2>2, Slots DEF CancelError
  <2>4. ReceiptsTyped'
    <3>1. /\ receipts' = [receipts EXCEPT ![r].paid_by_cell = NoIndex, ![r].status = "cancelled"]
          /\ UNCHANGED receipt_count
      BY <1>3 DEF CancelReceipt
    <3> QED
      BY <2>1, <3>1, ResolvedReceipts
  <2>5. CellsTyped' /\ \A i \in DOMAIN cells : cells'[i] \in CellRecord
    <3>1. cells \in [DOMAIN cells -> CellRecord]
      BY DEF TypeOK, CellsTyped
    <3>2. Release(cells, origin, gross) \in [DOMAIN cells -> CellRecord]
      BY <2>2, <2>3, <3>1, CellMutations
    <3>3. cells' = Stamp(Release(cells, origin, gross), {origin}) /\ UNCHANGED cell_count
      BY <1>3 DEF CancelReceipt
    <3> QED
      BY <3>2, <3>3, StampedCells
  <2>6. <<entry>> \in Seq(EntryRecord)
    <3>1. "receipt_cancelled" \in EventKinds
      BY DEF EventKinds
    <3>2. cells[origin].reserved_out \in Amount /\ cells'[origin].reserved_out \in Amount
      BY <2>3, <2>5 DEF CellRecord
    <3>3. entry \in EntryRecord
      BY <2>2, <3>1, <3>2, AmountEntry
    <3> HIDE DEF entry
    <3> QED
      BY <3>3
  <2>7. JournalTyped' /\ last_error' \in ErrorCodes
    BY <1>3, <2>6, AppendType DEF CancelReceipt
  <2>8. UNCHANGED <<policies, routes, totals>>
    BY <1>3 DEF CancelReceipt
  <2> QED
    BY <2>4, <2>5, <2>7, <2>8, FrameTypes DEF TypeOK
<1> QED
  BY <1>2, <1>3 DEF CancelReceipt

\* What the checks of a settlement let through (pdtl_validate_settlement_shape).
LEMMA SettlementShape ==
    ASSUME TypeOK, NEW r \in ReceiptArgs, NEW payer \in CellArgs,
           SettleError(r, payer) = "PDTL_OK"
    PROVE  /\ r \in DOMAIN receipts /\ receipts[r] \in ReceiptRecord
           /\ payer \in DOMAIN cells
           /\ receipts[r].origin_cell \in DOMAIN cells
           /\ receipts[r].beneficiary_cell \in DOMAIN cells
           /\ IsRoute(receipts[r].route)
           /\ routes[receipts[r].route].fee_cell \in DOMAIN cells \cup {NoIndex}
<1>1. ShapeError(r, payer) = "PDTL_OK" /\ ApplyError(receipts[r]) = "PDTL_OK"
  BY DEF SettleError
<1>2. IsReceipt(r) /\ IsCell(payer) /\ IsRoute(receipts[r].route)
  BY <1>1 DEF ShapeError
<1>3. /\ r \in DOMAIN receipts /\ receipts[r] \in ReceiptRecord
      /\ payer \in DOMAIN cells
  BY <1>2, Slots
<1>4. receipts[r].origin_cell \in CellArgs /\ receipts[r].beneficiary_cell \in CellArgs
  BY <1>3 DEF ReceiptRecord, CellArgs
<1>5. routes[receipts[r].route].fee_cell \in CellArgs
  <2>1. routes[receipts[r].route] \in RouteRecord
    BY <1>2 DEF TypeOK, RoutesTyped, IsRoute
  <2> QED
    BY <2>1, Zenon DEF RouteRecord, CellArgs
<1>6. /\ IsCell(receipts[r].origin_cell) /\ IsCell(receipts[r].beneficiary_cell)
      /\ \/ routes[receipts[r].route].fee_cell = NoIndex
         \/ IsCell(routes[receipts[r].route].fee_cell)
  BY <1>1 DEF ApplyError
<1> QED
  BY <1>2, <1>3, <1>4, <1>5, <1>6, Slots

\* The cells after a settlement are well-formed, whichever of them coincide.
LEMMA SettledCellsType ==
    ASSUME TypeOK, NEW receipt \in ReceiptRecord, NEW payer \in DOMAIN cells,
           receipt.origin_cell \in DOMAIN cells, receipt.beneficiary_cell \in DOMAIN cells,
           NEW fee_cell \in DOMAIN cells \cup {NoIndex},
           cells' = SettledCells(receipt, payer, fee_cell), UNCHANGED cell_count
    PROVE  CellsTyped' /\ \A i \in DOMAIN cells : cells'[i] \in CellRecord
<1> DEFINE paid == Debit(cells, payer, receipt.gross)
           credited == Credit(paid, receipt.beneficiary_cell, receipt.net)
           feePaid == IF fee_cell # NoIndex /\ receipt.fee > 0
                      THEN Credit(credited, fee_cell, receipt.fee) ELSE credited
           released == Release(feePaid, receipt.origin_cell, receipt.gross)
           touched == {payer, receipt.beneficiary_cell, receipt.origin_cell, fee_cell}
<1>1. receipt.gross \in Amount /\ receipt.net \in Amount /\ receipt.fee \in Amount
  BY DEF ReceiptRecord
<1>2. paid \in [DOMAIN cells -> CellRecord]
  BY <1>1, CellMutations DEF TypeOK, CellsTyped
<1>3. cells' = Stamp(released, touched)
  BY DEF SettledCells
<1> HIDE DEF paid
<1>4. credited \in [DOMAIN cells -> CellRecord]
  BY <1>1, <1>2, CellMutations
<1> HIDE DEF credited
<1>5. feePaid \in [DOMAIN cells -> CellRecord]
  BY <1>1, <1>4, CellMutations
<1> HIDE DEF feePaid
<1>6. released \in [DOMAIN cells -> CellRecord]
  BY <1>1, <1>5, CellMutations
<1> HIDE DEF released, touched
<1> QED
  BY <1>3, <1>6, StampedCells

\* Settling a receipt keeps the types (pdtl_settle_receipt).
LEMMA SettleReceiptType ==
    ASSUME TypeOK, NEW r \in ReceiptArgs, NEW payer \in CellArgs, SettleReceipt(r, payer)
    PROVE  TypeOK'
<1> DEFINE error == SettleError(r, payer)
           receipt == receipts[r]
           to == receipt.beneficiary_cell
           fee_cell == routes[receipt.route].fee_cell
           paid == Entry("receipt_settled", payer, to, r, receipt.gross,
                         cells[payer].reserve, cells'[payer].reserve)
           got == Entry("receipt_settled", to, payer, r, receipt.net,
                        cells[to].reserve, cells'[to].reserve)
           fee == Entry("receipt_settled", fee_cell, payer, r, receipt.fee,
                        cells[fee_cell].reserve, cells'[fee_cell].reserve)
           entries == <<paid, got>> \o IF fee_cell # NoIndex /\ receipt.fee > 0
                                       THEN <<fee>> ELSE <<>>
<1>1. error \in ErrorCodes
  BY DEF SettleError, ShapeError, ApplyError, ErrorCodes
<1>2. CASE Reject(error)
  BY <1>1, <1>2, RejectType
<1>3. CASE error = "PDTL_OK" /\ ~Reject(error)
  <2>1. /\ r \in DOMAIN receipts /\ receipt \in ReceiptRecord /\ payer \in DOMAIN cells
        /\ receipt.origin_cell \in DOMAIN cells /\ to \in DOMAIN cells
        /\ fee_cell \in DOMAIN cells \cup {NoIndex}
    BY <1>3, SettlementShape
  <2>2. /\ DOMAIN cells \subseteq CellArgs /\ payer \in CellSlots \cup {NoIndex}
        /\ \A i \in DOMAIN cells : cells[i] \in CellRecord
    BY <2>1, Slots DEF CellArgs, TypeOK, CellsTyped
  <2>3. ReceiptsTyped'
    <3>1. /\ receipts' = [receipts EXCEPT ![r].paid_by_cell = payer, ![r].status = "settled"]
          /\ UNCHANGED receipt_count
      BY <1>3 DEF SettleReceipt
    <3> QED
      BY <2>1, <2>2, <3>1, ResolvedReceipts
  <2>4. CellsTyped' /\ \A i \in DOMAIN cells : cells'[i] \in CellRecord
    <3>1. cells' = SettledCells(receipt, payer, fee_cell) /\ UNCHANGED cell_count
      BY <1>3 DEF SettleReceipt
    <3> QED
      BY <2>1, <3>1, SettledCellsType
  <2>5. entries \in Seq(EntryRecord)
    <3>1. "receipt_settled" \in EventKinds
      BY DEF EventKinds
    <3>2. receipt.gross \in Amount /\ receipt.net \in Amount /\ receipt.fee \in Amount
      BY <2>1 DEF ReceiptRecord
    <3>3. \A i \in DOMAIN cells : cells[i].reserve \in Amount /\ cells'[i].reserve \in Amount
      BY <2>2, <2>4 DEF CellRecord
    <3>4. paid \in EntryRecord /\ got \in EntryRecord
      BY <2>1, <2>2, <3>1, <3>2, <3>3, AmountEntry
    <3>5. fee_cell # NoIndex => fee \in EntryRecord
      BY <2>1, <2>2, <3>1, <3>2, <3>3, AmountEntry
    <3> HIDE DEF paid, got, fee, fee_cell, receipt
    <3>6. <<paid, got>> \in Seq(EntryRecord)
      BY <3>4
    <3>7. (IF fee_cell # NoIndex /\ receipt.fee > 0 THEN <<fee>> ELSE <<>>)
            \in Seq(EntryRecord)
      BY <3>5
    <3> QED
      BY <3>6, <3>7, ConcatProperties
  <2>6. JournalTyped' /\ last_error' \in ErrorCodes
    <3>1. AppendJournal(entries)
      BY <1>3 DEF SettleReceipt
    <3> HIDE DEF entries
    <3> QED
      BY <2>5, <3>1, AppendType
  <2>7. UNCHANGED <<policies, routes, totals>>
    BY <1>3 DEF SettleReceipt
  <2> QED
    BY <2>3, <2>4, <2>6, <2>7, FrameTypes DEF TypeOK
<1> QED
  BY <1>2, <1>3 DEF SettleReceipt

\* Repricing a route keeps the types (pdtl_update_route_fee).
LEMMA UpdateRouteFeeType ==
    ASSUME TypeOK, NEW name \in RouteNames, NEW fee_bps \in BpsValues,
           NEW fee_cell \in CellArgs, UpdateRouteFee(name, fee_bps, fee_cell)
    PROVE  TypeOK'
<1> DEFINE error == UpdateRouteFeeError(name, fee_bps, fee_cell)
           entry == Entry("route_fee_updated", fee_cell, NoIndex, NoIndex, fee_bps,
                          routes[name].fee_bps, fee_bps)
<1>1. error \in ErrorCodes
  BY DEF UpdateRouteFeeError, ErrorCodes
<1>2. CASE Reject(error)
  BY <1>1, <1>2, RejectType
<1>3. CASE error = "PDTL_OK" /\ ~Reject(error)
  <2>1. name \in DOMAIN routes /\ fee_bps \in 0..BpsScale
    BY <1>3, LedgerAssumption, AmountAssumption DEF UpdateRouteFeeError, IsRoute
  <2>2. routes \in [DOMAIN routes -> RouteRecord] /\ routes[name] \in RouteRecord
    BY <2>1 DEF TypeOK, RoutesTyped
  <2>3. RoutesTyped'
    <3>1. [routes[name] EXCEPT !.fee_bps = fee_bps, !.fee_cell = fee_cell] \in RouteRecord
      BY <2>1, <2>2, Zenon DEF RouteRecord, CellArgs
    <3>2. routes' = [routes EXCEPT ![name] =
                        [routes[name] EXCEPT !.fee_bps = fee_bps, !.fee_cell = fee_cell]]
      BY <1>3, <2>1, <2>2 DEF UpdateRouteFee
    <3>3. routes' \in [DOMAIN routes -> RouteRecord]
      BY <2>2, <3>1, <3>2
    <3> QED
      BY <3>3 DEF TypeOK, RoutesTyped
  <2>4. <<entry>> \in Seq(EntryRecord)
    <3>1. "route_fee_updated" \in EventKinds /\ NoIndex \in CellArgs /\ NoIndex \in ReceiptArgs
      BY DEF EventKinds, CellArgs, ReceiptArgs
    <3>2. routes[name].fee_bps \in Nat /\ fee_bps \in Nat
      BY <2>1, <2>2, AmountAssumption DEF RouteRecord
    <3>3. entry \in EntryRecord
      BY <3>1, <3>2, EntryType
    <3> HIDE DEF entry
    <3> QED
      BY <3>3
  <2>5. JournalTyped' /\ last_error' \in ErrorCodes
    BY <1>3, <2>4, AppendType DEF UpdateRouteFee
  <2>6. UNCHANGED <<policies, cells, cell_count, receipts, receipt_count, totals>>
    BY <1>3 DEF UpdateRouteFee
  <2> QED
    BY <2>3, <2>5, <2>6, FrameTypes DEF TypeOK
<1> QED
  BY <1>2, <1>3 DEF UpdateRouteFee

\* Closing a route keeps the types (pdtl_close_route).
LEMMA CloseRouteType ==
    ASSUME TypeOK, NEW name \in RouteNames, CloseRoute(name)
    PROVE  TypeOK'
<1> DEFINE error == CloseRouteError(name)
           entry == Entry("route_closed", NoIndex, NoIndex, NoIndex, 0, 0, 0)
<1>1. error \in ErrorCodes
  BY DEF CloseRouteError, ErrorCodes
<1>2. CASE Reject(error)
  BY <1>1, <1>2, RejectType
<1>3. CASE UNCHANGED vars
  BY <1>3, FrameTypes DEF vars, TypeOK
<1>4. CASE error = "PDTL_OK" /\ ~Reject(error) /\ ~routes[name].closed
  <2>1. name \in DOMAIN routes
    BY <1>4 DEF CloseRouteError, IsRoute
  <2>2. routes \in [DOMAIN routes -> RouteRecord] /\ routes[name] \in RouteRecord
    BY <2>1 DEF TypeOK, RoutesTyped
  <2>3. RoutesTyped'
    <3>1. [routes[name] EXCEPT !.closed = TRUE] \in RouteRecord
      BY <2>2, Zenon DEF RouteRecord
    <3>2. routes' = [routes EXCEPT ![name] = [routes[name] EXCEPT !.closed = TRUE]]
      BY <1>4, <2>1, <2>2 DEF CloseRoute, vars
    <3>3. routes' \in [DOMAIN routes -> RouteRecord]
      BY <2>2, <3>1, <3>2
    <3> QED
      BY <3>3 DEF TypeOK, RoutesTyped
  <2>4. <<entry>> \in Seq(EntryRecord)
    <3>1. "route_closed" \in EventKinds /\ NoIndex \in CellArgs /\ NoIndex \in ReceiptArgs
      BY DEF EventKinds, CellArgs, ReceiptArgs
    <3>2. entry \in EntryRecord
      BY <3>1, EntryType
    <3> HIDE DEF entry
    <3> QED
      BY <3>2
  <2>5. JournalTyped' /\ last_error' \in ErrorCodes
    BY <1>4, <2>4, AppendType DEF CloseRoute
  <2>6. UNCHANGED <<policies, cells, cell_count, receipts, receipt_count, totals>>
    BY <1>4 DEF CloseRoute
  <2> QED
    BY <2>3, <2>5, <2>6, FrameTypes DEF TypeOK
<1> QED
  BY <1>2, <1>3, <1>4 DEF CloseRoute

-----------------------------------------------------------------------------
(* The specification.                                                      *)

\* The empty ledger is well-formed (pdtl_init).
LEMMA InitType == Init => TypeOK
<1> SUFFICES ASSUME Init PROVE TypeOK
  OBVIOUS
<1>1. PoliciesTyped /\ RoutesTyped
  BY FS_EmptySet, LedgerAssumption DEF Init, PoliciesTyped, RoutesTyped
<1>2. CellsTyped /\ ReceiptsTyped
  BY LedgerAssumption DEF Init, CellsTyped, ReceiptsTyped
<1>3. JournalTyped
  BY LedgerAssumption DEF Init, JournalTyped
<1>4. totals \in TotalsRecord /\ last_error \in ErrorCodes
  BY AmountClosed DEF Init, TotalsRecord, ErrorCodes
<1> QED
  BY <1>1, <1>2, <1>3, <1>4 DEF TypeOK

\* Every call keeps the types.
LEMMA NextType ==
    ASSUME TypeOK, [Next]_vars
    PROVE  TypeOK'
<1>1. CASE Setup
  BY <1>1, AddPolicyType, AddRouteType, CreateCellType DEF Setup
<1>2. CASE Movement
  BY <1>2, DepositGenesisType, TransferType, ConsolidateType, WithdrawType DEF Movement
<1>3. CASE ReceiptLife
  BY <1>3, IssueReceiptType, SettleReceiptType, CancelReceiptType DEF ReceiptLife
<1>4. CASE RouteControl
  BY <1>4, UpdateRouteFeeType, CloseRouteType DEF RouteControl
<1>5. CASE ClearError
  BY <1>5, FrameTypes DEF ClearError, TypeOK, ErrorCodes
<1>6. CASE UNCHANGED vars
  BY <1>6, FrameTypes DEF vars, TypeOK
<1> QED
  BY <1>1, <1>2, <1>3, <1>4, <1>5, <1>6 DEF Next

(***************************************************************************)
(* Whatever the callers do, in whatever order, every field stays in its    *)
(* type, no array outgrows its capacity, stored indexes are slots.         *)
(***************************************************************************)
THEOREM TypeCorrect == Spec => []TypeOK
<1>1. Init => TypeOK
  BY InitType
<1>2. TypeOK /\ [Next]_vars => TypeOK'
  BY NextType
<1> QED
  BY <1>1, <1>2, PTL DEF Spec

=============================================================================
