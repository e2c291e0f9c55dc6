# ParallaxDTL in TLA+

ParallaxDTL is a C11 library and command-line program: an in-memory ledger that
moves liquidity between *cells*, commits it to *receipts*, settles or cancels
the receipts along *routes* under *policies*, keeps a *journal* and reports
whether everything reconciles. This directory holds TLA+ modules of the ledger,
TLC configurations that check them on small instances, and TLAPS proofs.

Paths below are relative to the root of the repository. The documents of the
repository are in Spanish; quotations keep the original.

## 1. Inventory

### Components

| Component | Source | State | Operations |
|---|---|---|---|
| Ledger engine | `src/pdtl_ledger.c`, structs in `src/pdtl.h` | arrays of policies (12), routes (16), cells (40) and receipts (80) with their counts, four supply totals, the last error | 12 calls that change it: add policy, add route, create cell, genesis deposit, transfer, consolidate, withdraw, issue, settle, cancel, update route fee, close route; `pdtl_init`, `pdtl_clear_error` |
| Journal | `src/pdtl_journal.c` | array of 320 entries, a sequence counter | `pdtl_append_journal`, called at the end of each call |
| Reconciliation and exposure | `src/pdtl_ledger.c` (second half) | none | totals, `pdtl_global_reconciliation_ok`, `pdtl_route_exposure` |
| Digests and ids | `src/pdtl_hash.c` | none | FNV-style digests of a route, cell, receipt, journal entry; `pdtl_make_id` |
| Scenarios | `src/pdtl_scenarios.c` | one ledger, a result record | `pdtl_setup_surface`, the scenarios snapshot, flow, cancel, fee-rotation, the report |
| JSON writer | `src/pdtl_json.c` | a depth, a comma flag per depth (32) | begin/end object and array, properties |
| Command line | `src/main.c` | none | picks the scenario, runs it, prints, exit codes 0, 1, 2 |
| Tests, scripts | `tests/node`, `scripts` | none | statements of what the program should do |

The command line runs one scenario; a scenario is a fixed sequence of ledger
calls that stops at the first error; every ledger call ends with appends to the
journal; the report reads the views and feeds the JSON writer. There are no
threads, callbacks, timers or files: the program is sequential and keeps
everything in memory. The ledger is written as a library (`src/pdtl.h` is its
interface), and the models treat it as one: any caller, any call, any argument,
in any order.

### What is hard

Nothing here is hard because of concurrency. What is hard is *history*: a call
is checked against numbers that other calls left behind.

- `reserved_out` of a cell is kept by three calls (issue adds, settle and cancel
  subtract) and is read by five others. The payer of a receipt may be any cell of
  the route, while the commitment is the origin's.
- An origin that settles its own receipt is not checked against its available
  balance, only against `reserve` and `reserved_out`. That it still respects its
  minimum reserve and its other commitments depends on every call before.
- Payer, origin, beneficiary and fee cell may coincide, and the mutations are in
  place, one after the other.
- The fee and the route digest are fixed at issue and never compared again.
- Names and indexes are copied between structs and resolved again at each call.
- Arithmetic is unsigned 64-bit and unchecked.
- A full journal is found out after the mutation.
- Cells close by consolidation and routes by `pdtl_close_route`, with receipts
  still pointing at them.

`PROJECT.json` lists each of these at its line with the properties that watch it.

### What makes each component correct

- Engine: commitments equal the pending receipts and stay covered with the
  minimum reserve; no unit appears or disappears; a receipt keeps its terms and
  is resolved exactly once, and can always be resolved; a closed route is quiet;
  stored indexes and names resolve; no guard against underflow is ever needed.
- Journal: while it has room it explains every balance and every receipt, and
  its sequence numbers order the versions of a cell.
- Views: the aggregates agree with each other and stay in their ranges; the
  reconciliation check is true of every reachable ledger.
- Names: a name finds one entry, the one the call checked, whatever is added
  later; merging cells does not merge owners.
- Digests: a change of the ledger is a change of `state_digest`, and no field can
  pass for a part of another.
- Scenarios and report: every scenario ends, with a document whose numbers agree
  with each other, with the ledger and with the tests.
- JSON writer: what is printed is at every moment the beginning of a document; the
  depth, which nothing checks, stays an index of its arrays.
- Command line: the exit code says which of the three outcomes it was.

## 2. Modules

| Module | Models |
|---|---|
| `Amounts` | `PdtlAmount`: sums, differences and products cut to 64 bits; the fee |
| `PrefixSums` | the loops over the fixed arrays, as a recursive function |
| `Ledger` | the ledger engine and the journal: state, `Init`, one action per call |
| `LedgerViews` | totals, reconciliation, route exposure |
| `LedgerProperties` | the properties of the ledger |
| `Escrow` | the abstract specification: accounts, promises between them, and the units |
| `LedgerRefinement` | the mapping by which the ledger implements `Escrow` |
| `Digests` | what the digests cover |
| `Registry` | names: how they are cut, looked up, copied, compared and fed to the hash |
| `Scenarios` | the scenarios as scripts of ledger calls, and the result they keep |
| `JsonWriter` | the writer's depth, kinds and marks, and its calls |
| `JsonReader` | the reader of stdout, `JSON.parse` in the tests (external) |
| `Report` | the report as the list of writer calls that prints it |
| `Program` | `main`: composes scenarios, ledger, report and writer |
| `ProgramProperties` | the properties of the program |
| `MCLedger`, `MCProgram`, `MCRegistry` | instances for TLC: surfaces, views, symmetry, names |
| `PrefixSumsProofs` | lemmas about sums (see section 5) |
| `LedgerTypeProofs` | proof of type correctness, one lemma per call |
| `LedgerReferenceProofs` | proofs about references, terms, closed routes and the resolution of receipts; then about the journal |
| `LedgerSolvencyProofs` | proofs about commitments, what covers them, the supply, and the exposure report |
| `LedgerCallProofs` | each call as equations over the integers; proofs about the floor, about receipts that can be resolved, and that the ledger implements `Escrow`, one lemma per effect |
| `LedgerHistoryProofs` | proofs about the running totals of the cells, about what the state digest sees, and of the reconciliation law when amounts wrap |
| `RegistryProofs` | proofs about names that are cut, and about what the digest of a route tells |
| `ProgramProofs` | proofs about the document and the exit code, and that the program is one of the ledger's callers |

### State and actions against the code

| `Ledger` | `PdtlLedger` |
|---|---|
| `policies`, `routes` | the arrays, as functions from the names added so far; `pdtl_find_*` is `IsPolicy`, `IsRoute` and application |
| `cells`, `cell_count` | `cells[0..cell_count-1]` |
| `receipts`, `receipt_count` | `receipts[0..receipt_count-1]` |
| `journal` | `journal[0..journal_count-1]`; `sequence` only moves together with `journal_count`, so `NextSequence` is `Len(journal) + 1` |
| `totals` | the four supply counters; the two `_after_genesis` counters never change |
| `last_error` | the code that `pdtl_set_error` stores |

A call `f(args)` is the action `F(args)`. `FError(args)` is the chain of checks
in the order of the code; the first that fails gives the error, `Reject` stores
it and changes nothing else. Otherwise the action makes the mutations in the
order of the code and ends with `AppendJournal`, which takes as many of the
call's entries as fit. `PDTL_ERR_CAPACITY` with the mutation in place is a
behaviour of the model because it is one of the code. No call passes `PDTL_OK` to
`pdtl_set_error`, so a call that succeeds leaves `last_error` alone; only
`pdtl_clear_error` stores `PDTL_OK`.

Closing a closed route is a call that succeeds and changes nothing. A settlement
is validated twice in the code (`pdtl_validate_settlement_shape`, then the checks
of `pdtl_apply_settlement`); `SettleError` is the two in sequence.

Left out of the structs, because no call reads them: the text ids, labels,
the domain name, the withdrawal delay, the nonce (an input of the receipt id)
and the stored digests of cells and entries. A digest, in `Ledger` (the route
digest that a receipt captures) as in `Digests`, is the tuple of fields that the
code hashes: different tuples are taken to have different digests. Names are
model values that fit; how longer ones are cut is the subject of `Registry`.

**Escrow and the mapping.** `Escrow` knows accounts, promises and three numbers
about the boundary; it has no names, policies, routes, closed cells, refusals,
journal or modulus. Under `Abstract` (in `LedgerRefinement`) the reserves of the
cells are the funds, the receipts the promises, `initial_supply` what was
deposited, `external_withdrawals` what left, and `UncreditedFees` what was lost.
`reserved_out` is deliberately not mapped: `Escrow` sums the pending promises, so a
commitment that the code forgets to make, keep or release shows as a step that
`Escrow` does not have. A call of the ledger is one step of `Escrow` (consolidation
is `Move`, creating a cell is `Open`) or, when refused or about names, rates and
closings only, a stutter.

**The program.** `Program` is `main` as one process. `phase` is where it is;
`todo` is the list of calls it still has to make, so that the next call is
`Head(todo)` and `Tail(todo)` its continuation. In the phase `calls` the list is
`Script(name)`, the surface followed by the scenario, and each step is the whole
action of `Ledger` that the scenario calls, with cells named by the handles that
earlier calls returned, together with what the scenario stores in its result when
the call succeeds. The first call that fails ends the list, as the early returns of
the code do. In the phase `writes` the list is `ReportCalls`, the calls of the
writer that `pdtl_print_report` makes for the ledger as it is, loops and
conditions unrolled; each step is one call of `JsonWriter`. The writer prints
tokens; the model keeps of stdout what its reader has understood so far, and
`at = "error"` is a text that no document begins with.

**Registry.** The calls that store names are reduced to what they do with names:
look up the whole text, compare, cut it (`Cut`, `pdtl_copy_string`) and store it.
Here names are texts. The remaining checks are in `Ledger` and only make the calls
refuse more. Four fields are history that the structs do not have: the text that
was given, the policy that a route was checked against, the route that a cell was
checked against, and the cell that a consolidation moved another into. `RouteDigest` is the sequence of bytes, with
the position-dependent multiplier reduced to the position modulo `Period`.

The operators whose names start with `Faulty` are not part of the model. Each is
one definition with one plausible bug (a dropped guard, a release of the wrong
cell, an append that is all or nothing); replacing the definition by it makes TLC
report the property that is listed with it in `PROJECT.json`.

## 3. Runs

The runs of the ledger use `MCLedger`, `program` uses `MCProgram` and `registry`
uses `MCRegistry`. Deadlock checking is off. In the ledger the question does not
arise: every call may be refused for ever and still be a call (`ClearError` is
always possible). The program ends by exiting, and that it does not stop before is
`AlwaysAnswers`. In `Registry` refusals are left out, so it stops when the
arrays are full and everything is merged.

| Run | Checks | Instance |
|---|---|---|
| `lifecycle` | `TypeOK`, `ReservedOutIsPending`, `CommitmentsCovered`, `SupplyAccountedFor`, `PendingResolvable`, `FloorRespected`, `NoReconciliationError`, `LedgerImplementsEscrow` | from the scenario surface, one route, three cells, two receipts; a policy name and a route name more than there are slots |
| `two_routes` | `PendingTermsCurrent`, `ClosedRouteQuiet`, `ExposureAgrees`, `ExposureWithinReserves`, `ReceiptsResolveOnce` | the treasury on a second route and policy, one receipt |
| `from_init` | `ReferencesOK`, `SupplyAccountedFor` | from the empty ledger, two policies, routes and assets, symmetric names |
| `journal` | `JournalBalancesCurrent`, `JournalTellsReceipts`, `CountersTellHistory`, `StampsAdvance`, `DigestSeesChanges` | a journal of 12 entries, five or six of them taken by the set-up, so that calls run out of room half-way; the fees go to the treasury or, after a repricing that is part of the set-up, to a cell of the route, which may also pay them; the supply is the one of the surface |
| `overflow` | `ReconcilesUpToFees` | amounts of three bits, deposits far beyond them |
| `program` | `WriterInBounds`, `WriterKnowsDocument`, `DocumentReadable`, `ExitCodeTells`, `ResultAgreesWithLedger`, `ReportAddsUp`, `TailExplains`, `AmountsAsTested`, `AlwaysAnswers` | the program from start to exit on eleven command lines: each scenario, the aliases, help, and wrong ones |
| `registry` | `FittingNamesFound`, `CopiesKeepMeaning`, `MergesKeepOwner`, `DigestTellsRoutes`, `LookupsStable` | names with room for two letters and texts up to three, with the separator of the hash among the letters |

What they show, together: from the surface the scenarios register, in every
order of calls with every combination of payer, origin, beneficiary and fee
cell, the commitments of a cell are exactly its pending receipts, they and the
minimum reserve stay covered, no pending receipt gets stuck, and the only way to
lose a unit is a fee on a route without fee cell. As far as units and promises go,
the calls do nothing that an escrow does not (`LedgerImplementsEscrow`). The
counters and the journal tell how each balance came about until the journal is
full, and the state digest notices changes even after. The program, which makes
a few of these orders, prints readable documents that add up.

### Findings

Five runs expect a violation. Each states what a document says, and TLC shows
a short sequence of calls in which the code does something else.

| Run | The document says | The code |
|---|---|---|
| `lost_fee` | supply = reserves + withdrawals, always | a fee on a route without fee cell is debited and credited to nobody; `pdtl_global_reconciliation_ok` is false from then on |
| `closed_credit` | closed cells are rejected | settlement credits a beneficiary or fee cell that was consolidated away; the units cannot leave it |
| `foreign_fee` | the amounts of a receipt are of its route's asset | `pdtl_add_route` takes a fee cell of any asset, unlike `pdtl_update_route_fee` |
| `silent_mutation` | the journal records mutations | a full journal is noticed after the mutation |
| `wrapped_fee` | fee = floor(gross × bps / 10 000) | the product is cut to 64 bits first |

The scenarios of the command line do not meet any of them (`ReportAddsUp` holds
for all). Other differences are plain from reading and have no run:

- `docs/modelo-economico.md` gives the available balance as reserve −
  reserved_out; `pdtl_cell_available` subtracts the minimum reserve as well.
- `max_exit_bps`, the withdrawal delay and `PDTL_POLICY_ALLOW_ROUTE_CLOSE` are
  stored; the budget is printed by the report, and no call reads any of the three.
- A name longer than 47 characters is stored cut and can then not be found under
  the name it was registered with; two cells of different owners whose names share
  their first 47 characters can be consolidated. `MergesKeepOwner` and
  `FittingNamesFound` say what remains true for names that fit.

### Bounds, and why they are enough

- Two receipts, three cells: every coincidence of payer, origin, beneficiary and
  fee cell happens, with two commitments on one cell or one on each of two.
  Conditions in the code compare at most two cells and one receipt at a time;
  the second receipt is for the sums.
- Amounts 1 and 2 with reserves 3 and 1, a minimum reserve of 1 and a fee of
  half: a balance can be short, exact or ample, a fee can round down to 0 or not,
  and one commitment can use what another needs. `from_init` adds zero amounts
  and a fee of the whole gross; 10001 basis points is a rate the code refuses.
- `MaxSupply` caps deposits; it is the only guard that is not in the code.
- `NoIndex`, an argument of every call, is the index that no array has.
- The capacities of the arrays are reached in the runs, and their checks decide. A
  name that is taken is refused before the array is asked for room, so `lifecycle`
  has a name more than the slots for policies and for routes; it starts with
  policies, routes and cells full and fills the receipts, and `TypeOK` has each
  within its capacity. `journal` fills the journal. Elsewhere the journal has its real
  320 entries and the runs do not look at it.
- In `journal` the rates that callers pass are refused, which keeps it small: the
  route is repriced before the run starts or not at all. The other runs reprice at any
  time, and the theorems about the journal hold for every order.
- The sum `reserved_out + min_reserve` wraps in no run: minimum reserves are 0 and 1.
  That it never wraps on a cell with commitments, whatever the minimum reserve of its
  policy, is `CoverageCorrect` (section 5).
- `AmountModulus` is 2^30 where nothing should wrap (the integers of TLC have
  32 bits) and 8 in `overflow` and `wrapped_fee`, where everything does.
- `program` has no small instance: the amounts, rates, names and capacities are
  those of the code. Only `MaxJsonDepth` is 8 and not 32, so that the
  report is shown to stay well within the arrays of the writer. The program chooses
  nothing but its command line, which is why a few thousand states are all there are.
- `registry` has `NameRoom` 2, `AssetRoom` 1 and `Period` 2. Names are compared, cut
  and concatenated; texts that are shorter than the room, fill it, and exceed it
  with equal and different endings are all the cases those operations tell apart.
  Two policies, two routes and two cells make every pair.
- In `Escrow` the amount of a `Move` ranges over all that the payer has, because
  consolidation moves whatever is there; deposits and promises range over the
  amounts that callers pass (`Units`).

**Views.** The journal, `last_error`, the history counters of a cell
(`settled_in`, `settled_out`, `withdrawn`, `sequence`) and the terms of resolved
receipts grow without bound and no call reads them, except that a full journal
changes the error code. `LiveView` leaves them out of what TLC compares, and
keeps the total of uncredited fees, which is what a resolved receipt still
means to the invariants. Two states with the same view enable the same calls
with the same effect on the view. State invariants checked under a view only
talk about what it keeps, or hold of what it drops by the same reasoning on one
step; the properties about the dropped parts (`ReceiptsResolveOnce`,
`FloorRespected`, and the steps of `LedgerImplementsEscrow`, which fix the terms of
resolved promises) are action properties, evaluated on
every step from every distinct view. The runs about the journal use
`JournalView`, which keeps entries, sequence numbers and whole receipts.
`TypeOK` and `ReferencesOK` also speak of dropped fields; both are proved
(section 5).

**Symmetry** (`from_init`): callers choose names, and names are only compared
for equality. Only invariants are checked under it.

## 4. Fairness and liveness

The library has no scheduler, no background work and no promise about what its
callers call, so `Spec` of `Ledger` has no fairness. `PendingResolvable` is the
safety counterpart of "a receipt can always be resolved": in every reachable state
the call that would resolve it is accepted.

The program is another matter. `main` is one thread; nothing it does waits for
input, a lock or another process, so it takes its next step as long as there is one:
`WF_programVars(ProgramNext)`, weak fairness of the whole next-state relation and
nothing stronger. Under it `AlwaysAnswers` says that the program reaches its exit and
stays there, and that a command line that asks for a scenario is followed by a
complete document and exit code 0.

## 5. Proofs

The theorems about the ledger are about `Spec` of `Ledger` with its constants
unconstrained but for `AmountAssumption` (moduli and scale are positive) and
`LedgerAssumption` (the argument sets have the C types, `NoIndex` is beyond every
capacity, the empty name is no name). Capacities, moduli, argument sets and the
names are arbitrary: the results hold for the ledger of the code, 40 cells, 80
receipts, 320 journal entries and 64-bit amounts, as for the instances of the runs.
Those about names are about `RegistrySpec` under `RegistryAssumption` (rooms and
period are positive, texts are sequences). Those about the program are about
`ProgramSpec`, with any command lines (`Arguments`), under these assumptions and
`WriterAssumption` (the writer has a level).

| Theorem | Module | Property | Assumes |
|---|---|---|---|
| `TypeCorrect` | `LedgerTypeProofs` | `TypeOK` | |
| `ReferencesCorrect` | `LedgerReferenceProofs` | `ReferencesOK` | |
| `TermsCorrect` | `LedgerReferenceProofs` | `PendingTermsCurrent` | |
| `ClosingCorrect` | `LedgerReferenceProofs` | `ClosedRouteQuiet` | |
| `ResolutionCorrect` | `LedgerReferenceProofs` | `ReceiptsResolveOnce` | |
| `BalancesTold` | `LedgerReferenceProofs` | `JournalBalancesCurrent` | |
| `ReceiptsTold` | `LedgerReferenceProofs` | `JournalTellsReceipts` | |
| `StampsOrder` | `LedgerReferenceProofs` | `StampsAdvance` | |
| `CommitmentsCorrect` | `LedgerSolvencyProofs` | `ReservedOutIsPending` | `SupplyFits` |
| `CoverageCorrect` | `LedgerSolvencyProofs` | `CommitmentsCovered` | `SupplyFits` |
| `SupplyCorrect` | `LedgerSolvencyProofs` | `SupplyAccountedFor` | `SupplyFits` |
| `ReconciliationNeverFails` | `LedgerSolvencyProofs` | `NoReconciliationError` | `SupplyFits` |
| `ExposureConsistent` | `LedgerSolvencyProofs` | `ExposureAgrees` | `SupplyFits` |
| `ExposureBounded` | `LedgerSolvencyProofs` | `ExposureWithinReserves` | `SupplyFits`, `WholePercents` |
| `FloorAlwaysRespected` | `LedgerCallProofs` | `FloorRespected` | `SupplyFits` |
| `ResolvableAlways` | `LedgerCallProofs` | `PendingResolvable` | `SupplyFits` |
| `EscrowImplemented` | `LedgerCallProofs` | `LedgerImplementsEscrow` | `SupplyFits` |
| `ReconciliationUpToFees` | `LedgerHistoryProofs` | `ReconcilesUpToFees` | |
| `HistoryCorrect` | `LedgerHistoryProofs` | `CountersTellHistory` | `SupplyFits`, `HistoryFits` |
| `ChangesSeen` | `LedgerHistoryProofs` | `DigestSeesChanges` | |
| `NamesAlwaysFound` | `RegistryProofs` | `FittingNamesFound` | |
| `CopiesAlwaysMean` | `RegistryProofs` | `CopiesKeepMeaning` | |
| `OwnersNeverMerge` | `RegistryProofs` | `MergesKeepOwner` | |
| `LookupsNeverMove` | `RegistryProofs` | `LookupsStable` | |
| `RoutesTold` | `RegistryProofs` | `DigestTellsRoutes` | `Period >= 2` |
| `ProgramInvariant` | `ProgramProofs` | the invariant of the next four | `MaxJsonDepth >= 3` |
| `WriterStaysInBounds` | `ProgramProofs` | `WriterInBounds` | `MaxJsonDepth >= 3` |
| `WriterKnowsWhatItWrote` | `ProgramProofs` | `WriterKnowsDocument` | `MaxJsonDepth >= 3` |
| `DocumentStaysReadable` | `ProgramProofs` | `DocumentReadable` | `MaxJsonDepth >= 3` |
| `ExitCodesTell` | `ProgramProofs` | `ExitCodeTells` | `MaxJsonDepth >= 3` |
| `ProgramCallsLedger` | `ProgramProofs` | `ProgramSpec => Spec` of `Ledger` | `ScriptArguments` |

`SupplyFits` says that the callers never deposit more than a `PdtlAmount` counts.
Nothing in the code checks it, and the run `overflow` is about ledgers where it
fails. `WholePercents` says that the scale of the rates is a multiple of 100, which
10 000 is: the health score divides the utilization by `BpsScale / 100`. `HistoryFits`
says that the journal's capacity times the largest supply is less than the modulus:
the totals a cell keeps (`settled_in`, `settled_out`, `withdrawn`) only grow, the same
units count again each time they pass, and so the supply does not bound them; but no
entry adds more than the supply, and the property speaks of a journal that has
room. With 320 entries it asks for deposits below 2^64 / 320; the run `journal`
satisfies it. `MaxJsonDepth >= 3` is what the report needs, its deepest place being
a property of an object of an array of the document; the code has 32 levels.
`ScriptArguments` says that the policies, routes, owners, rates and amounts of the
scenarios are among those that callers of `Ledger` may pass and that `MaxSupply` is
at least the 3200 they deposit; the constants of the run `program` satisfy it.

**Type correctness.** `TypeOK` is inductive as it stands; it has every array within its
capacity, the journal included. There is a lemma per
call (`IssueReceiptType`, `SettleReceiptType`, ...); `RejectType` does all
refusals, `AppendType` every ending in the journal, `CellMutations` and
`StampType` the changes of cells. The places where types depend on reasoning
are the fee, at most the gross because the rate is at most the whole
(`FeeWithinGross`, for a product that may wrap), and the indexes, which the
lookups check against the counts (`Slots`). Policies and routes are counted by their
names: that those are finitely many is part of the invariant, and a new name counts
one more (`OneNameMore`), after the call has seen that there is room.

**References.** `ReferenceInv` is `TypeOK`, the three properties about states,
and `PayersWithin`: a cell that paid a receipt is a cell of the receipt's route.
They need each other. A closed route stays quiet only if no receipt pends on it
when it closes and none is issued later; the fee of a receipt stays that of its
route only because a route with pending receipts cannot change. `PayersWithin`
is the memory that the action property `ReceiptsResolveOnce` needs, since it
speaks of the payers of receipts resolved long before. The proof first says what
any step can do to each struct: `PolicyChanges`, `RouteChanges` (`RouteStep`: a
route is added with references that exist, or changed while nothing pends on
it), `CellChanges` (`CellStep`: identities are kept, a commitment is only made on
an open route) and `ReceiptChanges` (`ReceiptStep`: issued with current terms,
or resolved once). Each comes from one lemma per call; the conjuncts of the
invariant then follow from these four facts and not from the calls.

**Sums.** `PrefixSumsProofs` proves that the loops over the arrays add slot by
slot, that changing one slot moves the total by as much (`PrefixSumUpdate`), and
that no term of a sum of naturals exceeds it. The inductions are on the least
element of a set of counterexamples.

**Solvency.** `SolvencyInv` is `ReferenceInv`, `ReservedOutIsPending`,
`CommitmentsCovered`, `SupplyAccountedFor`, and the bound on deposits. None of
the three is inductive alone. `SupplyAccountedFor` and `SupplyFits` bound the
sum of all reserves, so credits and the totals do not wrap. Debits do not wrap
because of the checks on `pdtl_cell_available`; these mean what they seem to
(`AvailableMeans`) only if `locked`, the sum of commitment and minimum reserve,
does not wrap, which `CommitmentsCovered` gives: a cell with commitments holds
both, a cell without has the minimum reserve alone to add. An origin that pays
its own receipt is checked against less, and stays covered because its
commitment falls by what it pays (`SettlementKeepsCover`). Releases do not wrap
because of `ReservedOutIsPending`: a commitment is a sum, the receipt one of its
terms. The references are needed to know that receipts and routes name cells
that exist, that the fee cell at settlement is the one in the receipt's digest
(else a lost fee would be counted wrong), and that fee and net make the gross.
Each call has a lemma (`TransferSolvent`, `SettleSolvent`, ...) that shows the
cells before they are stamped to be covered, committed and summed as they
should; `SolventStamped` does the rest.

**Exposure.** `pdtl_route_exposure` adds the commitments of a route's cells in one
loop and the gross of its pending receipts in another. By `ReservedOutIsPending`
the first is a double sum, over cells and the receipts each is the origin of; the
second sums the receipts of the route. The order of summation is changed by
induction on the receipts (each has one origin, which is a cell of the receipt's
route). That the ratio stays within the whole follows from `CommitmentsCovered`, cell
by cell.

**Calls as equations.** The mutations of a call are made one after the other on
cells that may coincide. In a solvent ledger none wraps, so a call is one equation
for the reserve and one for the commitment of every cell (`Paid`, `Held`, with
payer, beneficiary and fee cell equal or not). `NextCall` says that every step is one
of a few such effects; the rest of `LedgerCallProofs`, the refinement included, uses
nothing else of the calls. For `FloorRespected`: a cell whose reserve falls was checked
against what it had available, or is an origin that pays, whose commitment falls
by as much as its reserve. For `PendingResolvable` the invariant needs
`ClosedIdle`, that a closed cell has no commitment, since cancelling must work even
when the origin has been consolidated away; it holds because consolidation asks
for it and nothing commits a closed cell later.

**Refinement.** Under the mapping of `LedgerRefinement` each effect is one action of
`Escrow` or a stutter. The promises of a cell sum to its commitment, so what `Escrow`
calls free is what the call checked and more; the fee that no cell gets is the
growth of `lost`.

**Journal.** `Recorded(entries)` says what a call leaves for a reader: the entries
are appended as long as there is room, each changed reserve has an entry, each entry
about a reserve ends at the reserve, each changed cell is stamped with the next
sequence number, and receipts change status as an entry says. `NextRecorded` is
that every step is recorded so or changes neither cells, receipts nor journal, one
lemma per call. `JournalInv` adds to the two properties that stamps are within the
journal and that entries only speak of cells and receipts that exist: else a new
cell could be born with a history.

**Running totals.** `Tally` of a cell is its reserve with what it paid and withdrew,
less what it received. No debit, credit or withdrawal changes it, however payer,
beneficiary and fee cell coincide. A deposit raises it by its amount, and a
consolidation empties its source without counting that as paid: these two kinds of
entry are the terms of the property. `HistoryInv` says that the tally is what the
deposits of the journal less its consolidations add up to, and that no total exceeds
the supply times the entries written: so none wraps at the next call (`RoomToCount`).
`cell_consolidated` is written for source and target, and the property counts the
entry whose balance falls; the proof needs from solvency that the target's does not,
by wrapping.

**Digests.** `StateDigest` is equal before and after a step only if the arrays have the
same slots and each slot the same digest. The digests of routes, cells and receipts
cover every field the structs have in the model (`RouteFields`, `CellFields`,
`ReceiptFields`, with `TypeOK` as the invariant). Of the journal the digest only has
the length; `NextAppends` shows for every call that entries are appended and never
altered, so a journal of the same length is the same (`SameLength`).

**When amounts wrap.** `ReconcilesUpToFees` is `pdtl_global_reconciliation_ok` with
the lost fees added, modulo the modulus, and needs no bound on the supply. The
invariant is that the difference of the two sides, computed over the integers, is a
multiple of the modulus: each sum or difference that is cut moves it by a multiple, each
payment otherwise by nothing. The references are needed for the fee cell, the terms for
fee and net.

**Names.** `RegistryInv` says that an entry's name is the cut of what was given and
that what routes and cells store is the name of the entry that the call checked. A name that finds an entry
equals a text that was cut, so it fits and is not cut again when it is copied;
entries are only appended, and the lookup takes the first. Owners that fit and are
equal after the cut were equal before.

**What a route's digest tells.** The three texts of a route are fed to the hash with
a separator that may also be a letter of theirs, so it is not the letters that tell
where a text ends but the places that half of the hash adds to them (`PlacesTell`).
If the name ended earlier in one reading than in another, its separator would be a
byte at a first place of the period, the byte after it would start a text and so be at
a first place too, which leaves room for one byte only (`JustShorter`); the same then
holds for the asset, and the policy has no byte left for it. This needs that no
text is empty (`NoneEmpty`), which the checks for empty arguments give, and a period
of at least 2: with 1 the digest would not tell `|`, `||`, `|` from `||`, `|`, `|`.

**The document.** The writer checks nothing, so that its document is one is a fact
about its caller: about the list of calls that `pdtl_print_report` makes, whose length
depends on the ledger. The proof reads that list as a path through stacks of open
containers, where a container is its kind and the keys it has (`Step`): a property may
be written in an object that does not have it, an element in an array, an end where
something is open. `Runs(calls, s, t)` says that every call is allowed and that together
they lead from `s` to `t`; it is closed under concatenation and under the loops over
routes, receipts and entries (`RunsConcat`, `RunsFlatten`). From below, a
property or an object *gives* its container one key (`Gives`), the fields of a struct
*fill* an empty object (`Fills`), each with the levels it needs; `ReportRuns` adds them
up to the whole report, three levels deep, from nothing to nothing, whatever the
ledger. On the other side, `Known` ties the writer and the reader to the stack: the
depth is its length, kinds and marks are right level by level, and the reader is in
these containers with these keys, at a place where the next call may be made. One
lemma per call of the writer shows that an allowed step keeps `Known`. `ProgramInv`
is the two together: while `main` writes, the calls still to make run from the stack
of the moment, which is known, to the empty one. It also has the phases of `main`:
until the report nothing is printed, and what is in `last_error` decides where to.

**The program calls the ledger.** `Perform` names cells by roles and leaves the
arguments to the script, while `Next` of `Ledger` draws them from the argument
sets and caps deposits. `CallerInv` says what closes the gap: handles are slots
that `Ledger`'s callers may name (or `NoIndex`, before the cell exists), the list of
calls to make is the rest of the script, and what was deposited is at most what the
calls made so far pay for (`Paid`), so that the cap never excludes a deposit of the
script. That the names and amounts of all four scripts are callers' arguments is
`ScriptPlanned`. An unknown scenario, which stores `PDTL_ERR_ARGUMENT` and nothing
else, is to the ledger a refused call; capturing results and printing are stutters.
So every theorem about `Spec` above holds of the ledger that the program runs, with
the constants of the code: `ScriptArguments` and `SupplyFits` are true together, 3200
being less than 2^64.

**Only model-checked.** `ResultAgreesWithLedger`, `ReportAddsUp`, `TailExplains` and
`AmountsAsTested` are about particular amounts: that a scenario moves 700 here and 280
there, and that no call of it is refused. They have one instance, the real one, which
TLC goes through from start to exit; a proof would be the same computation step by
step. `AlwaysAnswers` is liveness: fairness and ENABLED are out of the
prover's reach. So is induction over data by the library's induction theorems, which
is why sums, names and lists of calls are handled by inductions on the least
element of a set of counterexamples. No operator is RECURSIVE. That the findings'
documents are wrong is shown by counterexamples, which need no proof.

## 6. Not modelled, and why

- JSON escapes and indentation, wording of messages and labels: output formatting.
  The report's labels, ids and digests are one `Text`.
- The mixing of the hash and its hexadecimal output: arithmetic without state. That
  it has no collisions is an assumption of `Digests` and of `RouteDigest`.
- `pdtl_make_id` and the digest of a journal entry: written and never read. Two
  receipts of the same origin and beneficiary with the same nonce have the same id;
  the ledger finds receipts by index and does not mind.
- Errors when writing to stdout: the code ignores them, and so the model's stdout
  takes everything. A full disk leaves part of a document and exit code 0.
- Arguments that are NULL where the code does not accept NULL: not a ledger
  behaviour. NULL or empty where the code checks it is `NoName`, and in the
  program the empty text.
- `tests/node` and `scripts`: not part of the program. The tests are the source of
  `AmountsAsTested`, `TailExplains` and `ExitCodeTells`.

## 7. Plan

Done: `Ledger`, its views, properties and runs; the abstract specification and its
refinement, checked and proved; the scenarios, the report, the writer and the command
line with their liveness; digests and names; the proofs of section 5, which state
every safety property of the ledger, of the digests, of the names, of the writer and
of the way the program ends that the runs check, and that the program is one of the
ledger's callers.

Left: nothing of the first plan. A change of a scenario asks for another look at
`ScriptArguments` and at the argument sets of `Program.cfg`; a change of the report
at the field lists of `Report`, from which the proofs only need that no list has a
name twice.
