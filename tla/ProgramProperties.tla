-------------------------- MODULE ProgramProperties -------------------------
(***************************************************************************)
(* What the program promises to whoever runs it: the tests of tests/node   *)
(* read the exit code, stderr, and the document on stdout.                 *)
(***************************************************************************)
EXTENDS Program

Done     == phase = "exit"

\* no argument, the name of a scenario or another name of flow
AsksForScenario ==
    \/ argv = <<>>
    \/ Len(argv) = 1 /\ argv[1] \in KnownScenarios \cup {"", "routed"}

Reported == Done /\ exit_code = 0 /\ ~AsksForHelp

-----------------------------------------------------------------------------
(* How it ends.                                                            *)

(***************************************************************************)
(* The exit code tells what happened (tests/node/cli-contract.test.js): 0  *)
(* is help or a whole document, 1 is an error of the ledger and 2 a wrong  *)
(* command line, both with a message and nothing on stdout.                *)
(***************************************************************************)
ExitCodeTells ==
    /\ Reported => stdout.at = "end" /\ stderr = "nothing"
    /\ exit_code \in {1, 2} => stdout = Reader /\ stderr # "nothing"
    /\ exit_code = 1 <=> Done /\ last_error # "PDTL_OK"

(***************************************************************************)
(* The program always ends, and not before it has answered: asked for one  *)
(* of the four scenarios or an alias, it ends with the whole document and  *)
(* code 0, so that none of the scenario's calls is ever refused.           *)
(***************************************************************************)
AlwaysAnswers ==
    /\ <>[]Done
    /\ (phase = "start" /\ AsksForScenario) ~> (Reported /\ stdout.at = "end")

(***************************************************************************)
(* At no point has the program printed something that is not the beginning *)
(* of a document: brackets match, there is a comma exactly between         *)
(* siblings, and no object has a key twice.  Only help is prose.           *)
(***************************************************************************)
DocumentReadable == stdout.at = "error" => AsksForHelp

-----------------------------------------------------------------------------
(* What it says.                                                           *)

Says(path) == stdout.said[path]

SumOver(S, path(_)) == MapThenSumSet(LAMBDA x : Says(path(x)), S)

Listed(list) == {p[2] : p \in {p \in DOMAIN stdout.said : p[1] = list}}

(***************************************************************************)
(* A reader of the document alone can reconcile it, as the tests do for    *)
(* every scenario: the cells it prints have all the reserves, the reserves *)
(* and the withdrawals make the supply, the withdrawals are those of the   *)
(* cells and of the operator, and the commitments are the pending gross.   *)
(***************************************************************************)
ReportAddsUp ==
    Reported =>
        LET total(name)    == Says(<<"totals", name>>)
            ofCells(field) == SumOver(Roles, LAMBDA r : <<"cells", r, field>>)
            ofRoutes(field) == SumOver(Listed("routes"), LAMBDA k : <<"routes", k, field>>)
        IN  /\ total("cell_reserves") + total("external_withdrawals") = total("initial_supply")
            /\ total("global_ok") /\ Says(<<"conservation_ok">>)
            /\ total("cell_reserves") = ofCells("reserve")
            /\ total("cell_reserves") = ofRoutes("reserves")
            /\ total("external_withdrawals") = ofCells("withdrawn")
            /\ total("external_withdrawals") = Says(<<"settlement", "withdrawn">>)
            /\ total("reserved_out") = ofRoutes("pending_gross")
            /\ ofRoutes("settled_gross") + ofRoutes("cancelled_gross")
                  = SumOver(Listed("receipts"), LAMBDA k : <<"receipts", k, "gross">>)

(***************************************************************************)
(* The scenarios copy into the result, call by call, what they think they  *)
(* did; the ledger agrees: what was withdrawn, cancelled and closed, the   *)
(* rate in force, and that settling a commitment leaves the available      *)
(* balance alone while cancelling it gives back the gross.                 *)
(***************************************************************************)
ResultAgreesWithLedger ==
    phase \in {"report", "writes", "exit"} /\ result.scenario \in KnownScenarios =>
        LET blue == RouteExposure("blue-route")
        IN  /\ result.withdrawn = totals.external_withdrawals
            /\ result.cancelled_gross = blue.cancelled_gross
            /\ result.settlement_accepted <=> blue.settled_receipts > 0
            /\ result.route_closed <=> routes["blue-route"].closed
            /\ result.fee_update_applied =>
                  result.fee_after_bps = routes["blue-route"].fee_bps
            /\ result.available_after = result.available_before + result.cancelled_gross

(***************************************************************************)
(* The tail of the journal explains the final state                        *)
(* (tests/node/invariant-shape.test.js): it is the end of the journal      *)
(* without a gap, and its last entry about the reserve of a cell leaves    *)
(* the reserve that the document prints for the cell.                      *)
(***************************************************************************)
ReserveEvents == {"genesis_deposit", "cell_transfer", "cell_consolidated", "receipt_settled",
                  "withdrawal"}

TailExplains ==
    Reported =>
        LET tail        == Listed("journal_tail")
            entry(k, f) == Says(<<"journal_tail", k, f>>)
            about(r)    == {k \in tail : /\ entry(k, "kind") \in ReserveEvents
                                         /\ entry(k, "cell") = Says(<<"cells", r, "index">>)}
        IN  /\ Cardinality(tail) = 8
            /\ \A k \in tail : entry(k, "sequence") + Cardinality(tail)
                                  = Says(<<"surface", "journal_entries">>) + k + 1
            /\ \A r \in Roles : about(r) # {} =>
                  entry(Max(about(r)), "after_balance") = Says(<<"cells", r, "reserve">>)

(***************************************************************************)
(* The amounts that the tests expect of each scenario                      *)
(* (tests/node/operations.test.js, scenario-output.test.js).               *)
(***************************************************************************)
Expected(name) ==
    CASE name = "snapshot" ->
            {<<<<"totals", "cell_reserves">>, 3200>>, <<<<"routes", 1, "available">>, 3140>>,
             <<<<"routes", 1, "max_exit_budget">>, 2880>>}
      [] name = "flow" ->
            {<<<<"receipts", 0, "net">>, 686>>, <<<<"cells", "origin", "reserve">>, 220>>,
             <<<<"cells", "treasury", "reserve">>, 14>>,
             <<<<"totals", "cell_reserves">>, 2920>>}
      [] name = "cancel" ->
            {<<<<"settlement", "available_before">>, 680>>,
             <<<<"settlement", "available_after">>, 980>>,
             <<<<"cells", "origin", "reserve">>, 820>>}
      [] name = "fee-rotation" ->
            {<<<<"receipts", 0, "fee">>, 28>>, <<<<"cells", "sponsor", "reserve">>, 1200>>,
             <<<<"cells", "beneficiary", "reserve">>, 772>>}

AmountsAsTested ==
    Reported => \A amount \in Expected(Scenario) : Says(amount[1]) = amount[2]

=============================================================================
