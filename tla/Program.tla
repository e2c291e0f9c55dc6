------------------------------ MODULE Program -------------------------------
(***************************************************************************)
(* The command line program of src/main.c: it reads its argument, runs a   *)
(* scenario on a ledger of its own, and prints a report or an error.       *)
(***************************************************************************)
EXTENDS Report

CONSTANT Arguments      \* the command lines, without the program's own name

Running == -1           \* there is no exit code yet

VARIABLES
    argv,       \* the command line
    phase,      \* where main is: start, calls, failed, report, writes, exit
    todo,       \* the calls still to make, of the ledger or of the writer
    stderr,     \* what was printed there: nothing, usage or error
    exit_code

mainVars    == <<argv, phase, todo, stderr, exit_code>>
programVars == <<vars, scenarioVars, writerVars, mainVars>>

\* nothing reads the ledger and the result before they are initialised
ProgramInit ==
    /\ Init
    /\ handles = NoHandles
    /\ result = NoResult("")
    /\ WriterInit
    /\ argv \in Arguments
    /\ phase = "start"
    /\ todo = <<>>
    /\ stderr = "nothing"
    /\ exit_code = Running

\* always says that all went well
FaultyExit(code) == phase' = "exit" /\ exit_code' = 0

Exit(code) == phase' = "exit" /\ exit_code' = code

-----------------------------------------------------------------------------
TooManyArguments ==
    /\ phase = "start" /\ Len(argv) > 1
    /\ Exit(2)
    /\ stderr' = "usage"
    /\ UNCHANGED <<vars, scenarioVars, writerVars, argv, todo>>

AsksForHelp == Len(argv) = 1 /\ argv[1] \in {"--help", "-h"}

Help ==
    /\ phase = "start" /\ AsksForHelp
    /\ stdout' = Read(stdout, Prose)
    /\ Exit(0)
    /\ UNCHANGED <<vars, scenarioVars, json, argv, todo, stderr>>

Scenario == ScenarioName(IF argv = <<>> THEN "" ELSE argv[1])

\* pdtl_run_scenario chooses; an unknown name is an error of its own
Choose ==
    /\ phase = "start" /\ Len(argv) <= 1 /\ ~AsksForHelp
    /\ result' = NoResult(Scenario)
    /\ phase' = IF Scenario \in KnownScenarios THEN "calls" ELSE "failed"
    /\ todo' = IF Scenario \in KnownScenarios THEN Script(Scenario) ELSE <<>>
    /\ last_error' = IF Scenario \in KnownScenarios THEN last_error ELSE "PDTL_ERR_ARGUMENT"
    /\ UNCHANGED <<policies, routes, cells, cell_count, receipts, receipt_count, journal, totals,
                   handles, writerVars, argv, stderr, exit_code>>

AfterCall ==
    IF last_error' # "PDTL_OK" THEN "failed" ELSE IF Len(todo) = 1 THEN "report" ELSE "calls"

NextCall ==
    /\ phase = "calls" /\ todo # <<>>
    /\ \E call \in {Head(todo)} : Perform(call)
    /\ todo' = Tail(todo)
    /\ phase' = AfterCall
    /\ UNCHANGED <<writerVars, argv, stderr, exit_code>>

ReportError ==
    /\ phase = "failed"
    /\ stderr' = "error"
    /\ Exit(1)
    /\ UNCHANGED <<vars, scenarioVars, writerVars, argv, todo>>

\* the names of the routes that the script added
RoutesAdded ==
    LET calls == Script(Scenario)
    IN  FlattenSeq([k \in DOMAIN calls |->
           IF calls[k].op = "add_route" THEN <<calls[k].args.name>> ELSE <<>>])

BeginReport ==
    /\ phase = "report"
    /\ JsonInit
    /\ \E order \in {RoutesAdded} : todo' = ReportCalls(order)
    /\ phase' = "writes"
    /\ UNCHANGED <<vars, scenarioVars, argv, stderr, exit_code>>

NextWrite ==
    /\ phase = "writes"
    /\ \E call \in {Head(todo)} : Write(call)
    /\ todo' = Tail(todo)
    /\ IF todo' = <<>> THEN Exit(0) ELSE UNCHANGED <<phase, exit_code>>
    /\ UNCHANGED <<vars, scenarioVars, argv, stderr>>

ProgramNext ==
    TooManyArguments \/ Help \/ Choose \/ NextCall \/ ReportError \/ BeginReport \/ NextWrite

(***************************************************************************)
(* One thread that waits for nothing: it takes its next step.              *)
(***************************************************************************)
ProgramSpec == ProgramInit /\ [][ProgramNext]_programVars /\ WF_programVars(ProgramNext)

=============================================================================
