----------------------------- MODULE JsonWriter -----------------------------
(***************************************************************************)
(* struct PdtlJson and the calls of src/pdtl_json.c.  The writer checks    *)
(* nothing: that its commas and brackets make a document, and that its     *)
(* depth is an index of its arrays, is up to who calls it.  Indentation    *)
(* and the escapes of texts are left out.                                  *)
(***************************************************************************)
EXTENDS JsonReader, Integers

CONSTANT MaxJsonDepth       \* PDTL_MAX_JSON_DEPTH

ASSUME WriterAssumption == MaxJsonDepth \in Nat \ {0}

VARIABLES
    json,       \* the depth, and for each level its kind and whether it is empty
    stdout      \* what has been printed, as the reader of it understands it

writerVars == <<json, stdout>>

Levels == 0..(MaxJsonDepth - 1)

\* memset in pdtl_json_init
NoJson == [depth |-> 0, kind |-> [d \in Levels |-> "none"], first |-> [d \in Levels |-> FALSE]]

WriterInit == json = NoJson /\ stdout = Reader

JsonInit == json' = NoJson /\ UNCHANGED stdout

-----------------------------------------------------------------------------
(* The steps that several calls share.  As in Ledger, the definitions      *)
(* named Faulty... are not part of the model.                              *)

\* the level keeps its mark
FaultyTaken(w) == w

\* the level has an element from now on
Taken(w) == [w EXCEPT !.first[w.depth - 1] = FALSE]

\* a comma before the first element too
FaultySeparated(w, r) == Read(r, Punctuation(","))

Separated(w, r) == IF w.first[w.depth - 1] THEN r ELSE Read(r, Punctuation(","))

Pushed(w, kind) ==
    [w EXCEPT !.kind[w.depth] = kind, !.first[w.depth] = TRUE, !.depth = @ + 1]

\* forgets to come back
FaultyPopped(w) == w

Popped(w) == [w EXCEPT !.depth = @ - 1]

-----------------------------------------------------------------------------
BeginObject ==
    /\ json' = Pushed(json, "o")
    /\ stdout' = Read(stdout, Punctuation("{"))

PropObjectBegin(name) ==
    /\ json' = Pushed(Taken(json), "o")
    /\ stdout' = Read(Read(Separated(json, stdout), Key(name)), Punctuation("{"))

PropArrayBegin(name) ==
    /\ json' = Pushed(Taken(json), "a")
    /\ stdout' = Read(Read(Separated(json, stdout), Key(name)), Punctuation("["))

ArrayObjectBegin ==
    /\ json' = Pushed(Taken(json), "o")
    /\ stdout' = Read(Separated(json, stdout), Punctuation("{"))

\* pdtl_json_prop_string, _u64, _bool and _null
Prop(name, value) ==
    /\ json' = Taken(json)
    /\ stdout' = Read(Read(Separated(json, stdout), Key(name)), Literal(value))

\* ends nothing when nothing is open
End(bracket) ==
    /\ json' = IF json.depth <= 0 THEN json ELSE Popped(json)
    /\ stdout' = IF json.depth <= 0 THEN stdout ELSE Read(stdout, Punctuation(bracket))

EndObject == End("}")
EndArray  == End("]")

-----------------------------------------------------------------------------
(***************************************************************************)
(* The depth, which nothing checks, is an index of the arrays of the       *)
(* struct whenever a call uses it.  (That depth - 1 is used only when      *)
(* something is open shows in the document, see DocumentReadable.)         *)
(***************************************************************************)
WriterInBounds ==
    json \in [depth: 0..MaxJsonDepth, kind: [Levels -> {"none", "o", "a"}],
              first: [Levels -> BOOLEAN]]

(***************************************************************************)
(* The writer's few bits are right about the document: its depth is the    *)
(* number of containers still open, level by level of the kind it thinks,  *)
(* and marked as empty exactly when they are.                              *)
(***************************************************************************)
WriterKnowsDocument ==
    stdout.at # "error" =>
        /\ json.depth = Depth(stdout)
        /\ \A d \in 0..(json.depth - 1) :
              LET container == stdout.open[d + 1]
              IN  /\ json.kind[d] = container.kind
                  /\ json.first[d] <=> container.length = 0

=============================================================================
