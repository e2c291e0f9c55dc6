----------------------------- MODULE JsonReader -----------------------------
(***************************************************************************)
(* The other end of the program's stdout: a reader of JSON that takes what *)
(* the writer of src/pdtl_json.c prints token by token, as JSON.parse does *)
(* in tests/helpers/parallax-cli.js.  White space is left out, and a text  *)
(* is one token.                                                           *)
(***************************************************************************)
EXTENDS Naturals, SequencesExt

Punctuation(text) == [type |-> text]
Key(name)         == [type |-> "key", name |-> name]
Literal(value)    == [type |-> "literal", value |-> value]
Prose             == [type |-> "prose"]     \* anything that is not JSON

(***************************************************************************)
(* A reader knows the containers it is in, from the outside in, where it   *)
(* is in the innermost one, and every literal read so far by its path.     *)
(***************************************************************************)
Reader == [open |-> <<>>, at |-> "start", name |-> "", said |-> <<>>]

Depth(r)  == Len(r.open)
In(r)     == IF r.open = <<>> THEN "top" ELSE Last(r.open).kind

WantsKey(r)   == In(r) = "o" /\ r.at \in {"first", "next"}
WantsValue(r) == r.at \in {"start", "named"} \/ (In(r) = "a" /\ r.at \in {"first", "next"})
MayClose(r, kind) == In(r) = kind /\ r.at \in {"first", "after"}

Path(r) == CASE In(r) = "top" -> <<>>
             [] In(r) = "o"   -> Append(Last(r.open).path, r.name)
             [] In(r) = "a"   -> Append(Last(r.open).path, Last(r.open).length)

\* one value more has begun in the innermost container
Counted(open) ==
    IF open = <<>> THEN open ELSE Append(Front(open), [Last(open) EXCEPT !.length = @ + 1])

After(open) == IF open = <<>> THEN "end" ELSE "after"

Entered(r, kind) ==
    [r EXCEPT !.open = Append(Counted(@), [kind |-> kind, path |-> Path(r), keys |-> {},
                                           length |-> 0]),
              !.at = "first"]

Left(r) == [r EXCEPT !.open = Front(@), !.at = After(Front(r.open))]

Named(r, name) ==
    LET object == [Last(r.open) EXCEPT !.keys = @ \cup {name}]
    IN  [r EXCEPT !.open = Append(Front(@), object), !.name = name, !.at = "named"]

Told(r, value) ==
    [r EXCEPT !.said = (Path(r) :> value) @@ @, !.open = Counted(@), !.at = After(r.open)]

(***************************************************************************)
(* One token.  A key may not appear twice in an object, which JSON.parse   *)
(* would let pass: the last one would hide the others.                     *)
(***************************************************************************)
Read(r, token) ==
    CASE token.type = "{" /\ WantsValue(r) -> Entered(r, "o")
      [] token.type = "[" /\ WantsValue(r) -> Entered(r, "a")
      [] token.type = "literal" /\ WantsValue(r) -> Told(r, token.value)
      [] token.type = "key" /\ WantsKey(r) /\ token.name \notin Last(r.open).keys ->
            Named(r, token.name)
      [] token.type = "," /\ r.at = "after" -> [r EXCEPT !.at = "next"]
      [] token.type = "}" /\ MayClose(r, "o") -> Left(r)
      [] token.type = "]" /\ MayClose(r, "a") -> Left(r)
      [] OTHER -> [r EXCEPT !.at = "error"]

=============================================================================
