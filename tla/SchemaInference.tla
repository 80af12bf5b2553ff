---------------------------- MODULE SchemaInference ----------------------------
(***************************************************************************)
(* infer_schema of fraud-ingest: the column types of CREATE TABLE, widened *)
(* row by row over a sample of the CSV, and then overridden by name.       *)
(***************************************************************************)
EXTENDS Naturals, Sequences

CONSTANTS
    Columns,    \* the header
    Overrides,  \* KNOWN_OVERRIDES: a function from names to types
    SampleRows, \* sample_rows
    Files       \* data rows of the files that may be given

Kinds == {"blank", "int", "decimal", "text", "absent"}  \* what a cell's text looks like
Inferable == {"INTEGER", "FLOAT", "VARCHAR"}
SqlTypes == Inferable \cup {"BOOLEAN"}

ASSUME SchemaAssumption ==
    /\ SampleRows \in Nat
    /\ \A f \in Files : f \in Seq([Columns -> Kinds])
    /\ \A name \in DOMAIN Overrides : Overrides[name] \in SqlTypes

VARIABLES
    file,       \* the rows DictReader yields; a short row has absent cells
    at,         \* rows sampled so far
    types,      \* a type per column
    stage       \* "sampling", "inferred", or "failed"

svars == <<file, at, types, stage>>

SchemaTypeOK ==
    /\ file \in Files
    /\ at \in 0..Len(file) /\ at <= SampleRows
    /\ types \in [Columns -> SqlTypes]
    /\ stage \in {"sampling", "inferred", "failed"}

SchemaInit ==
    /\ file \in Files
    /\ at = 0
    /\ types = [c \in Columns |-> "INTEGER"]
    /\ stage = "sampling"

-----------------------------------------------------------------------------
\* int() first, then float(), then text; a blank is tested for before them.
Classify(kind) ==
    CASE kind = "int" -> "INTEGER" [] kind = "decimal" -> "FLOAT" [] OTHER -> "VARCHAR"

Rank == [INTEGER |-> 0, FLOAT |-> 1, VARCHAR |-> 2]

LastWins(a, b) == b     \* mutant: no comparison of ranks

Widen(a, b) == IF Rank[a] >= Rank[b] THEN a ELSE b

Sampled == IF Len(file) <= SampleRows THEN Len(file) ELSE SampleRows
Crashes(row) == \E c \in Columns : row[c] = "absent"

SampleRow ==
    /\ stage = "sampling" /\ at < Sampled
    /\ ~Crashes(file[at + 1])
    /\ types' = [c \in Columns |-> Widen(types[c], Classify(file[at + 1][c]))]
    /\ at' = at + 1
    /\ UNCHANGED <<file, stage>>

\* DictReader gives None for a cell the row does not have, and int(None) raises a
\* TypeError, which _classify does not catch.
ShortRow ==
    /\ stage = "sampling" /\ at < Sampled
    /\ Crashes(file[at + 1])
    /\ stage' = "failed"
    /\ UNCHANGED <<file, at, types>>

\* The sample is over; names with an override get that type.
Override ==
    /\ stage = "sampling" /\ at = Sampled
    /\ types' = [c \in Columns |-> IF c \in DOMAIN Overrides THEN Overrides[c] ELSE types[c]]
    /\ stage' = "inferred"
    /\ UNCHANGED <<file, at>>

SchemaOver == stage # "sampling" /\ UNCHANGED svars

SchemaNext == SampleRow \/ ShortRow \/ Override \/ SchemaOver

SchemaSpec == SchemaInit /\ [][SchemaNext]_svars

-----------------------------------------------------------------------------
(* Properties *)

\* The kinds of cell that column c has in the first n rows.
Seen(c, n) == {file[i][c] : i \in 1..n}

\* The widest of the types that the cells are classified as.  A blank is classified
\* as text, so one blank cell makes VARCHAR of a column of numbers.
TypeOf(kinds) ==
    IF "text" \in kinds \/ "blank" \in kinds THEN "VARCHAR"
    ELSE IF "decimal" \in kinds THEN "FLOAT" ELSE "INTEGER"

(***************************************************************************)
(* "Sample the first N rows, classify each column as INTEGER / FLOAT /     *)
(* VARCHAR" (schema.py): a column without an override has the widest type  *)
(* that any of its sampled cells is classified as, blanks as text,         *)
(* whatever order they come in and whatever the file holds after the       *)
(* sample; and there is a schema at all exactly when no sampled row is     *)
(* short.                                                                  *)
(***************************************************************************)
InferredFromSample ==
    /\ stage = "inferred" =>
          \A c \in Columns \ DOMAIN Overrides : types[c] = TypeOf(Seen(c, Sampled))
    /\ stage # "sampling" =>
          (stage = "failed" <=> \E c \in Columns : "absent" \in Seen(c, Sampled))
=============================================================================
