------------------------------- MODULE Ingestion -------------------------------
(***************************************************************************)
(* fraud-ingest: `load` appends a CSV to a Snowflake table chunk by chunk, *)
(* `reconcile` compares row counts afterwards.  Commands are processes     *)
(* that may overlap, fail between or inside chunks, and be run again.      *)
(***************************************************************************)
EXTENDS Naturals, FiniteSets

CONSTANTS
    Loads,      \* runs of `fraud-ingest load`
    Recs,       \* runs of `fraud-ingest reconcile`
    RowCount,   \* data rows of the CSV
    ChunkSize,  \* --chunk-size
    MaxBlank    \* bound: blank lines in the CSV

ASSUME IngestionAssumption ==
    /\ RowCount \in Nat /\ ChunkSize \in Nat \ {0} /\ MaxBlank \in Nat
    /\ IsFiniteSet(Loads)

VARIABLES
    columns,    \* how the table's columns are named: see Namings
    table,      \* how many times each row of the CSV is in the table
    load,       \* the load commands
    rec         \* the reconcile commands

ivars == <<columns, table, load, rec>>

Rows == 1..RowCount

\* The table is missing, has the CSV's own (mixed-case) column names, or has
\* them in upper case as unquoted DDL would create them.
Namings == {"no table", "as in csv", "upper"}

NextChunk(read) == {r \in Rows : read < r /\ r <= read + ChunkSize}

\* COUNT( * ): a row of the table for each time a row of the CSV is in it.
Copies(bag) == UNION {{r} \X (1..bag[r]) : r \in Rows}
Total(bag) == Cardinality(Copies(bag))

Load == [stage: {"idle", "ddl", "load", "done", "failed"},
         at: 0..RowCount,       \* rows of the CSV that were read
         loaded: 0..RowCount,   \* rows_loaded
         created: BOOLEAN]      \* did this run execute the DDL?

\* `blank` counts the blank lines of the file, `seen` is the table as COUNT(*)
\* found it.
Rec == [stage: {"idle", "counting", "MATCH", "MISMATCH", "failed"},
        source: Nat, blank: 0..MaxBlank, seen: [Rows -> Nat]]

IngTypeOK ==
    /\ columns \in Namings
    /\ table \in [Rows -> 0..Cardinality(Loads)]
    /\ load \in [Loads -> Load]
    /\ rec \in [Recs -> Rec]

NoRows == [r \in Rows |-> 0]

IngInit ==
    /\ columns \in {"no table", "upper"}
    /\ table = NoRows
    /\ load = [l \in Loads |-> [stage |-> "idle", at |-> 0, loaded |-> 0, created |-> FALSE]]
    /\ rec = [q \in Recs |-> [stage |-> "idle", source |-> 0, blank |-> 0, seen |-> NoRows]]

-----------------------------------------------------------------------------
(* fraud-ingest load *)

Becomes(l, q) == load' = [load EXCEPT ![l] = q]
Puts(rows) == table' = [r \in Rows |-> table[r] + IF r \in rows THEN 1 ELSE 0]

\* One chunk further, with n more rows counted.
ReadsOn(l, n) ==
    Becomes(l, [load[l] EXCEPT !.at = @ + Cardinality(NextChunk(load[l].at)), !.loaded = @ + n])

StartLoad(l) ==
    /\ load[l].stage = "idle"
    /\ \E stage \in {"ddl", "load"} : Becomes(l, [load[l] EXCEPT !.stage = stage])
    /\ UNCHANGED <<columns, table, rec>>

\* --create-table: CREATE TABLE IF NOT EXISTS with the header's names, quoted.
EnsureTable(l) ==
    /\ load[l].stage = "ddl"
    /\ columns' = IF columns = "no table" THEN "as in csv" ELSE columns
    /\ Becomes(l, [load[l] EXCEPT !.stage = "load", !.created = TRUE])
    /\ UNCHANGED <<table, rec>>

TruncateFirst(l) ==         \* mutant: write_pandas with overwrite=True for every chunk
    /\ load[l].stage = "load" /\ load[l].at < RowCount
    /\ columns = "upper"
    /\ \E rows \in SUBSET NextChunk(load[l].at) :
          /\ table' = [r \in Rows |-> IF r \in rows THEN 1 ELSE 0]
          /\ ReadsOn(l, Cardinality(rows))
    /\ UNCHANGED <<columns, rec>>

CountFullChunks(l) ==       \* mutant: rows_loaded += chunk_size
    /\ load[l].stage = "load" /\ load[l].at < RowCount
    /\ columns = "upper"
    /\ \E rows \in SUBSET NextChunk(load[l].at) :
          /\ Puts(rows)
          /\ ReadsOn(l, ChunkSize)
    /\ UNCHANGED <<columns, rec>>

\* One chunk, its columns upper-cased, reported as a success: n_rows is what
\* COPY INTO put in the table, which may be less than the chunk.
WriteChunk(l) ==
    /\ load[l].stage = "load" /\ load[l].at < RowCount
    /\ columns = "upper"
    /\ \E rows \in SUBSET NextChunk(load[l].at) :
          /\ Puts(rows)
          /\ ReadsOn(l, Cardinality(rows))
    /\ UNCHANGED <<columns, rec>>

\* success is False, write_pandas raises or the process dies: the rows of the
\* chunk may be in the table or not, and the earlier chunks stay.
ChunkFails(l) ==
    /\ load[l].stage \in {"ddl", "load"}
    /\ \E rows \in SUBSET IF load[l].stage = "load" /\ columns = "upper"
                          THEN NextChunk(load[l].at) ELSE {} :
          Puts(rows)
    /\ Becomes(l, [load[l] EXCEPT !.stage = "failed"])
    /\ UNCHANGED <<columns, rec>>

FinishLoad(l) ==
    /\ load[l].stage = "load" /\ load[l].at = RowCount
    /\ Becomes(l, [load[l] EXCEPT !.stage = "done"])
    /\ UNCHANGED <<columns, table, rec>>

(* fraud-ingest reconcile *)

CountedRows(q, header) ==
    /\ rec[q].stage = "idle"
    /\ \E n \in 0..MaxBlank :
          rec' = [rec EXCEPT ![q] = [@ EXCEPT !.stage = "counting", !.blank = n,
                                              !.source = RowCount + n + header]]
    /\ UNCHANGED <<columns, table, load>>

CountHeaderToo(q) == CountedRows(q, 1)  \* mutant: without the "- 1"

\* csv.reader yields a row for a blank line too, which pandas skips.
CountCsvRows(q) == CountedRows(q, 0)

CountTableRows(q) ==
    /\ rec[q].stage = "counting"
    /\ LET verdict == IF columns = "no table" THEN "failed"
                      ELSE IF rec[q].source = Total(table) THEN "MATCH" ELSE "MISMATCH"
       IN  rec' = [rec EXCEPT ![q] = [@ EXCEPT !.seen = table, !.stage = verdict]]
    /\ UNCHANGED <<columns, table, load>>

-----------------------------------------------------------------------------
LoadsAreOver == \A l \in Loads : load[l].stage \in {"done", "failed"}

CommandsOver ==
    /\ LoadsAreOver
    /\ \A q \in Recs : rec[q].stage \notin {"idle", "counting"}
    /\ UNCHANGED ivars

IngNext ==
    \/ \E l \in Loads :
          StartLoad(l) \/ EnsureTable(l) \/ WriteChunk(l) \/ ChunkFails(l) \/ FinishLoad(l)
    \/ \E q \in Recs : CountCsvRows(q) \/ CountTableRows(q)
    \/ CommandsOver

IngSpec == IngInit /\ [][IngNext]_ivars

-----------------------------------------------------------------------------
(* Properties *)

Full(bag) == \A r \in Rows : bag[r] >= 1
Once(bag) == \A r \in Rows : bag[r] <= 1

(***************************************************************************)
(* "loaded n rows" with n the row count of the file is a proof that every  *)
(* row is in the table, whatever other loads did and however they failed.  *)
(***************************************************************************)
FullCountMeansFullTable ==
    \A l \in Loads : load[l].loaded = RowCount => Full(table)

(***************************************************************************)
(* "Catches the two failure modes bulk loads actually have" (reconcile.py) *)
(* when one of them happened alone.  MATCH is never said of a table that   *)
(* lacks rows and has none twice, whatever blank lines the file has; and   *)
(* in a file without them, duplicates are a mismatch, and a table that     *)
(* holds each row once is not.                                             *)
(***************************************************************************)
CatchesEitherFailure ==
    \A q \in Recs : LET r == rec[q] IN
        /\ r.stage = "MATCH" /\ Once(r.seen) => Full(r.seen)
        /\ r.blank = 0 =>
              /\ r.stage = "MATCH" /\ Full(r.seen) => Once(r.seen)
              /\ r.stage = "MISMATCH" => ~(Full(r.seen) /\ Once(r.seen))

(***************************************************************************)
(* "infer schema and CREATE TABLE IF NOT EXISTS first" (cli.py): the table *)
(* a load has just made sure of takes the chunks of that load.             *)
(***************************************************************************)
EnsuredTableFits ==
    \A l \in Loads : load[l].stage = "load" /\ load[l].created => columns = "upper"
=============================================================================
