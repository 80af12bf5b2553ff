---------------------------- MODULE IngestionProofs ----------------------------
(***************************************************************************)
(* Proofs about fraud-ingest, for any file, chunk size and number of       *)
(* overlapping, failing and repeated loads.  What a load printed speaks of *)
(* the table only together with how far it has read: as long as it has     *)
(* counted every row it read, those rows are all in the table (IngInv).    *)
(*                                                                         *)
(* About one run of the command, for any settings, header, overrides and   *)
(* sample size: row by row, widening keeps each type equal to what the     *)
(* cells seen so far call for, so that infer_schema depends on the set of  *)
(* cells in the sample only (SchemaInv); and the connection is open        *)
(* exactly inside the try (CommandInv).                                    *)
(***************************************************************************)
EXTENDS Ingestion, IngestCommand, FiniteSetTheorems, TLAPS

-----------------------------------------------------------------------------
(* Loads and reconciliations of one table *)

\* A load counts no row it has not read, and misses none if it counted as many.
Counted(l) ==
    /\ load[l].loaded <= load[l].at
    /\ load[l].loaded = load[l].at => \A r \in Rows : r <= load[l].at => table[r] >= 1

\* The loads that may have put row r in the table.
Writers(r) == {l \in Loads : r <= load[l].at \/ load[l].stage = "failed"}

IngTypes ==
    /\ columns \in Namings
    /\ table \in [Rows -> Nat]
    /\ load \in [Loads -> Load]
    /\ rec \in [Recs -> Rec]

IngInv ==
    /\ IngTypes
    /\ \A l \in Loads : Counted(l)
    /\ \A r \in Rows : table[r] <= Cardinality(Writers(r))

-----------------------------------------------------------------------------
\* The next chunk is an interval that begins after the rows that were read.
LEMMA ChunkIsInterval ==
    ASSUME NEW read \in 0..RowCount
    PROVE  /\ IsFiniteSet(NextChunk(read))
           /\ Cardinality(NextChunk(read)) \in Nat
           /\ read + Cardinality(NextChunk(read)) \in 0..RowCount
           /\ \A r \in Rows :
                 r <= read + Cardinality(NextChunk(read)) <=> r <= read \/ r \in NextChunk(read)
           /\ NextChunk(read) \subseteq Rows
           /\ \A r \in NextChunk(read) : ~(r <= read)
  <1> USE IngestionAssumption
  <1> DEFINE last == IF read + ChunkSize <= RowCount THEN read + ChunkSize ELSE RowCount
  <1>1. last \in Nat /\ read + 1 \in Int /\ read <= last /\ last <= RowCount
    OBVIOUS
  <1>2. NextChunk(read) = (read + 1)..last
    BY DEF NextChunk, Rows
  <1>3. \A r \in Rows : r \in NextChunk(read) <=> ~(r <= read) /\ r <= last
    BY <1>1, <1>2 DEF Rows
  <1> HIDE DEF last
  <1>4. read + 1 \in Int /\ last \in Int
    BY <1>1
  <1>5. IsFiniteSet(NextChunk(read)) /\ Cardinality(NextChunk(read)) = last - read
    <2>1. /\ IsFiniteSet((read + 1)..last)
          /\ Cardinality((read + 1)..last) = IF read + 1 > last THEN 0 ELSE last - (read + 1) + 1
      BY <1>4, FS_Interval
    <2> QED
      BY <1>1, <1>2, <2>1
  <1>6. NextChunk(read) \subseteq Rows
    BY DEF NextChunk
  <1>7. Cardinality(NextChunk(read)) \in Nat /\ read + Cardinality(NextChunk(read)) = last
    BY <1>1, <1>5
  <1>8. \A r \in Rows : r <= last <=> r <= read \/ r \in NextChunk(read)
    BY <1>1, <1>3 DEF Rows
  <1> QED
    BY <1>1, <1>3, <1>5, <1>6, <1>7, <1>8

\* The loads that may have written a row are finitely many.
LEMMA WritersFinite ==
    ASSUME NEW r \in Rows
    PROVE  /\ IsFiniteSet(Writers(r)) /\ Cardinality(Writers(r)) \in Nat
           /\ Cardinality(Writers(r)) <= Cardinality(Loads)
  <1>1. Writers(r) \in SUBSET Loads
    BY DEF Writers
  <1> QED
    BY <1>1, IngestionAssumption, FS_Subset, FS_CardinalityType

\* One more element at most.
LEMMA GrowsByOne ==
    ASSUME NEW S, IsFiniteSet(S), NEW x, NEW T, T = S \/ T = S \cup {x}
    PROVE  Cardinality(T) \in Nat /\ Cardinality(S) \in Nat /\ Cardinality(S) <= Cardinality(T)
  <1>1. Cardinality(S) \in Nat
    BY FS_CardinalityType
  <1>2. Cardinality(S \cup {x}) = IF x \in S THEN Cardinality(S) ELSE Cardinality(S) + 1
    BY FS_AddElement
  <1>3. CASE T = S
    BY <1>1, <1>3
  <1>4. CASE T = S \cup {x}
    BY <1>1, <1>2, <1>4
  <1> QED
    BY <1>3, <1>4

\* What both kinds of chunk do: a load reads on to `upto`, counts `more` rows and
\* puts `rows`, which no step of its own had put there, in the table.
LEMMA ChunkStep ==
    ASSUME IngInv, NEW l \in Loads, NEW rows \in SUBSET Rows,
           NEW q \in Load, load' = [load EXCEPT ![l] = q],
           load[l].stage # "failed",
           table' = [r \in Rows |-> table[r] + IF r \in rows THEN 1 ELSE 0],
           \A r \in rows : ~(r <= load[l].at) /\ (r <= q.at \/ q.stage = "failed"),
           load[l].at <= q.at
    PROVE  /\ table' \in [Rows -> Nat]
           /\ \A r \in Rows : table'[r] >= table[r] /\ table'[r] <= Cardinality(Writers(r)')
  <1>1. table \in [Rows -> Nat] /\ load \in [Loads -> Load]
    BY DEF IngInv, IngTypes
  <1>2. \A r \in Rows : table[r] \in Nat /\ table'[r] = table[r] + IF r \in rows THEN 1 ELSE 0
    BY <1>1
  <1>3. table' \in [Rows -> Nat]
    BY <1>1
  <1>4. load'[l] = q /\ \A k \in Loads : k # l => load'[k] = load[k]
    BY <1>1
  <1>5. load[l].at \in Nat /\ q.at \in Nat
    BY <1>1, IngestionAssumption DEF Load
  <1>6. ASSUME NEW r \in Rows PROVE table'[r] <= Cardinality(Writers(r)')
    <2>1. IsFiniteSet(Writers(r)) /\ Cardinality(Writers(r)) \in Nat
      BY WritersFinite
    <2>2. table[r] <= Cardinality(Writers(r))
      BY DEF IngInv
    <2>3. r \in Nat
      BY IngestionAssumption DEF Rows
    <2>4. Writers(r)' = {k \in Loads : r <= load'[k].at \/ load'[k].stage = "failed"}
      BY DEF Writers
    <2>5. CASE r \in rows
      <3>1. l \notin Writers(r)
        BY <2>5 DEF Writers
      <3>2. Writers(r)' = Writers(r) \cup {l}
        BY <2>4, <2>5, <1>4 DEF Writers
      <3>3. Cardinality(Writers(r)') = Cardinality(Writers(r)) + 1
        BY <2>1, <3>1, <3>2, FS_AddElement
      <3> QED
        BY <1>2, <2>1, <2>2, <2>5, <3>3
    <2>6. CASE r \notin rows
      <3>1. table'[r] = table[r]
        BY <1>2, <2>6
      <3>2. Writers(r)' = Writers(r) \/ Writers(r)' = Writers(r) \cup {l}
        BY <2>3, <2>4, <1>4, <1>5 DEF Writers
      <3>3. Cardinality(Writers(r)') \in Nat /\ Cardinality(Writers(r)) <= Cardinality(Writers(r)')
        BY <2>1, <3>2, GrowsByOne
      <3> QED
        BY <1>2, <2>1, <2>2, <3>1, <3>3
    <2> QED
      BY <2>5, <2>6
  <1> QED
    BY <1>2, <1>3, <1>6

-----------------------------------------------------------------------------
(* Steps *)

\* A load that reads on keeps the counts of every load.
LEMMA CountedKept ==
    ASSUME IngInv, NEW l \in Loads, NEW q, load' = [load EXCEPT ![l] = q],
           q.loaded = load[l].loaded, q.at = load[l].at,
           \A r \in Rows : table[r] \in Nat /\ table'[r] \in Nat /\ table'[r] >= table[r]
    PROVE  \A k \in Loads : Counted(k)'
  <1> SUFFICES ASSUME NEW k \in Loads PROVE Counted(k)'
    OBVIOUS
  <1>1. load'[k].loaded = load[k].loaded /\ load'[k].at = load[k].at
    BY DEF IngInv, IngTypes
  <1>2. Counted(k)
    BY DEF IngInv
  <1> QED
    BY <1>1, <1>2 DEF Counted

\* A step that leaves loads and table alone.
LEMMA Untouched ==
    ASSUME IngInv, UNCHANGED <<load, table>>
    PROVE  /\ \A k \in Loads : Counted(k)'
           /\ \A r \in Rows : table'[r] <= Cardinality(Writers(r)')
  <1>1. \A k \in Loads : Counted(k)' <=> Counted(k)
    BY DEF Counted
  <1>2. \A r \in Rows : Writers(r)' = Writers(r)
    BY DEF Writers
  <1> QED
    BY <1>1, <1>2 DEF IngInv

\* A load whose stage changes, with no row written.
LEMMA StageStep ==
    ASSUME IngInv, NEW l \in Loads, NEW q \in Load, Becomes(l, q), UNCHANGED <<table, rec>>,
           columns' \in Namings,
           q.loaded = load[l].loaded, q.at = load[l].at, load[l].stage # "failed"
    PROVE  IngInv'
  <1>1. load' = [load EXCEPT ![l] = q] /\ load' \in [Loads -> Load] /\ table \in [Rows -> Nat]
    BY DEF Becomes, IngInv, IngTypes
  <1>2. \A r \in Rows : table[r] \in Nat /\ table'[r] = table[r]
    BY <1>1
  <1>7. \A r \in Rows : table[r] \in Nat /\ table'[r] \in Nat /\ table'[r] >= table[r]
    BY <1>2
  <1>3. \A k \in Loads : Counted(k)'
    BY <1>1, <1>7, CountedKept
  <1>4. ASSUME NEW r \in Rows PROVE table'[r] <= Cardinality(Writers(r)')
    <2>1. Writers(r)' = {k \in Loads : r <= load'[k].at \/ load'[k].stage = "failed"}
      BY DEF Writers
    <2>2. load'[l] = q /\ \A k \in Loads : k # l => load'[k] = load[k]
      BY <1>1 DEF IngInv, IngTypes
    <2>3. Writers(r)' = Writers(r) \/ Writers(r)' = Writers(r) \cup {l}
      BY <2>1, <2>2 DEF Writers
    <2>4. IsFiniteSet(Writers(r))
      BY WritersFinite
    <2>5. Cardinality(Writers(r)') \in Nat /\ Cardinality(Writers(r)) \in Nat
          /\ Cardinality(Writers(r)) <= Cardinality(Writers(r)')
      BY <2>3, <2>4, GrowsByOne
    <2>6. table[r] <= Cardinality(Writers(r))
      BY DEF IngInv
    <2> QED
      BY <1>2, <2>5, <2>6
  <1>5. IngTypes'
    BY <1>1 DEF IngInv, IngTypes
  <1> QED
    BY <1>3, <1>4, <1>5 DEF IngInv

LEMMA WriteChunkKeeps ==
    ASSUME IngInv, NEW l \in Loads, WriteChunk(l)
    PROVE  IngInv'
  <1> DEFINE chunk == NextChunk(load[l].at)
  <1>1. load \in [Loads -> Load] /\ load[l] \in Load /\ table \in [Rows -> Nat]
    BY DEF IngInv, IngTypes
  <1>2. load[l].at \in 0..RowCount /\ load[l].loaded \in 0..RowCount
    BY <1>1 DEF Load
  <1>3. /\ IsFiniteSet(chunk) /\ Cardinality(chunk) \in Nat /\ chunk \subseteq Rows
        /\ load[l].at + Cardinality(chunk) \in 0..RowCount
        /\ \A r \in Rows :
              r <= load[l].at + Cardinality(chunk) <=> r <= load[l].at \/ r \in chunk
        /\ \A r \in chunk : ~(r <= load[l].at)
    BY <1>2, ChunkIsInterval
  <1>4. PICK rows \in SUBSET chunk : Puts(rows) /\ ReadsOn(l, Cardinality(rows))
    BY DEF WriteChunk
  <1>5. /\ Cardinality(rows) \in Nat /\ Cardinality(rows) <= Cardinality(chunk)
        /\ Cardinality(rows) = Cardinality(chunk) => rows = chunk
    BY <1>3, FS_Subset, FS_CardinalityType
  <1> DEFINE q == [load[l] EXCEPT !.at = @ + Cardinality(chunk), !.loaded = @ + Cardinality(rows)]
  <1>6. load' = [load EXCEPT ![l] = q]
    BY <1>4 DEF ReadsOn, Becomes
  <1>7. Counted(l)
    BY DEF IngInv
  <1>8. q.at = load[l].at + Cardinality(chunk) /\ q.loaded = load[l].loaded + Cardinality(rows)
    BY <1>1 DEF Load
  <1>9. q.loaded \in 0..RowCount /\ q.loaded <= q.at
    BY <1>2, <1>3, <1>5, <1>7, <1>8, IngestionAssumption DEF Counted
  <1>10. q \in Load
    BY <1>1, <1>3, <1>8, <1>9 DEF Load
  <1>11. table' = [r \in Rows |-> table[r] + IF r \in rows THEN 1 ELSE 0]
    BY <1>4 DEF Puts
  <1> HIDE DEF q
  <1>12. /\ table' \in [Rows -> Nat]
         /\ \A r \in Rows : table'[r] >= table[r] /\ table'[r] <= Cardinality(Writers(r)')
    <2>1. rows \in SUBSET Rows /\ load[l].stage # "failed"
      BY <1>3 DEF WriteChunk
    <2>2. \A r \in rows : ~(r <= load[l].at) /\ (r <= q.at \/ q.stage = "failed")
      BY <1>3, <1>8
    <2>3. load[l].at <= q.at
      BY <1>2, <1>3, <1>8, IngestionAssumption
    <2> QED
      BY <2>1, <2>2, <2>3, <1>6, <1>10, <1>11, ChunkStep
  <1>13. ASSUME NEW k \in Loads PROVE Counted(k)'
    <2>1. CASE k # l
      <3>1. load'[k] = load[k] /\ Counted(k)
        BY <1>1, <1>6, <2>1 DEF IngInv
      <3>2. \A r \in Rows : table[r] \in Nat /\ table'[r] \in Nat /\ table'[r] >= table[r]
        BY <1>1, <1>12
      <3> QED
        BY <3>1, <3>2 DEF Counted
    <2>2. CASE k = l
      <3>1. load'[k] = q
        BY <1>1, <1>6, <2>2
      <3>2. ASSUME q.loaded = q.at, NEW r \in Rows, r <= q.at PROVE table'[r] >= 1
        <4>1. load[l].loaded = load[l].at /\ rows = chunk
          BY <3>2, <1>2, <1>3, <1>5, <1>7, <1>8, IngestionAssumption DEF Counted
        <4>2. table[r] \in Nat /\ table'[r] = table[r] + IF r \in rows THEN 1 ELSE 0
          BY <1>1, <1>11
        <4>3. CASE r \in chunk
          BY <4>1, <4>2, <4>3
        <4>4. CASE r <= load[l].at
          BY <4>1, <4>2, <4>4, <1>7 DEF Counted
        <4> QED
          BY <4>3, <4>4, <1>3, <1>8, <3>2
      <3> QED
        BY <3>1, <3>2, <1>9 DEF Counted
    <2> QED
      BY <2>1, <2>2
  <1>14. IngTypes'
    BY <1>1, <1>6, <1>10, <1>12 DEF WriteChunk, IngInv, IngTypes
  <1> QED
    BY <1>12, <1>13, <1>14 DEF IngInv

LEMMA ChunkFailsKeeps ==
    ASSUME IngInv, NEW l \in Loads, ChunkFails(l)
    PROVE  IngInv'
  <1> DEFINE q == [load[l] EXCEPT !.stage = "failed"]
  <1>1. load \in [Loads -> Load] /\ load[l] \in Load /\ table \in [Rows -> Nat]
    BY DEF IngInv, IngTypes
  <1>2. load[l].at \in 0..RowCount
    BY <1>1 DEF Load
  <1>3. /\ NextChunk(load[l].at) \subseteq Rows
        /\ \A r \in NextChunk(load[l].at) : ~(r <= load[l].at)
    BY <1>2, ChunkIsInterval
  <1>4. PICK rows \in SUBSET NextChunk(load[l].at) : Puts(rows)
    BY DEF ChunkFails
  <1>5. q \in Load /\ q.stage = "failed" /\ q.at = load[l].at /\ q.loaded = load[l].loaded
    BY <1>1 DEF Load
  <1>6. load' = [load EXCEPT ![l] = q]
    BY DEF ChunkFails, Becomes
  <1>7. table' = [r \in Rows |-> table[r] + IF r \in rows THEN 1 ELSE 0]
    BY <1>4 DEF Puts
  <1> HIDE DEF q
  <1>8. /\ table' \in [Rows -> Nat]
        /\ \A r \in Rows : table'[r] >= table[r] /\ table'[r] <= Cardinality(Writers(r)')
    <2>1. rows \in SUBSET Rows /\ load[l].stage # "failed"
      BY <1>3 DEF ChunkFails
    <2>2. load[l].at <= q.at
      BY <1>2, <1>5, IngestionAssumption
    <2> QED
      BY <2>1, <2>2, <1>3, <1>5, <1>6, <1>7, ChunkStep
  <1>9. \A k \in Loads : Counted(k)'
    BY <1>1, <1>5, <1>6, <1>8, CountedKept
  <1>10. IngTypes'
    BY <1>1, <1>5, <1>6, <1>8 DEF ChunkFails, IngInv, IngTypes
  <1> QED
    BY <1>8, <1>9, <1>10 DEF IngInv

LEMMA ReconcileKeeps ==
    ASSUME IngInv, NEW q \in Recs, CountCsvRows(q) \/ CountTableRows(q)
    PROVE  IngInv'
  <1>1. rec \in [Recs -> Rec] /\ rec[q] \in Rec /\ table \in [Rows -> Nat]
    BY DEF IngInv, IngTypes
  <1>2. ASSUME NEW n \in 0..MaxBlank
        PROVE  [rec[q] EXCEPT !.stage = "counting", !.blank = n, !.source = RowCount + n + 0] \in Rec
    <2>1. RowCount + n + 0 \in Nat
      BY IngestionAssumption
    <2>2. ASSUME NEW k \in Nat
          PROVE  [rec[q] EXCEPT !.stage = "counting", !.blank = n, !.source = k] \in Rec
      BY <1>1 DEF Rec
    <2> QED
      BY <2>1, <2>2
  <1>3. ASSUME NEW verdict \in {"MATCH", "MISMATCH", "failed"}
        PROVE  [rec[q] EXCEPT !.seen = table, !.stage = verdict] \in Rec
    BY <1>1 DEF Rec
  <1>4. rec' \in [Recs -> Rec]
    BY <1>1, <1>2, <1>3 DEF CountCsvRows, CountedRows, CountTableRows
  <1>5. UNCHANGED <<columns, table, load>>
    BY DEF CountCsvRows, CountedRows, CountTableRows
  <1>6. IngTypes'
    BY <1>4, <1>5 DEF IngInv, IngTypes
  <1> QED
    BY <1>5, <1>6, Untouched DEF IngInv

LEMMA IngStep == IngInv /\ [IngNext]_ivars => IngInv'
  <1> SUFFICES ASSUME IngInv, [IngNext]_ivars PROVE IngInv'
    OBVIOUS
  <1>1. load \in [Loads -> Load]
    BY DEF IngInv, IngTypes
  <1>2. ASSUME NEW l \in Loads, StartLoad(l) PROVE IngInv'
    <2>1. PICK next \in {"ddl", "load"} : Becomes(l, [load[l] EXCEPT !.stage = next])
      BY <1>2 DEF StartLoad
    <2>2. /\ [load[l] EXCEPT !.stage = next] \in Load
          /\ [load[l] EXCEPT !.stage = next].loaded = load[l].loaded
          /\ [load[l] EXCEPT !.stage = next].at = load[l].at
      BY <1>1 DEF Load
    <2>3. UNCHANGED <<columns, table, rec>> /\ load[l].stage # "failed"
      BY <1>2 DEF StartLoad
    <2> QED
      BY <2>1, <2>2, <2>3, StageStep DEF IngInv, IngTypes
  <1>3. ASSUME NEW l \in Loads, EnsureTable(l) PROVE IngInv'
    <2>1. /\ [load[l] EXCEPT !.stage = "load", !.created = TRUE] \in Load
          /\ [load[l] EXCEPT !.stage = "load", !.created = TRUE].loaded = load[l].loaded
          /\ [load[l] EXCEPT !.stage = "load", !.created = TRUE].at = load[l].at
      BY <1>1 DEF Load
    <2>2. columns' \in Namings
      BY <1>3 DEF EnsureTable, Namings, IngInv, IngTypes
    <2>3. /\ UNCHANGED <<table, rec>> /\ load[l].stage # "failed"
          /\ Becomes(l, [load[l] EXCEPT !.stage = "load", !.created = TRUE])
      BY <1>3 DEF EnsureTable
    <2> QED
      BY <2>1, <2>2, <2>3, StageStep
  <1>4. ASSUME NEW l \in Loads, FinishLoad(l) PROVE IngInv'
    <2>1. /\ [load[l] EXCEPT !.stage = "done"] \in Load
          /\ [load[l] EXCEPT !.stage = "done"].loaded = load[l].loaded
          /\ [load[l] EXCEPT !.stage = "done"].at = load[l].at
      BY <1>1 DEF Load
    <2>2. /\ UNCHANGED <<columns, table, rec>> /\ load[l].stage # "failed"
          /\ Becomes(l, [load[l] EXCEPT !.stage = "done"])
      BY <1>4 DEF FinishLoad
    <2> QED
      BY <2>1, <2>2, StageStep DEF IngInv, IngTypes
  <1>5. CASE UNCHANGED ivars
    <2>1. UNCHANGED <<load, table>> /\ IngTypes'
      BY <1>5 DEF ivars, IngInv, IngTypes
    <2> QED
      BY <2>1, Untouched DEF IngInv
  <1>6. CASE CommandsOver
    BY <1>5, <1>6 DEF CommandsOver
  <1> QED
    BY <1>2, <1>3, <1>4, <1>5, <1>6, WriteChunkKeeps, ChunkFailsKeeps, ReconcileKeeps DEF IngNext

LEMMA IngStart == IngInit => IngInv
  <1> SUFFICES ASSUME IngInit PROVE IngInv
    OBVIOUS
  <1>1. NoRows \in [Rows -> Nat] /\ \A r \in Rows : NoRows[r] = 0
    BY DEF NoRows
  <1>2. [stage |-> "idle", at |-> 0, loaded |-> 0, created |-> FALSE] \in Load
    BY IngestionAssumption DEF Load
  <1>3. [stage |-> "idle", source |-> 0, blank |-> 0, seen |-> NoRows] \in Rec
    BY <1>1, IngestionAssumption DEF Rec
  <1>4. IngTypes
    <2>1. columns \in Namings /\ table \in [Rows -> Nat]
      BY <1>1 DEF IngInit, Namings
    <2>2. load \in [Loads -> Load]
      BY <1>2 DEF IngInit
    <2>3. rec \in [Recs -> Rec]
      BY <1>3 DEF IngInit
    <2> QED
      BY <2>1, <2>2, <2>3 DEF IngTypes
  <1>5. ASSUME NEW l \in Loads PROVE Counted(l)
    <2>1. load[l].at = 0 /\ load[l].loaded = 0
      BY DEF IngInit
    <2>2. \A r \in Rows : ~(r <= 0)
      BY IngestionAssumption DEF Rows
    <2> QED
      BY <2>1, <2>2 DEF Counted
  <1>6. ASSUME NEW r \in Rows PROVE table[r] <= Cardinality(Writers(r))
    <2>1. table[r] = 0
      BY <1>1 DEF IngInit
    <2>2. Cardinality(Writers(r)) \in Nat
      BY WritersFinite
    <2> QED
      BY <2>1, <2>2
  <1> QED
    BY <1>4, <1>5, <1>6 DEF IngInv

-----------------------------------------------------------------------------
(***************************************************************************)
(* The invariant of fraud-ingest's commands (load_csv, reconcile).         *)
(***************************************************************************)
THEOREM IngInvariance == IngSpec => []IngInv
  BY IngStart, IngStep, PTL DEF IngSpec

(***************************************************************************)
(* Types, and with them: each load puts a row of the file in the table at  *)
(* most once (load_csv reads every chunk once).                            *)
(***************************************************************************)
THEOREM EachLoadAppendsOnce == IngSpec => []IngTypeOK
  <1>1. IngInv => IngTypeOK
    <2> SUFFICES ASSUME IngInv PROVE table \in [Rows -> 0..Cardinality(Loads)]
      BY DEF IngInv, IngTypes, IngTypeOK
    <2>1. Cardinality(Loads) \in Nat
      BY IngestionAssumption, FS_CardinalityType
    <2>2. ASSUME NEW r \in Rows PROVE table[r] \in 0..Cardinality(Loads)
      <3>1. table[r] \in Nat /\ table[r] <= Cardinality(Writers(r))
        BY DEF IngInv, IngTypes
      <3> QED
        BY <2>1, <3>1, WritersFinite
    <2> QED
      BY <2>2 DEF IngInv, IngTypes
  <1> QED
    BY <1>1, IngInvariance, PTL

(***************************************************************************)
(* A load that counted as many rows as the file has found or put all of    *)
(* them in the table, whatever other loads did (load_csv's rows_loaded).   *)
(***************************************************************************)
THEOREM FullCounts == IngSpec => []FullCountMeansFullTable
  <1>1. IngInv => FullCountMeansFullTable
    <2> SUFFICES ASSUME IngInv, NEW l \in Loads, load[l].loaded = RowCount PROVE Full(table)
      BY DEF FullCountMeansFullTable
    <2>1. load[l].at \in 0..RowCount /\ Counted(l)
      BY DEF IngInv, IngTypes, Load
    <2>2. load[l].at = RowCount
      BY <2>1, IngestionAssumption DEF Counted
    <2> QED
      BY <2>1, <2>2, IngestionAssumption DEF Counted, Full, Rows
  <1> QED
    BY <1>1, IngInvariance, PTL

-----------------------------------------------------------------------------
(* What the two counts can tell *)

\* The table with each row once.
OneEach == Rows \X {1}

LEMMA OneEachCount == IsFiniteSet(OneEach) /\ Cardinality(OneEach) = RowCount
  <1>1. IsFiniteSet({1}) /\ Cardinality({1}) = 1
    BY FS_Singleton
  <1>2. RowCount \in Nat
    BY IngestionAssumption
  <1>3. IsFiniteSet(1..RowCount) /\ Cardinality(1..RowCount) = IF 1 > RowCount THEN 0 ELSE RowCount - 1 + 1
    BY <1>2, FS_Interval
  <1>4. IsFiniteSet(Rows) /\ Cardinality(Rows) = RowCount
    BY <1>2, <1>3 DEF Rows
  <1>5. IsFiniteSet(OneEach) /\ Cardinality(OneEach) = Cardinality(Rows) * Cardinality({1})
    BY <1>1, <1>4, FS_Product DEF OneEach
  <1> QED
    BY <1>1, <1>2, <1>4, <1>5

LEMMA CopiesOf ==
    ASSUME NEW bag \in [Rows -> Nat]
    PROVE  /\ \A r \in Rows, i \in Nat : <<r, i>> \in Copies(bag) <=> 1 <= i /\ i <= bag[r]
           /\ \A c \in Copies(bag) : c \in Rows \X Nat
  BY DEF Copies

LEMMA CopiesFinite ==
    ASSUME NEW n \in Nat, NEW bag \in [Rows -> Nat], \A r \in Rows : bag[r] <= n
    PROVE  IsFiniteSet(Copies(bag)) /\ Total(bag) \in Nat
  <1>1. IsFiniteSet(Rows) /\ IsFiniteSet(1..n)
    BY IngestionAssumption, FS_Interval DEF Rows
  <1>2. IsFiniteSet(Rows \X (1..n))
    BY <1>1, FS_Product
  <1>3. Copies(bag) \in SUBSET (Rows \X (1..n))
    BY DEF Copies
  <1> QED
    BY <1>2, <1>3, FS_Subset, FS_CardinalityType DEF Total

\* A table that is no larger than the file and has nothing twice, or that is as
\* large and lacks nothing, is the file.
LEMMA CountsAndCopies ==
    ASSUME NEW n \in Nat, NEW bag \in [Rows -> Nat], \A r \in Rows : bag[r] <= n
    PROVE  /\ Once(bag) => Total(bag) <= RowCount
           /\ Once(bag) /\ Total(bag) = RowCount => Full(bag)
           /\ Full(bag) /\ Total(bag) = RowCount => Once(bag)
           /\ Full(bag) /\ Once(bag) => Total(bag) = RowCount
  <1>1. /\ IsFiniteSet(Copies(bag)) /\ Total(bag) = Cardinality(Copies(bag))
        /\ IsFiniteSet(OneEach) /\ Cardinality(OneEach) = RowCount
    BY CopiesFinite, OneEachCount DEF Total
  <1>2. \A r \in Rows, i \in Nat : <<r, i>> \in Copies(bag) <=> 1 <= i /\ i <= bag[r]
    BY CopiesOf
  <1>3. \A c \in Copies(bag) \cup OneEach : \E r \in Rows, i \in Nat : c = <<r, i>>
    BY CopiesOf DEF OneEach
  <1>4. Once(bag) <=> Copies(bag) \subseteq OneEach
    <2>1. ASSUME Once(bag), NEW c \in Copies(bag) PROVE c \in OneEach
      <3>1. PICK r \in Rows, i \in Nat : c = <<r, i>>
        BY <1>3
      <3>2. <<r, i>> \in Copies(bag)
        BY <2>1, <3>1
      <3>3. bag[r] \in Nat /\ bag[r] <= 1 /\ 1 <= i /\ i <= bag[r]
        BY <1>2, <2>1, <3>2 DEF Once
      <3>4. i = 1
        BY <3>3
      <3> QED
        BY <3>1, <3>4 DEF OneEach
    <2>2. ASSUME Copies(bag) \subseteq OneEach, NEW r \in Rows PROVE bag[r] <= 1
      <3>1. bag[r] \in Nat
        OBVIOUS
      <3>2. CASE bag[r] = 0
        BY <3>2
      <3>3. CASE bag[r] >= 1
        <4>1. <<r, bag[r]>> \in Copies(bag)
          BY <1>2, <3>1, <3>3
        <4>2. <<r, bag[r]>> \in OneEach
          BY <2>2, <4>1
        <4> QED
          BY <4>2 DEF OneEach
      <3> QED
        BY <3>1, <3>2, <3>3
    <2> QED
      BY <2>1, <2>2 DEF Once
  <1>5. Full(bag) <=> OneEach \subseteq Copies(bag)
    <2>1. \A r \in Rows : bag[r] \in Nat /\ (<<r, 1>> \in Copies(bag) <=> bag[r] >= 1)
      BY <1>2
    <2>2. \A c : c \in OneEach <=> \E r \in Rows : c = <<r, 1>>
      BY DEF OneEach
    <2> QED
      BY <2>1, <2>2 DEF Full
  <1>6. Copies(bag) \subseteq OneEach =>
            /\ Total(bag) <= RowCount
            /\ Total(bag) = RowCount => Copies(bag) = OneEach
    BY <1>1, FS_Subset
  <1>7. OneEach \subseteq Copies(bag) /\ Total(bag) = RowCount => Copies(bag) = OneEach
    BY <1>1, FS_Subset
  <1> QED
    BY <1>1, <1>4, <1>5, <1>6, <1>7

\* A reconciliation that has counted the file remembers its rows and blank lines;
\* its verdict compares them with the table as it found it.
Reconciled ==
    \A q \in Recs :
        /\ rec[q].stage # "idle" => rec[q].source = RowCount + rec[q].blank
        /\ rec[q].stage \in {"MATCH", "MISMATCH"} =>
              (rec[q].stage = "MATCH" <=> rec[q].source = Total(rec[q].seen))
        /\ \A r \in Rows : rec[q].seen[r] <= Cardinality(Loads)

LEMMA ReconciledStep == IngInv /\ Reconciled /\ [IngNext]_ivars => Reconciled'
  <1> SUFFICES ASSUME IngInv, Reconciled, [IngNext]_ivars PROVE Reconciled'
    OBVIOUS
  <1>1. rec \in [Recs -> Rec]
    BY DEF IngInv, IngTypes
  <1>2. CASE UNCHANGED rec
    BY <1>2 DEF Reconciled
  <1>3. ASSUME NEW q \in Recs, CountCsvRows(q) PROVE Reconciled'
    <2>1. PICK n \in 0..MaxBlank :
              rec' = [rec EXCEPT ![q] = [rec[q] EXCEPT !.stage = "counting", !.blank = n,
                                                       !.source = RowCount + n + 0]]
      BY <1>3 DEF CountCsvRows, CountedRows
    <2> DEFINE counted == [rec[q] EXCEPT !.stage = "counting", !.blank = n, !.source = RowCount + n + 0]
    <2>2. /\ counted.stage = "counting" /\ counted.seen = rec[q].seen
          /\ counted.source = RowCount + counted.blank
      BY <1>1, IngestionAssumption DEF Rec
    <2>3. rec' = [rec EXCEPT ![q] = counted]
      BY <2>1
    <2> HIDE DEF counted
    <2>4. \A p \in Recs : rec'[p] = IF p = q THEN counted ELSE rec[p]
      BY <1>1, <2>3
    <2> QED
      BY <2>2, <2>4 DEF Reconciled
  <1>4. ASSUME NEW q \in Recs, CountTableRows(q) PROVE Reconciled'
    <2> DEFINE verdict == IF columns = "no table" THEN "failed"
                          ELSE IF rec[q].source = Total(table) THEN "MATCH" ELSE "MISMATCH"
               judged == [rec[q] EXCEPT !.seen = table, !.stage = verdict]
    <2>1. rec' = [rec EXCEPT ![q] = judged] /\ rec[q].stage = "counting"
      BY <1>4 DEF CountTableRows
    <2>2. /\ judged.stage = verdict /\ judged.seen = table
          /\ judged.source = rec[q].source /\ judged.blank = rec[q].blank
      BY <1>1 DEF Rec
    <2>3. \A r \in Rows : table[r] <= Cardinality(Loads)
      <3>1. \A r \in Rows : /\ table[r] \in Nat /\ table[r] <= Cardinality(Writers(r))
                            /\ Cardinality(Writers(r)) \in Nat
                            /\ Cardinality(Writers(r)) <= Cardinality(Loads)
        BY WritersFinite DEF IngInv, IngTypes
      <3>2. Cardinality(Loads) \in Nat
        BY IngestionAssumption, FS_CardinalityType
      <3> QED
        BY <3>1, <3>2
    <2>4. verdict \in {"MATCH", "MISMATCH"} => (verdict = "MATCH" <=> rec[q].source = Total(table))
      OBVIOUS
    <2>5. rec[q].source = RowCount + rec[q].blank
      BY <2>1 DEF Reconciled
    <2> HIDE DEF judged, verdict
    <2>6. \A p \in Recs : rec'[p] = IF p = q THEN judged ELSE rec[p]
      BY <1>1, <2>1
    <2> QED
      BY <2>2, <2>3, <2>4, <2>5, <2>6 DEF Reconciled
  <1>5. ASSUME NEW l \in Loads,
               StartLoad(l) \/ EnsureTable(l) \/ WriteChunk(l) \/ ChunkFails(l) \/ FinishLoad(l)
        PROVE  UNCHANGED rec
    BY <1>5 DEF StartLoad, EnsureTable, WriteChunk, ChunkFails, FinishLoad
  <1> QED
    BY <1>2, <1>3, <1>4, <1>5 DEF IngNext, CommandsOver, ivars

LEMMA ReconciledStart == IngInit => Reconciled
  <1> SUFFICES ASSUME IngInit PROVE Reconciled
    OBVIOUS
  <1>1. \A q \in Recs : rec[q].stage = "idle" /\ rec[q].seen = NoRows
    BY DEF IngInit
  <1>2. \A r \in Rows : NoRows[r] = 0
    BY DEF NoRows
  <1>3. Cardinality(Loads) \in Nat
    BY IngestionAssumption, FS_CardinalityType
  <1> QED
    BY <1>1, <1>2, <1>3 DEF Reconciled

(***************************************************************************)
(* reconcile catches either failure of a bulk load when it happened alone, *)
(* for any file, any number of loads and any table they can leave.         *)
(***************************************************************************)
THEOREM CatchesLossOrDuplicates == IngSpec => []CatchesEitherFailure
  <1>1. IngInv /\ Reconciled => CatchesEitherFailure
    <2> SUFFICES ASSUME IngInv, Reconciled, NEW q \in Recs
                 PROVE  LET r == rec[q] IN
                        /\ r.stage = "MATCH" /\ Once(r.seen) => Full(r.seen)
                        /\ r.blank = 0 =>
                              /\ r.stage = "MATCH" /\ Full(r.seen) => Once(r.seen)
                              /\ r.stage = "MISMATCH" => ~(Full(r.seen) /\ Once(r.seen))
      BY DEF CatchesEitherFailure
    <2> DEFINE seen == rec[q].seen
    <2>1. seen \in [Rows -> Nat] /\ rec[q].blank \in Nat /\ RowCount \in Nat
      BY IngestionAssumption DEF IngInv, IngTypes, Rec
    <2>2. \A r \in Rows : seen[r] <= Cardinality(Loads)
      BY DEF Reconciled
    <2>3. Cardinality(Loads) \in Nat
      BY IngestionAssumption, FS_CardinalityType
    <2>4. rec[q].stage \in {"MATCH", "MISMATCH"} =>
              (rec[q].stage = "MATCH" <=> Total(seen) = RowCount + rec[q].blank)
      BY DEF Reconciled
    <2> HIDE DEF seen
    <2>5. /\ Total(seen) \in Nat
          /\ Once(seen) => Total(seen) <= RowCount
          /\ Once(seen) /\ Total(seen) = RowCount => Full(seen)
          /\ Full(seen) /\ Total(seen) = RowCount => Once(seen)
          /\ Full(seen) /\ Once(seen) => Total(seen) = RowCount
      BY <2>1, <2>2, <2>3, CountsAndCopies, CopiesFinite
    <2>6. /\ rec[q].stage = "MATCH" /\ Once(seen) => Full(seen)
          /\ rec[q].blank = 0 =>
                /\ rec[q].stage = "MATCH" /\ Full(seen) => Once(seen)
                /\ rec[q].stage = "MISMATCH" => ~(Full(seen) /\ Once(seen))
      BY <2>1, <2>4, <2>5
    <2> QED
      BY <2>6 DEF seen
  <1>2. IngSpec => []Reconciled
    BY IngInvariance, ReconciledStart, ReconciledStep, PTL DEF IngSpec
  <1> QED
    BY <1>1, <1>2, IngInvariance, PTL

-----------------------------------------------------------------------------
(* One run of the command: its schema *)

SchemaInv ==
    /\ SchemaTypeOK
    /\ stage = "sampling" => \A c \in Columns : types[c] = TypeOf(Seen(c, at)) /\ "absent" \notin Seen(c, at)
    /\ InferredFromSample

-----------------------------------------------------------------------------
\* One more cell widens the type by just as much as it must.
LEMMA WidenAddsACell ==
    ASSUME NEW K \in SUBSET Kinds, NEW kind \in Kinds \ {"absent"}
    PROVE  Widen(TypeOf(K), Classify(kind)) = TypeOf(K \cup {kind})
  <1>1. Rank["INTEGER"] = 0 /\ Rank["FLOAT"] = 1 /\ Rank["VARCHAR"] = 2
    BY DEF Rank
  <1>2. CASE kind = "int"
    BY <1>1, <1>2 DEF TypeOf, Widen, Classify
  <1>3. CASE kind = "decimal"
    BY <1>1, <1>3 DEF TypeOf, Widen, Classify
  <1>4. CASE kind \in {"text", "blank"}
    BY <1>1, <1>4 DEF TypeOf, Widen, Classify
  <1> QED
    BY <1>2, <1>3, <1>4 DEF Kinds

LEMMA ClassifyTypes == \A kind \in Kinds : Classify(kind) \in Inferable
  BY DEF Kinds, Classify, Inferable

LEMMA TypeOfTypes == \A K : TypeOf(K) \in Inferable
  BY DEF TypeOf, Inferable

LEMMA SampledLength ==
    ASSUME SchemaTypeOK
    PROVE  /\ file \in Seq([Columns -> Kinds]) /\ Len(file) \in Nat /\ at \in Nat
           /\ Sampled \in Nat /\ Sampled <= Len(file) /\ Sampled <= SampleRows /\ at <= Sampled
  <1>1. file \in Seq([Columns -> Kinds])
    BY SchemaAssumption DEF SchemaTypeOK
  <1>2. Len(file) \in Nat
    BY <1>1
  <1> QED
    BY <1>1, <1>2, SchemaAssumption DEF SchemaTypeOK, Sampled

-----------------------------------------------------------------------------
LEMMA SchemaStart == SchemaInit => SchemaInv
  <1> SUFFICES ASSUME SchemaInit PROVE SchemaInv
    OBVIOUS
  <1>1. file \in Seq([Columns -> Kinds]) /\ Len(file) \in Nat
    BY SchemaAssumption DEF SchemaInit
  <1>2. SchemaTypeOK
    BY <1>1, SchemaAssumption DEF SchemaInit, SchemaTypeOK, SqlTypes, Inferable
  <1>3. \A c \in Columns : Seen(c, at) = {}
    <2>1. 1..at = {}
      BY DEF SchemaInit
    <2> QED
      BY <2>1, Zenon DEF Seen
  <1>4. \A c \in Columns : types[c] = TypeOf(Seen(c, at)) /\ "absent" \notin Seen(c, at)
    BY <1>3 DEF SchemaInit, TypeOf
  <1> QED
    BY <1>2, <1>4 DEF SchemaInit, SchemaInv, InferredFromSample

LEMMA SampleRowKeeps == SchemaInv /\ SampleRow => SchemaInv'
  <1> SUFFICES ASSUME SchemaInv, SampleRow PROVE SchemaInv'
    OBVIOUS
  <1> DEFINE row == file[at + 1]
  <1>1. SchemaTypeOK
    BY DEF SchemaInv
  <1>2. /\ file \in Seq([Columns -> Kinds]) /\ Len(file) \in Nat /\ at \in Nat
        /\ Sampled \in Nat /\ Sampled <= Len(file) /\ Sampled <= SampleRows /\ at <= Sampled
    BY <1>1, SampledLength
  <1>3. /\ stage = "sampling" /\ at < Sampled /\ ~Crashes(row)
        /\ types' = [c \in Columns |-> Widen(types[c], Classify(row[c]))]
        /\ at' = at + 1 /\ file' = file /\ stage' = stage
    BY DEF SampleRow
  <1>4. row \in [Columns -> Kinds]
    BY <1>2, <1>3
  <1>5. \A c \in Columns : row[c] \in Kinds \ {"absent"}
    BY <1>3, <1>4 DEF Crashes
  <1>6. \A c \in Columns : Seen(c, at + 1) = Seen(c, at) \cup {row[c]}
    <2>1. 1..(at + 1) = (1..at) \cup {at + 1}
      BY <1>2
    <2> QED
      BY <2>1 DEF Seen
  <1>7. \A c \in Columns : Seen(c, at) \in SUBSET Kinds
    <2> SUFFICES ASSUME NEW c \in Columns, NEW i \in 1..at PROVE file[i][c] \in Kinds
      BY DEF Seen
    <2>1. i \in 1..Len(file)
      BY <1>2
    <2>2. file[i] \in [Columns -> Kinds]
      BY <1>2, <2>1
    <2> QED
      BY <2>2
  <1>8. \A c \in Columns : types[c] = TypeOf(Seen(c, at)) /\ "absent" \notin Seen(c, at)
    BY <1>3 DEF SchemaInv
  <1> HIDE DEF row
  <1>9. ASSUME NEW c \in Columns
        PROVE  types'[c] = TypeOf(Seen(c, at + 1)) /\ "absent" \notin Seen(c, at + 1)
    <2>1. types'[c] = Widen(TypeOf(Seen(c, at)), Classify(row[c]))
      BY <1>3, <1>8
    <2>2. Widen(TypeOf(Seen(c, at)), Classify(row[c])) = TypeOf(Seen(c, at) \cup {row[c]})
      BY <1>5, <1>7, WidenAddsACell
    <2> QED
      BY <2>1, <2>2, <1>5, <1>6, <1>8
  <1>10. types' \in [Columns -> SqlTypes]
    BY <1>3, <1>9, TypeOfTypes DEF SqlTypes
  <1>11. SchemaTypeOK'
    BY <1>1, <1>2, <1>3, <1>10, SchemaAssumption DEF SchemaTypeOK
  <1>12. \A c \in Columns : Seen(c, at)' = Seen(c, at + 1)
    BY <1>3 DEF Seen
  <1> QED
    BY <1>3, <1>9, <1>11, <1>12 DEF SchemaInv, InferredFromSample

LEMMA ShortRowKeeps == SchemaInv /\ ShortRow => SchemaInv'
  <1> SUFFICES ASSUME SchemaInv, ShortRow PROVE SchemaInv'
    OBVIOUS
  <1>1. SchemaTypeOK
    BY DEF SchemaInv
  <1>2. /\ Len(file) \in Nat /\ at \in Nat
        /\ Sampled \in Nat /\ Sampled <= Len(file) /\ Sampled <= SampleRows
    BY <1>1, SampledLength
  <1>3. /\ at < Sampled /\ Crashes(file[at + 1])
        /\ stage' = "failed" /\ at' = at /\ file' = file /\ types' = types
    BY DEF ShortRow
  <1>4. PICK c \in Columns : file[at + 1][c] = "absent"
    BY <1>3 DEF Crashes
  <1>5. at + 1 \in 1..Sampled
    BY <1>2, <1>3
  <1>6. "absent" \in Seen(c, Sampled)
    BY <1>4, <1>5 DEF Seen
  <1>7. \A d \in Columns : Seen(d, Sampled)' = Seen(d, Sampled)
    BY <1>3 DEF Seen, Sampled
  <1>8. SchemaTypeOK'
    BY <1>1, <1>3 DEF SchemaTypeOK
  <1>9. InferredFromSample'
    BY <1>3, <1>6, <1>7 DEF InferredFromSample
  <1> QED
    BY <1>3, <1>8, <1>9 DEF SchemaInv

LEMMA OverrideKeeps == SchemaInv /\ Override => SchemaInv'
  <1> SUFFICES ASSUME SchemaInv, Override PROVE SchemaInv'
    OBVIOUS
  <1>1. SchemaTypeOK
    BY DEF SchemaInv
  <1>2. /\ stage = "sampling" /\ at = Sampled
        /\ types' = [c \in Columns |-> IF c \in DOMAIN Overrides THEN Overrides[c] ELSE types[c]]
        /\ stage' = "inferred" /\ at' = at /\ file' = file
    BY DEF Override
  <1>3. \A c \in Columns : types[c] = TypeOf(Seen(c, Sampled)) /\ "absent" \notin Seen(c, Sampled)
    BY <1>2 DEF SchemaInv
  <1>4. \A c \in Columns : Seen(c, Sampled)' = Seen(c, Sampled)
    BY <1>2 DEF Seen, Sampled
  <1>5. types' \in [Columns -> SqlTypes]
    BY <1>1, <1>2, SchemaAssumption DEF SchemaTypeOK
  <1>6. SchemaTypeOK'
    BY <1>1, <1>2, <1>5 DEF SchemaTypeOK
  <1>7. InferredFromSample'
    BY <1>2, <1>3, <1>4 DEF InferredFromSample
  <1> QED
    BY <1>2, <1>6, <1>7 DEF SchemaInv

LEMMA SchemaRests ==
    ASSUME SchemaInv, UNCHANGED svars
    PROVE  SchemaInv'
  <1>1. file' = file /\ at' = at /\ types' = types /\ stage' = stage
    BY DEF svars
  <1>2. SchemaTypeOK'
    BY <1>1 DEF SchemaInv, SchemaTypeOK
  <1>3. InferredFromSample'
    BY <1>1 DEF SchemaInv, InferredFromSample, Seen, Sampled
  <1>4. (stage = "sampling" => \A c \in Columns : types[c] = TypeOf(Seen(c, at)) /\ "absent" \notin Seen(c, at))'
    BY <1>1 DEF SchemaInv, Seen
  <1> QED
    BY <1>2, <1>3, <1>4 DEF SchemaInv

(***************************************************************************)
(* The inductive invariant: up to any row, the types are those that the    *)
(* cells seen so far call for, and none of these is absent.                *)
(***************************************************************************)
THEOREM SchemaInvariance == SchemaSpec => []SchemaInv
  <1>1. SchemaInv /\ [SchemaNext]_svars => SchemaInv'
    BY SchemaRests, SampleRowKeeps, ShortRowKeeps, OverrideKeeps DEF SchemaNext, SchemaOver
  <1> QED
    BY <1>1, SchemaStart, PTL DEF SchemaSpec

(***************************************************************************)
(* A schema is determined by the sample alone, and by its cells as a set.  *)
(***************************************************************************)
THEOREM SchemaIsTheSamples == SchemaSpec => []InferredFromSample
  BY SchemaInvariance, PTL DEF SchemaInv

-----------------------------------------------------------------------------
(* The command around it *)

\* Where run() is says whether it is connected, and how it can still end.
CommandInv ==
    /\ CommandTypeOK /\ SchemaInv
    /\ step \in {"config", "connect"} => conn = "none" /\ exit = "none"
    /\ step = "connect" => Missing = {}
    /\ step \in InTry => conn = "open" /\ exit = "none"
    /\ step = "reconcile" => command = "reconcile"
    /\ step = "close" => conn = "open" /\ exit # "none"
    /\ step = "ended" => conn # "open"
    /\ conn # "none" => Missing = {}
    /\ exit = "0" => conn \in {"open", "closed"}
    /\ command = "load --create-table" /\ (step = "load" \/ exit = "0") => stage = "inferred"

LEMMA CommandStart == CommandInit => CommandInv
  <1> SUFFICES ASSUME CommandInit PROVE CommandInv
    OBVIOUS
  <1>1. CommandTypeOK /\ SchemaInv
    BY SchemaStart DEF CommandInit, CommandTypeOK, SchemaInv, Steps, InTry
  <1> QED
    BY <1>1 DEF CommandInit, CommandInv, InTry

\* While infer_schema runs the command waits for it.
LEMMA SchemaStepKeeps ==
    ASSUME CommandInv, step = "ddl", SampleRow \/ ShortRow \/ Override, UNCHANGED cvars
    PROVE  CommandInv'
  <1>1. SchemaInv'
    BY SampleRowKeeps, ShortRowKeeps, OverrideKeeps DEF CommandInv
  <1>2. CommandTypeOK'
    BY <1>1 DEF CommandInv, CommandTypeOK, SchemaInv, cvars
  <1> QED
    BY <1>1, <1>2 DEF CommandInv, cvars, InTry, Missing

LEMMA Settled ==
    ASSUME CommandInv, UNCHANGED <<svars, inYaml, inEnv, command>>
    PROVE  SchemaInv' /\ Missing' = Missing
  BY SchemaRests DEF CommandInv, svars, Missing

\* Every other step is one of run() itself.
LEMMA RunStepKeeps ==
    ASSUME CommandInv, UNCHANGED svars,
           \/ LoadConfig \/ ConfigFails \/ Connect \/ ConnectFails
           \/ CreateTable \/ LoadReturns \/ ReconcileReturns \/ Raises \/ Close
    PROVE  CommandInv'
  <1>1. UNCHANGED <<inYaml, inEnv, command>>
    BY DEF LoadConfig, ConfigFails, Connect, ConnectFails, CreateTable, LoadReturns,
           ReconcileReturns, Raises, Close, Leaves
  <1>2. SchemaInv' /\ Missing' = Missing /\ stage' = stage
    BY <1>1, Settled DEF svars
  <1>3. SchemaTypeOK'
    BY <1>2 DEF SchemaInv
  <1>5. CASE LoadConfig \/ ConfigFails \/ ConnectFails
    BY <1>1, <1>2, <1>3, <1>5 DEF LoadConfig, ConfigFails, ConnectFails, CommandInv, CommandTypeOK, Steps, InTry
  <1>6. CASE Connect
    <2>1. First \in InTry /\ (First = "ddl" \/ First = command)
      BY DEF First, CommandInv, CommandTypeOK, Commands, InTry
    <2>2. conn' = "open" /\ step' = First /\ exit' = "none" /\ step = "connect"
      BY <1>6 DEF Connect, CommandInv
    <2>3. CommandTypeOK'
      BY <1>1, <1>3, <2>1, <2>2 DEF CommandInv, CommandTypeOK, Steps
    <2>4. step' \notin {"config", "connect", "close", "ended"}
      BY <2>1, <2>2 DEF InTry
    <2>5. Missing = {}
      BY <2>2 DEF CommandInv
    <2> QED
      BY <1>1, <1>2, <2>1, <2>2, <2>3, <2>4, <2>5 DEF CommandInv
  <1>7. CASE CreateTable
    BY <1>1, <1>2, <1>3, <1>7 DEF CreateTable, CommandInv, CommandTypeOK, Steps, InTry
  <1>8. ASSUME NEW result \in {"0", "1", "raised"}, step \in InTry, Leaves(result),
               result = "0" => step = "load" \/ command # "load --create-table"
        PROVE  CommandInv'
    BY <1>1, <1>2, <1>3, <1>8 DEF Leaves, CommandInv, CommandTypeOK, Steps, InTry
  <1>9. CASE LoadReturns \/ Raises
    BY <1>8, <1>9 DEF LoadReturns, Raises, InTry
  <1>10. CASE ReconcileReturns
    BY <1>8, <1>10 DEF ReconcileReturns, InTry, CommandInv, CommandTypeOK
  <1>11. CASE Close
    BY <1>1, <1>2, <1>3, <1>11 DEF Close, CommandInv, CommandTypeOK, Steps, InTry
  <1> QED
    BY <1>5, <1>6, <1>7, <1>11, <1>9, <1>10

(***************************************************************************)
(* The inductive invariant of a run of fraud-ingest.                       *)
(***************************************************************************)
THEOREM CommandInvariance == CommandSpec => []CommandInv
  <1>1. CommandInv /\ [CommandNext]_<<svars, cvars>> => CommandInv'
    <2> SUFFICES ASSUME CommandInv, [CommandNext]_<<svars, cvars>> PROVE CommandInv'
      OBVIOUS
    <2>1. CASE UNCHANGED <<svars, cvars>>
      <3>1. SchemaInv' /\ Missing' = Missing
        BY <2>1, Settled DEF cvars
      <3> QED
        BY <2>1, <3>1 DEF CommandInv, CommandTypeOK, SchemaInv, svars, cvars
    <2> QED
      BY <2>1, SchemaStepKeeps, RunStepKeeps DEF CommandNext, Over
  <1> QED
    BY <1>1, CommandStart, PTL DEF CommandSpec

(***************************************************************************)
(* The settings, the connection and the exit status of run() keep their    *)
(* types, and so does the schema it infers.                                *)
(***************************************************************************)
THEOREM CommandTypes == CommandSpec => []CommandTypeOK
  BY CommandInvariance, PTL DEF CommandInv

(***************************************************************************)
(* However run() ends, it has called close(), and reports success          *)
(* only for work that was done.                                            *)
(***************************************************************************)
THEOREM NothingLeftOpen == CommandSpec => []ConnectionClosed
  <1>1. CommandInv => ConnectionClosed
    BY DEF CommandInv, ConnectionClosed, CommandTypeOK
  <1> QED
    BY <1>1, CommandInvariance, PTL

(***************************************************************************)
(* The schema of --create-table is that of the sample in every run.        *)
(***************************************************************************)
THEOREM RunInfersFromSample == CommandSpec => []InferredFromSample
  <1>1. CommandInv => InferredFromSample
    BY DEF CommandInv, SchemaInv
  <1> QED
    BY <1>1, CommandInvariance, PTL
=============================================================================
