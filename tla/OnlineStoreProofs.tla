--------------------------- MODULE OnlineStoreProofs ---------------------------
(***************************************************************************)
(* Proofs about materialization, for any table, any number of runs and of  *)
(* versions.  A vector is always the last row of its entity in what some   *)
(* run read (Sourced), runs of one version read the same rows (OneRead),   *)
(* and a run has stored every entity it no longer has to do, unless Redis  *)
(* restarted meanwhile (Stored).  As nothing comes from a version that is  *)
(* yet to be, a run that starts later never makes a vector older.          *)
(***************************************************************************)
EXTENDS OnlineStore, FiniteInduction

\* Runs that read one version hold the same rows, the table's if it is current.
OneRead ==
    \A r \in Started :
        /\ run[r].version <= version
        /\ run[r].version = version => run[r].rows = table
        /\ \A q \in Started : run[q].version = run[r].version => run[q].rows = run[r].rows

SourcedAt(c) ==
    \E q \in Started : \E x \in Latest(run[q].rows, c) :
        redis[c] = [row |-> x, version |-> run[q].version]

Sourced == \A c \in Cards : redis[c] # None => SourcedAt(c)

Stored ==
    \A r \in Started :
        /\ run[r].began <= restarts
        /\ run[r].stage \in {"writing", "done"} /\ run[r].began = restarts =>
              \A c \in CardsOf(run[r].rows) \ run[r].todo : redis[c] # None
        /\ run[r].stage = "done" => run[r].todo = {}

SInv == STypeOK /\ OneRead /\ Sourced /\ Stored

-----------------------------------------------------------------------------
\* An entity has one last row: ids break the ties.
LEMMA OneLatest ==
    ASSUME NEW rows \in SUBSET Rows, NEW c, NEW x \in Latest(rows, c), NEW y \in Latest(rows, c)
    PROVE  x = y
  <1>1. x \in Rows /\ y \in Rows /\ x \in Of(rows, c) /\ y \in Of(rows, c)
    BY DEF Latest, Of
  <1>2. x.id \in Int /\ y.id \in Int /\ x.dt \in Int /\ y.dt \in Int
    BY <1>1, StoreAssumption
  <1>3. x.id = y.id
    BY <1>1, <1>2 DEF Latest, LastIn
  <1> QED
    BY <1>1, <1>3, StoreAssumption

LEMMA CardOfLatest ==
    ASSUME NEW rows \in SUBSET Rows, NEW c, NEW x \in Latest(rows, c)
    PROVE  x \in Rows /\ c \in Cards
  BY DEF Latest, Of, Cards

LEMMA SStart == SInit => SInv
  <1> SUFFICES ASSUME SInit PROVE SInv
    OBVIOUS
  <1>1. Started = {}
    BY DEF SInit, Started
  <1>2. STypeOK
    BY StoreAssumption DEF SInit, STypeOK, Run
  <1> QED
    BY <1>1, <1>2 DEF SInit, SInv, OneRead, Sourced, Stored
-----------------------------------------------------------------------------
\* A step that leaves Redis, its restarts and what runs have read alone.
LEMMA RunStep ==
    ASSUME SInv, STypeOK', UNCHANGED <<version, table, redis, restarts>>,
           \A q \in Started : /\ q \in Started' /\ run'[q].version = run[q].version
                              /\ run'[q].rows = run[q].rows /\ run'[q].began = run[q].began
                              /\ run'[q].todo = run[q].todo
                              /\ run'[q].stage \in {"writing", "done"} =>
                                     run[q].stage \in {"writing", "done"},
           \A q \in Started' : run'[q].stage = "done" => run'[q].todo = {},
           \A q \in Started' \ Started :
              /\ run'[q].version = version /\ run'[q].rows = table
              /\ run'[q].began = restarts /\ run'[q].todo = CardsOf(table)
    PROVE  SInv'
  <1>1. version \in Int /\ restarts \in Int
        /\ \A q \in Runs : run[q].version \in Int /\ run[q].began \in Int
    BY StoreAssumption DEF SInv, STypeOK, Run
  <1>2. OneRead'
    BY <1>1 DEF SInv, OneRead, Started
  <1>3. Sourced'
    <2> SUFFICES ASSUME NEW c \in Cards, redis[c] # None
                 PROVE  SourcedAt(c)'
      BY DEF Sourced, Cards
    <2>1. PICK q \in Started : \E x \in Latest(run[q].rows, c) :
                 redis[c] = [row |-> x, version |-> run[q].version]
      BY DEF SInv, Sourced, SourcedAt
    <2> QED
      BY <2>1 DEF SourcedAt
  <1>4. Stored'
    BY <1>1 DEF SInv, Stored, Started
  <1> QED
    BY <1>2, <1>3, <1>4 DEF SInv
-----------------------------------------------------------------------------
LEMMA STypeStep ==
    ASSUME STypeOK, [SNext]_svars
    PROVE  STypeOK'
  <1>1. ASSUME NEW r \in Runs, StartRun(r) PROVE STypeOK'
    <2>1. [stage |-> "writing", version |-> version, rows |-> table,
           todo |-> CardsOf(table), began |-> restarts] \in Run
      BY DEF STypeOK, Run, CardsOf, Cards
    <2> QED
      BY <1>1, <2>1 DEF StartRun, STypeOK
  <1>2. ASSUME NEW r \in Runs, WriteVector(r) PROVE STypeOK'
    <2> DEFINE c == Min(run[r].todo)
    <2>1. run[r] \in Run
      BY DEF STypeOK
    <2>2. [run[r] EXCEPT !.todo = @ \ {c}] \in Run
      BY <2>1 DEF Run
    <2>3. run' \in [Runs -> Run]
      BY <1>2, <2>2 DEF WriteVector, STypeOK
    <2>4. PICK x \in Latest(run[r].rows, c) :
             redis' = [redis EXCEPT ![c] = [row |-> x, version |-> run[r].version]]
      BY <1>2 DEF WriteVector
    <2>5. run[r].rows \in SUBSET Rows /\ run[r].version \in 0..MaxVersions
      BY <2>1 DEF Run
    <2>6. x \in Rows /\ c \in Cards
      BY <2>4, <2>5, CardOfLatest
    <2>7. [row |-> x, version |-> run[r].version] \in Vector
      BY <2>5, <2>6 DEF Vector
    <2>8. redis' \in [Cards -> Vector \cup {None}]
      BY <2>4, <2>7 DEF STypeOK
    <2> QED
      BY <1>2, <2>3, <2>8 DEF WriteVector, STypeOK
  <1>3. ASSUME NEW r \in Runs, NEW stage \in {"done", "died"},
               run' = [run EXCEPT ![r].stage = stage],
               UNCHANGED <<version, table, redis, restarts>>
        PROVE  STypeOK'
    <2>1. [run[r] EXCEPT !.stage = stage] \in Run
      BY DEF STypeOK, Run
    <2> QED
      BY <1>3, <2>1 DEF STypeOK
  <1>4. ASSUME NEW r \in Runs, FinishRun(r) \/ RunDies(r) PROVE STypeOK'
    BY <1>3, <1>4 DEF FinishRun, RunDies
  <1>5. ASSUME NEW rows \in SUBSET Rows, OverwriteTable(rows) PROVE STypeOK'
    BY <1>5, StoreAssumption DEF OverwriteTable, STypeOK
  <1>6. CASE RestartRedis
    BY <1>6, StoreAssumption DEF RestartRedis, STypeOK
  <1>7. CASE UNCHANGED svars
    BY <1>7 DEF svars, STypeOK
  <1> QED
    BY <1>1, <1>2, <1>4, <1>5, <1>6, <1>7 DEF SNext, RunsAreOver

-----------------------------------------------------------------------------
\* A run stores the last row of one more entity.
LEMMA WriteKeeps ==
    ASSUME SInv, STypeOK', NEW r \in Runs, WriteVector(r)
    PROVE  SInv'
  <1> DEFINE c == Min(run[r].todo)
  <1>1. PICK x \in Latest(run[r].rows, c) :
           redis' = [redis EXCEPT ![c] = [row |-> x, version |-> run[r].version]]
    BY DEF WriteVector
  <1>2. /\ run \in [Runs -> Run] /\ redis \in [Cards -> Vector \cup {None}]
        /\ run[r].rows \in SUBSET Rows /\ run[r].version \in 0..MaxVersions /\ r \in Started
    BY DEF WriteVector, SInv, STypeOK, Run, Started
  <1>3. x \in Rows /\ c \in Cards
    BY <1>1, <1>2, CardOfLatest
  <1>4. [row |-> x, version |-> run[r].version] \in Vector
    BY <1>2, <1>3 DEF Vector
  <1>5. /\ redis'[c] = [row |-> x, version |-> run[r].version] /\ redis'[c] # None
        /\ \A d \in Cards : d # c => redis'[d] = redis[d]
    BY <1>1, <1>2, <1>3, <1>4, StoreAssumption
  <1> HIDE DEF c
  <1>6. run' = [run EXCEPT ![r].todo = @ \ {c}] /\ UNCHANGED <<version, table, restarts>>
    BY DEF WriteVector, c
  <1>7. \A q \in Runs : /\ run'[q].version = run[q].version /\ run'[q].rows = run[q].rows
                        /\ run'[q].began = run[q].began /\ run'[q].stage = run[q].stage
                        /\ run'[q].todo = IF q = r THEN run[q].todo \ {c} ELSE run[q].todo
    BY <1>2, <1>6 DEF Run
  <1>8. Started' = Started
    BY <1>7 DEF Started
  <1>9. OneRead'
    BY <1>6, <1>7, <1>8 DEF SInv, OneRead, Started
  <1>10. Sourced'
    <2> SUFFICES ASSUME NEW d \in Cards, redis'[d] # None PROVE SourcedAt(d)'
      BY DEF Sourced, Cards
    <2>1. CASE d = c
      BY <1>1, <1>2, <1>5, <1>7, <1>8, <2>1 DEF SourcedAt, Started
    <2>2. CASE d # c
      <3>1. PICK q \in Started : \E y \in Latest(run[q].rows, d) :
                   redis[d] = [row |-> y, version |-> run[q].version]
        BY <1>5, <2>2 DEF SInv, Sourced, SourcedAt
      <3>2. q \in Started' /\ run'[q].rows = run[q].rows /\ run'[q].version = run[q].version
        BY <1>7, <1>8, <3>1 DEF Started
      <3>3. redis'[d] = redis[d]
        BY <1>5, <2>2
      <3>4. \E y \in Latest(run'[q].rows, d) : redis'[d] = [row |-> y, version |-> run'[q].version]
        BY <3>1, <3>2, <3>3
      <3> QED
        BY <3>2, <3>4 DEF SourcedAt
    <2> QED
      BY <2>1, <2>2
  <1>11. \A q \in Runs : CardsOf(run[q].rows) \subseteq Cards
    BY <1>2 DEF CardsOf, Cards, Run
  <1>12. Stored'
    <2> SUFFICES ASSUME NEW q \in Started
                 PROVE  /\ run[q].began <= restarts
                        /\ run[q].stage \in {"writing", "done"} /\ run[q].began = restarts =>
                              \A d \in CardsOf(run[q].rows) \ run'[q].todo : redis'[d] # None
                        /\ run[q].stage = "done" => run'[q].todo = {}
      BY <1>6, <1>7, <1>8 DEF Stored, Started
    <2>1. \A d \in CardsOf(run[q].rows) \ run'[q].todo : d # c => d \notin run[q].todo
      BY <1>7 DEF Started
    <2>2. run[q].stage = "done" => run'[q].todo = {}
      BY <1>7 DEF SInv, Stored, Started
    <2> QED
      BY <1>5, <1>11, <2>1, <2>2 DEF SInv, Stored, Started
  <1> QED
    BY <1>9, <1>10, <1>12 DEF SInv

LEMMA SStep == SInv /\ [SNext]_svars => SInv'
  <1> SUFFICES ASSUME SInv, [SNext]_svars PROVE SInv'
    OBVIOUS
  <1> STypeOK' /\ run \in [Runs -> Run]
    BY STypeStep DEF SInv, STypeOK
  <1>1. ASSUME NEW r \in Runs, StartRun(r) PROVE SInv'
    <2>1. /\ run'[r] = [stage |-> "writing", version |-> version, rows |-> table,
                        todo |-> CardsOf(table), began |-> restarts]
          /\ \A q \in Runs : q # r => run'[q] = run[q]
      BY <1>1 DEF StartRun
    <2>2. r \notin Started /\ Started' = Started \cup {r}
      BY <1>1, <2>1 DEF StartRun, Started
    <2>3. \A q \in Started' : run'[q].stage = "done" => run'[q].todo = {}
      BY <2>1, <2>2 DEF SInv, Stored, Started
    <2>4. UNCHANGED <<version, table, redis, restarts>>
      BY <1>1 DEF StartRun
    <2>5. \A q \in Started : q \in Runs /\ q # r
      BY <2>2 DEF Started
    <2> QED
      BY <2>1, <2>2, <2>3, <2>4, <2>5, RunStep
  <1>2. ASSUME NEW r \in Runs, WriteVector(r) PROVE SInv'
    BY <1>2, WriteKeeps
  <1>3. ASSUME NEW r \in Runs, NEW stage \in {"done", "died"}, run[r].stage = "writing",
               stage = "done" => run[r].todo = {},
               run' = [run EXCEPT ![r].stage = stage], UNCHANGED <<version, table, redis, restarts>>
        PROVE  SInv'
    <2>1. \A q \in Runs : /\ run'[q].version = run[q].version /\ run'[q].rows = run[q].rows
                          /\ run'[q].began = run[q].began /\ run'[q].todo = run[q].todo
                          /\ run'[q].stage = IF q = r THEN stage ELSE run[q].stage
      BY <1>3 DEF Run
    <2>2. Started' = Started
      BY <1>3, <2>1 DEF Started
    <2>3. \A q \in Started' : run'[q].stage = "done" => run'[q].todo = {}
      BY <1>3, <2>1, <2>2 DEF SInv, Stored, Started
    <2>4. \A q \in Started : /\ q \in Runs
                             /\ run'[q].stage \in {"writing", "done"} =>
                                    run[q].stage \in {"writing", "done"}
      BY <1>3, <2>1 DEF Started
    <2> QED
      BY <1>3, <2>1, <2>2, <2>3, <2>4, RunStep
  <1>4. ASSUME NEW r \in Runs, FinishRun(r) \/ RunDies(r) PROVE SInv'
    BY <1>3, <1>4 DEF FinishRun, RunDies
  <1>5. ASSUME NEW rows \in SUBSET Rows, OverwriteTable(rows) PROVE SInv'
    <2>1. Started' = Started /\ version \in Int /\ \A q \in Runs : run[q].version \in Int
      BY <1>5, StoreAssumption DEF OverwriteTable, Started, SInv, STypeOK, Run
    <2>2. OneRead'
      BY <1>5, <2>1 DEF OverwriteTable, SInv, OneRead, Started
    <2>3. Sourced' /\ Stored'
      BY <1>5, <2>1 DEF OverwriteTable, SInv, Sourced, SourcedAt, Stored
    <2> QED
      BY <2>2, <2>3 DEF SInv
  <1>6. CASE RestartRedis
    <2>1. Started' = Started /\ restarts \in Int /\ \A q \in Runs : run[q].began \in Int
      BY <1>6, StoreAssumption DEF RestartRedis, Started, SInv, STypeOK, Run
    <2>2. OneRead' /\ Sourced'
      BY <1>6, <2>1 DEF RestartRedis, SInv, OneRead, Sourced, Cards
    <2>3. Stored'
      BY <1>6, <2>1 DEF RestartRedis, SInv, Stored, Started
    <2> QED
      BY <2>2, <2>3 DEF SInv
  <1>7. CASE UNCHANGED svars
    BY <1>7 DEF svars, SInv, OneRead, Sourced, SourcedAt, Stored, Started
  <1> QED
    BY <1>1, <1>2, <1>4, <1>5, <1>6, <1>7 DEF SNext, RunsAreOver

-----------------------------------------------------------------------------
(***************************************************************************)
(* The types and the invariant of materialization, for any table and any   *)
(* number of runs, versions and restarts.                                  *)
(***************************************************************************)
THEOREM StoreInvariance == SSpec => []SInv
  BY SStart, SStep, PTL DEF SSpec

(***************************************************************************)
(* A finished run has left no entity of its snapshot behind, and none with *)
(* a row that is not the last one of what some run read.                   *)
(***************************************************************************)
THEOREM FinishedRunsServe == SSpec => []FinishedRunServes
  <1>1. SInv => FinishedRunServes
    <2> SUFFICES ASSUME SInv, NEW r \in Runs, run[r].stage = "done", run[r].began = restarts,
                        NEW c \in CardsOf(run[r].rows)
                 PROVE  \E q \in Started : \E x \in Of(run[q].rows, c) :
                            /\ LastIn(Of(run[q].rows, c), x)
                            /\ redis[c] = [row |-> x, version |-> run[q].version]
      BY DEF FinishedRunServes
    <2>1. r \in Started /\ c \in Cards
      BY DEF Started, SInv, STypeOK, Run, CardsOf, Cards
    <2>2. redis[c] # None
      BY <2>1 DEF SInv, Stored
    <2> QED
      BY <2>1, <2>2 DEF SInv, Sourced, SourcedAt, Latest
  <1> QED
    BY <1>1, StoreInvariance, PTL

(***************************************************************************)
(* Materializing one version again never changes what it has stored: the   *)
(* idempotence materialize promises, which rests on latest_per_entity      *)
(* breaking ties by TransactionID.                                         *)
(***************************************************************************)
THEOREM RerunsAgreeAlways == SSpec => RerunsAgree
  <1> DEFINE Same == \A c \in Cards :
                redis[c] # None /\ redis'[c] # None /\ redis'[c].version = redis[c].version =>
                    redis'[c] = redis[c]
  <1>1. SInv /\ SNext => Same
    <2> SUFFICES ASSUME SInv, SNext, NEW c \in Cards, redis[c] # None, redis'[c] # None,
                        redis'[c].version = redis[c].version
                 PROVE  redis'[c] = redis[c]
      OBVIOUS
    <2>1. ASSUME NEW r \in Runs, WriteVector(r) PROVE redis'[c] = redis[c]
      <3> DEFINE d == Min(run[r].todo)
      <3>1. PICK x \in Latest(run[r].rows, d) :
               redis' = [redis EXCEPT ![d] = [row |-> x, version |-> run[r].version]]
        BY <2>1 DEF WriteVector
      <3> HIDE DEF d
      <3>2. redis \in [Cards -> Vector \cup {None}] /\ r \in Started
            /\ \A q \in Started : run[q].rows \in SUBSET Rows
        BY <2>1 DEF WriteVector, SInv, STypeOK, Run, Started
      <3>3. CASE d # c
        BY <3>1, <3>2, <3>3
      <3>4. CASE d = c
        <4>1. redis'[c] = [row |-> x, version |-> run[r].version]
          BY <3>1, <3>2, <3>4
        <4>2. PICK q \in Started : \E y \in Latest(run[q].rows, c) :
                     redis[c] = [row |-> y, version |-> run[q].version]
          BY DEF SInv, Sourced, SourcedAt
        <4>3. PICK y \in Latest(run[q].rows, c) :
                     redis[c] = [row |-> y, version |-> run[q].version]
          BY <4>2
        <4>4. run[r].version = run[q].version
          BY <4>1, <4>3
        <4>5. run[q].rows = run[r].rows
          BY <3>2, <4>2, <4>4 DEF SInv, OneRead
        <4>6. x = y
          BY <3>1, <3>2, <3>4, <4>3, <4>5, OneLatest
        <4> QED
          BY <4>1, <4>3, <4>4, <4>6
      <3> QED
        BY <3>3, <3>4
    <2>2. CASE redis' = redis
      BY <2>2
    <2>3. CASE RestartRedis
      BY <2>3 DEF RestartRedis
    <2> QED
      BY <2>1, <2>2, <2>3 DEF SNext, StartRun, FinishRun, RunDies, OverwriteTable, RunsAreOver, svars
  <1>2. SInv /\ [SNext]_svars => [Same]_svars
    BY <1>1
  <1> QED
    BY <1>2, StoreInvariance, PTL DEF SSpec, RerunsAgree

(***************************************************************************)
(* The benchmark's cold lookup finds what Redis holds of the current table *)
(* if and only if the entity is not text, as it is on the command line.    *)
(***************************************************************************)
THEOREM TextFindsNothing == SSpec => []OnlyTextMisses
  <1>1. SInv => OnlyTextMisses
    <2> SUFFICES ASSUME SInv, NEW c \in Cards, redis[c] # None, redis[c].version = version
                 PROVE  redis[c].row \in LatestInTime(table, c)
      BY DEF OnlyTextMisses, RunBenchmark, ColdRecompute
    <2>1. PICK q \in Started : \E x \in Latest(run[q].rows, c) :
                 redis[c] = [row |-> x, version |-> run[q].version]
      BY DEF SInv, Sourced, SourcedAt
    <2>2. PICK x \in Latest(run[q].rows, c) : redis[c] = [row |-> x, version |-> run[q].version]
      BY <2>1
    <2>3. run[q].rows = table
      BY <2>1, <2>2 DEF SInv, OneRead
    <2>4. table \in SUBSET Rows /\ x \in Rows
      BY <2>2, <2>3, CardOfLatest DEF SInv, STypeOK
    <2>5. \A y \in Of(table, c) : y.dt <= x.dt
      BY <2>2, <2>3, <2>4, StoreAssumption DEF Latest, LastIn, Of
    <2> QED
      BY <2>2, <2>3, <2>5 DEF Latest, LatestInTime
  <1> QED
    BY <1>1, StoreInvariance, PTL

\* materialize goes through finitely many entities, so there is a next one.
LEMMA NextEntity ==
    ASSUME STypeOK, NEW r \in Runs, run[r].todo # {}
    PROVE  Min(run[r].todo) \in run[r].todo
  <1> DEFINE f == [x \in Rows |-> x.card]
  <1>1. f \in Surjection(Rows, Cards)
    BY DEF Surjection, Cards
  <1> HIDE DEF f
  <1>2. IsFiniteSet(Cards)
    BY <1>1, StoreAssumption, FS_Surjection
  <1>3. run[r].todo \in SUBSET Cards
    BY DEF STypeOK, Run
  <1>4. IsFiniteSet(run[r].todo)
    BY <1>2, <1>3, FS_Subset
  <1>5. Cards \in SUBSET Int
    BY StoreAssumption DEF Cards
  <1>6. \E c \in run[r].todo : \A d \in run[r].todo : c <= d
    BY <1>3, <1>4, <1>5, LeastInt
  <1> QED
    BY <1>6 DEF Min

\* What Redis holds is no newer than the table, nor is what a run has read.
LEMMA NothingFromTheFuture ==
    ASSUME SInv, NEW c \in Cards, redis[c] # None
    PROVE  redis[c].version \in 0..MaxVersions /\ redis[c].version <= version
  <1>1. PICK q \in Started : \E x \in Latest(run[q].rows, c) :
               redis[c] = [row |-> x, version |-> run[q].version]
    BY DEF SInv, Sourced, SourcedAt
  <1>2. redis[c].version = run[q].version
    BY <1>1
  <1> QED
    BY <1>1, <1>2 DEF SInv, OneRead, STypeOK, Run, Started

(***************************************************************************)
(* An entity goes back to an older vector only by a run that had read the  *)
(* older table and not come to the entity yet: without one, and unless     *)
(* Redis loses it, its vector stays of that version or newer for ever, for *)
(* any number of runs, versions and rows.                                  *)
(***************************************************************************)
THEOREM SettledForGood == SSpec => NeverBackOnceSettled
  <1> DEFINE Kept == \A c \in Cards, v \in 0..MaxVersions :
                         Settled(c, v) => redis'[c] = None \/ Settled(c, v)'
  <1>1. SInv /\ SNext => Kept
    <2> SUFFICES ASSUME SInv, SNext, NEW c \in Cards, NEW v \in 0..MaxVersions, Settled(c, v),
                        redis'[c] # None
                 PROVE  Settled(c, v)'
      OBVIOUS
    <2>1. /\ STypeOK /\ run \in [Runs -> Run] /\ redis \in [Cards -> Vector \cup {None}]
          /\ v \in Int /\ version \in Int /\ redis[c].version \in Int /\ redis[c].version <= version
          /\ v <= redis[c].version
      BY NothingFromTheFuture DEF SInv, STypeOK, Settled
    <2>2. ASSUME NEW r \in Runs, StartRun(r) PROVE Settled(c, v)'
      <3>1. /\ redis' = redis /\ run'[r].version = version
            /\ \A q \in Runs \ {r} : run'[q] = run[q]
        BY <2>1, <2>2 DEF StartRun
      <3> QED
        BY <2>1, <3>1 DEF Settled
    <2>3. ASSUME NEW r \in Runs, WriteVector(r) PROVE Settled(c, v)'
      <3> DEFINE d == Min(run[r].todo)
      <3>1. PICK x \in Latest(run[r].rows, d) :
               redis' = [redis EXCEPT ![d] = [row |-> x, version |-> run[r].version]]
        BY <2>3 DEF WriteVector
      <3>2. d \in run[r].todo /\ run[r].stage = "writing"
        BY <2>1, <2>3, NextEntity DEF WriteVector
      <3>3. run' = [run EXCEPT ![r].todo = @ \ {d}]
        BY <2>3 DEF WriteVector
      <3> HIDE DEF d
      <3>4. \A q \in Runs : /\ run'[q].version = run[q].version /\ run'[q].stage = run[q].stage
                            /\ run'[q].todo \subseteq run[q].todo
        BY <2>1, <3>3 DEF Run
      <3>5. \A q \in Runs : run'[q].stage = "writing" /\ c \in run'[q].todo => run'[q].version >= v
        BY <3>4 DEF Settled
      <3>6. redis'[c].version >= v
        <4>1. CASE d = c
          <5>1. redis'[c] = [row |-> x, version |-> run[r].version]
            BY <2>1, <3>1, <4>1
          <5>2. run[r].version >= v
            BY <3>2, <4>1 DEF Settled
          <5> QED
            BY <5>1, <5>2
        <4>2. CASE d # c
          BY <2>1, <3>1, <4>2
        <4> QED
          BY <4>1, <4>2
      <3> QED
        BY <3>5, <3>6 DEF Settled
    <2>4. ASSUME NEW r \in Runs, FinishRun(r) \/ RunDies(r) PROVE Settled(c, v)'
      <3>1. /\ redis' = redis /\ run'[r].stage # "writing"
            /\ \A q \in Runs \ {r} : run'[q] = run[q]
        BY <2>1, <2>4 DEF FinishRun, RunDies, Run
      <3> QED
        BY <3>1 DEF Settled
    <2>5. CASE (\E rows \in SUBSET Rows : OverwriteTable(rows)) \/ RunsAreOver
      BY <2>5 DEF OverwriteTable, RunsAreOver, svars, Settled
    <2>6. CASE RestartRedis
      BY <2>1, <2>6 DEF RestartRedis
    <2> QED
      BY <2>2, <2>3, <2>4, <2>5, <2>6 DEF SNext
  <1>2. SInv /\ [SNext]_svars => [Kept]_svars
    BY <1>1
  <1> QED
    BY <1>2, StoreInvariance, PTL DEF SSpec, NeverBackOnceSettled
=============================================================================
