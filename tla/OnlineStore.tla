------------------------------ MODULE OnlineStore ------------------------------
(***************************************************************************)
(* feature_store: `fstore materialize` runs read the offline table and     *)
(* write the latest row of every entity into Redis, key by key, while the  *)
(* table is overwritten, other runs write too, runs die and Redis restarts *)
(* without its data (infra/k8s/redis.yaml mounts no volume).               *)
(***************************************************************************)
EXTENDS Integers, FiniteSets, FiniteSetsExt

CONSTANTS
    Rows,           \* rows of the offline table: [id, card, dt]; features go with them
    Runs,           \* runs of `fstore materialize`
    None,           \* no vector, no row
    MaxVersions,    \* bound: how often the offline table is overwritten
    MaxRestarts     \* bound: how often Redis restarts

\* A vector is the features of one row, as one version of the table has them.
Vector == [row: Rows, version: 0..MaxVersions]

ASSUME StoreAssumption ==
    /\ IsFiniteSet(Rows)
    /\ \A x \in Rows : x.id \in Int /\ x.card \in Int /\ x.dt \in Int
    /\ \A x, y \in Rows : x.id = y.id => x = y
    /\ MaxVersions \in Nat /\ MaxRestarts \in Nat
    /\ None \notin Vector

VARIABLES
    version,    \* the version of the offline table
    table,      \* its rows
    redis,      \* what is stored under each entity's key
    restarts,   \* how often Redis has restarted
    run         \* the materialize runs

svars == <<version, table, redis, restarts, run>>

Cards == {x.card : x \in Rows}
Of(rows, c) == {x \in rows : x.card = c}
CardsOf(rows) == {x.card : x \in rows}

Run == [stage: {"idle", "writing", "done", "died"},
        version: 0..MaxVersions, rows: SUBSET Rows, todo: SUBSET Cards, began: 0..MaxRestarts]

STypeOK ==
    /\ version \in 0..MaxVersions /\ table \subseteq Rows
    /\ redis \in [Cards -> Vector \cup {None}]
    /\ restarts \in 0..MaxRestarts
    /\ run \in [Runs -> Run]

SInit ==
    /\ version = 0 /\ table \in SUBSET Rows
    /\ redis = [c \in Cards |-> None]
    /\ restarts = 0
    /\ run = [r \in Runs |-> [stage |-> "idle", version |-> 0, rows |-> {}, todo |-> {}, began |-> 0]]

-----------------------------------------------------------------------------
(* latest_per_entity *)

LastIn(rows, x) == \A y \in rows : y.dt < x.dt \/ (y.dt = x.dt /\ y.id <= x.id)

\* All the rows of an entity that share its last TIME_COL.
LatestInTime(rows, c) == {x \in Of(rows, c) : \A y \in Of(rows, c) : y.dt <= x.dt}

FirstOfLast(rows, c) == LatestInTime(rows, c)   \* mutant: sorted by TIME_COL alone

LastArrived(rows, c) ==         \* mutant: sorted by ID_COL alone
    {x \in Of(rows, c) : \A y \in Of(rows, c) : y.id <= x.id}

\* sort_values([ENTITY_COL, TIME_COL, ID_COL]).groupby(ENTITY_COL).tail(1): one
\* row if the entity has any.  Sorting by fewer columns would allow several.
Latest(rows, c) == {x \in Of(rows, c) : LastIn(Of(rows, c), x)}

-----------------------------------------------------------------------------
(* fstore benchmark *)

\* _cold_recompute sorts by TIME_COL alone and takes any of the last rows.  The
\* --entity of the command line is text, which equals no integer in the column.
ColdRecompute(rows, c, isText) == IF isText THEN {} ELSE LatestInTime(rows, c)

\* The two lookups that are timed: the key of 100 is that of "100".
RunBenchmark(c, isText) == [online |-> redis[c], cold |-> ColdRecompute(table, c, isText)]

-----------------------------------------------------------------------------
(* fstore materialize *)

FloatKeys(r) ==                 \* mutant: row-wise access makes 100 the key 100.0
    /\ run[r].stage = "writing" /\ run[r].todo # {}
    /\ LET c == Min(run[r].todo)
       IN  run' = [run EXCEPT ![r].todo = @ \ {c}]
    /\ UNCHANGED <<version, table, redis, restarts>>

\* read_offline_features and latest_per_entity: one version, in memory.
StartRun(r) ==
    /\ run[r].stage = "idle"
    /\ run' = [run EXCEPT ![r] = [stage |-> "writing", version |-> version, rows |-> table,
                                  todo |-> CardsOf(table), began |-> restarts]]
    /\ UNCHANGED <<version, table, redis, restarts>>

WriteOrStartOver(r) ==          \* mutant: an error is met by going through the entities again
    /\ run[r].stage = "writing" /\ run[r].todo # {}
    /\ LET c == Min(run[r].todo)
       IN  /\ \E x \in Latest(run[r].rows, c) :
                 redis' = [redis EXCEPT ![c] = [row |-> x, version |-> run[r].version]]
           /\ \E rest \in {run[r].todo \ {c}, CardsOf(run[r].rows)} :
                 run' = [run EXCEPT ![r].todo = rest]
    /\ UNCHANGED <<version, table, restarts>>

\* One SET per entity, in the order of the entities.
WriteVector(r) ==
    /\ run[r].stage = "writing" /\ run[r].todo # {}
    /\ LET c == Min(run[r].todo)
       IN  /\ \E x \in Latest(run[r].rows, c) :
                 redis' = [redis EXCEPT ![c] = [row |-> x, version |-> run[r].version]]
           /\ run' = [run EXCEPT ![r].todo = @ \ {c}]
    /\ UNCHANGED <<version, table, restarts>>

FinishRun(r) ==
    /\ run[r].stage = "writing" /\ run[r].todo = {}
    /\ run' = [run EXCEPT ![r].stage = "done"]
    /\ UNCHANGED <<version, table, redis, restarts>>

\* Redis cannot be reached, or the process dies: the keys written so far stay.
RunDies(r) ==
    /\ run[r].stage = "writing"
    /\ run' = [run EXCEPT ![r].stage = "died"]
    /\ UNCHANGED <<version, table, redis, restarts>>

(* The environment *)

\* The feature job commits another version; overlapping jobs may publish any.
OverwriteTable(rows) ==
    /\ version < MaxVersions
    /\ version' = version + 1
    /\ table' = rows
    /\ UNCHANGED <<redis, restarts, run>>

RestartRedis ==
    /\ restarts < MaxRestarts
    /\ restarts' = restarts + 1
    /\ redis' = [c \in Cards |-> None]
    /\ UNCHANGED <<version, table, run>>

RunsAreOver ==
    /\ \A r \in Runs : run[r].stage \in {"done", "died"}
    /\ UNCHANGED svars

SNext ==
    \/ \E r \in Runs : StartRun(r) \/ WriteVector(r) \/ FinishRun(r) \/ RunDies(r)
    \/ \E rows \in SUBSET Rows : OverwriteTable(rows)
    \/ RestartRedis
    \/ RunsAreOver

SSpec == SInit /\ [][SNext]_svars

-----------------------------------------------------------------------------
(* Properties *)

Started == {r \in Runs : run[r].stage # "idle"}

(***************************************************************************)
(* "Idempotent: re-running against the same offline snapshot overwrites    *)
(* each entity's key with the same value" (materialize): two vectors of    *)
(* one version never differ, also when runs overlap, die or are repeated,  *)
(* and what is stored once for a version is not changed by a run of it.    *)
(***************************************************************************)
RerunsAgree ==
    [][\A c \in Cards :
          redis[c] # None /\ redis'[c] # None /\ redis'[c].version = redis[c].version =>
              redis'[c] = redis[c]]_svars

(***************************************************************************)
(* A run that finished has made every entity of its snapshot known, and    *)
(* what is served for them is its own last row or that of a run that was   *)
(* started too: nothing is skipped, whatever the interleaving, as long as  *)
(* Redis keeps its data.                                                   *)
(***************************************************************************)
FinishedRunServes ==
    \A r \in Runs : run[r].stage = "done" /\ run[r].began = restarts =>
        \A c \in CardsOf(run[r].rows) :
            \E q \in Started : \E x \in Of(run[q].rows, c) :
                /\ LastIn(Of(run[q].rows, c), x)
                /\ redis[c] = [row |-> x, version |-> run[q].version]

(***************************************************************************)
(* "online-store lookup latency vs. recomputing an entity's latest feature *)
(* vector cold" (benchmark.py) is a comparison of like with like only for  *)
(* an entity that is given as an integer, as the tests do: what Redis      *)
(* holds of the current table is then one of the rows the other lookup may *)
(* find, whichever run wrote it and however the others ended.  --entity is *)
(* text, and for that the cold lookup that is timed finds nothing.         *)
(***************************************************************************)
OnlyTextMisses ==
    \A c \in Cards, isText \in BOOLEAN : LET found == RunBenchmark(c, isText) IN
        found.online # None /\ found.online.version = version =>
            (found.online.row \in found.cold <=> ~isText)

\* The vector of c is of version v or newer, and no run that has yet to write it
\* read an older one.
Settled(c, v) ==
    /\ redis[c] # None /\ redis[c].version >= v
    /\ \A r \in Runs : run[r].stage = "writing" /\ c \in run[r].todo => run[r].version >= v

(***************************************************************************)
(* materialize compares no as_of: a run may put an older vector over a     *)
(* newer one.  But only a run that had read the older table and not come   *)
(* to this entity when the newer vector was stored: once it is gone, no    *)
(* order of runs, overwrites and deaths takes the entity back.             *)
(***************************************************************************)
NeverBackOnceSettled ==
    [][\A c \in Cards, v \in 0..MaxVersions :
          Settled(c, v) => redis'[c] = None \/ Settled(c, v)']_svars
=============================================================================
