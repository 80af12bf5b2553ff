---------------------------- MODULE VelocityFeatures ----------------------------
(***************************************************************************)
(* feature_engineering: the window functions of Features.scala over the    *)
(* raw transactions, and the job that reads the raw table, computes them   *)
(* and overwrites the offline table.  Transactions arrive in any order     *)
(* while jobs run; a job may die, and two jobs may overlap.                *)
(***************************************************************************)
EXTENDS Integers, FiniteSets, FiniteSetsExt

CONSTANTS
    Cards, Emails,  \* card1 and P_emaildomain
    Amounts,        \* TransactionAmt
    Times,          \* TransactionDT
    Ids,            \* TransactionID
    Hour, Day,      \* OneHourSeconds and OneDaySeconds
    Null,           \* SQL's null
    Jobs            \* runs of the feature job

ASSUME FeaturesAssumption ==
    /\ Amounts \subseteq Int /\ Times \subseteq Int /\ Ids \subseteq Int
    /\ Hour \in Nat /\ Day \in Nat /\ Hour <= Day
    /\ Null \notin Int

VARIABLES
    raw,        \* the transaction table
    offline,    \* the offline table: a row of features per transaction
    job         \* the jobs and the transactions each of them has read

fvars == <<raw, offline, job>>

Txn == [id: Ids, card: Cards, email: Emails \cup {Null}, dt: Times, amt: Amounts]

-----------------------------------------------------------------------------
(* The windows *)

InclusiveTrailing(key, txns, t, span) ==    \* mutant: rangeBetween(-span, 0)
    {u \in txns : u[key] = t[key] /\ t.dt - span <= u.dt /\ u.dt <= t.dt}

ShortTrailing(key, txns, t, span) ==        \* mutant: the lower bound taken as exclusive
    {u \in txns : u[key] = t[key] /\ t.dt - span < u.dt /\ u.dt <= t.dt - 1}

\* partitionBy(key).orderBy(TimeCol).rangeBetween(-span, -1)
Trailing(key, txns, t, span) ==
    {u \in txns : u[key] = t[key] /\ t.dt - span <= u.dt /\ u.dt <= t.dt - 1}

\* rangeBetween(unboundedPreceding, -1)
AllPrior(txns, t) == {u \in txns : u.card = t.card /\ u.dt <= t.dt - 1}

\* The rows before t in partitionBy(EntityCol).orderBy(TimeCol, IdCol).
Preceding(txns, t) ==
    {u \in txns : u.card = t.card /\ (u.dt < t.dt \/ (u.dt = t.dt /\ u.id < t.id))}

\* avg and stddev_samp are kept as the exact sums they are computed from.
Amount(u) == u.amt
SquaredAmount(u) == u.amt * u.amt
Sum(W) == MapThenSumSet(Amount, W)
Spread(W) == Cardinality(W) * MapThenSumSet(SquaredAmount, W) - Sum(W) * Sum(W)

Mean(W) == IF W = {} THEN Null ELSE [sum |-> Sum(W), n |-> Cardinality(W)]
Stddev(W) == IF Cardinality(W) < 2 THEN Null ELSE [spread |-> Spread(W), n |-> Cardinality(W)]

UnguardedZscore(W, t) ==        \* mutant: without the === 0.0 test
    IF Cardinality(W) < 2 THEN Null
    ELSE [above |-> Cardinality(W) * t.amt - Sum(W), over |-> Spread(W)]

\* How far t is from the mean of W, over a standard deviation that is not zero.
Zscore(W, t) ==
    IF Cardinality(W) < 2 \/ Spread(W) = 0 THEN Null
    ELSE [above |-> Cardinality(W) * t.amt - Sum(W), over |-> Spread(W)]

SinceLast(txns, t) ==
    IF Preceding(txns, t) = {} THEN Null ELSE t.dt - Max({u.dt : u \in Preceding(txns, t)})

\* The columns computeVelocityFeatures adds.
Velocity(txns, t) ==
    [entity_txn_count_1h |-> Cardinality(Trailing("card", txns, t, Hour)),
     entity_txn_count_24h |-> Cardinality(Trailing("card", txns, t, Day)),
     entity_prior_txn_count |-> Cardinality(AllPrior(txns, t)),
     entity_prior_amt_mean |-> Mean(AllPrior(txns, t)),
     entity_prior_amt_stddev |-> Stddev(AllPrior(txns, t)),
     entity_amt_zscore |-> Zscore(AllPrior(txns, t), t),
     entity_time_since_last_txn |-> SinceLast(txns, t),
     email_txn_count_24h |-> IF t.email = Null THEN Null
                             ELSE Cardinality(Trailing("email", txns, t, Day))]

FeatureTable(txns) == [t \in txns |-> Velocity(txns, t)]

-----------------------------------------------------------------------------
(* The job *)

Idle == [stage |-> "idle", txns |-> {}]

VTypeOK ==
    /\ raw \subseteq Txn /\ DOMAIN offline \subseteq Txn
    /\ \A t \in DOMAIN offline :
          /\ offline[t].entity_txn_count_1h \in Nat /\ offline[t].entity_txn_count_24h \in Nat
          /\ offline[t].entity_prior_txn_count \in Nat
          /\ offline[t].entity_prior_amt_mean \in [sum: Int, n: Nat \ {0}] \cup {Null}
          /\ offline[t].entity_prior_amt_stddev \in [spread: Nat, n: Nat \ {0, 1}] \cup {Null}
          /\ offline[t].entity_amt_zscore \in [above: Int, over: Nat \ {0}] \cup {Null}
          /\ offline[t].entity_time_since_last_txn \in Nat \cup {Null}
          /\ offline[t].email_txn_count_24h \in Nat \cup {Null}
    /\ job \in [Jobs -> [stage: {"idle", "read", "done"}, txns: SUBSET Txn]]

VInit ==
    /\ raw = {}
    /\ offline = FeatureTable({})
    /\ job = [j \in Jobs |-> Idle]

\* A transaction is loaded: its time may be any, its id is new (a repeated load would
\* append it again, see Ingestion).
Load(t) ==
    /\ \A u \in raw : u.id # t.id
    /\ raw' = raw \cup {t}
    /\ UNCHANGED <<offline, job>>

\* spark.read sees the table as it is at one moment.
ReadRaw(j) ==
    /\ job[j].stage = "idle"
    /\ job' = [job EXCEPT ![j] = [stage |-> "read", txns |-> raw]]
    /\ UNCHANGED <<raw, offline>>

\* The session stops, and what it read is gone.
Ends(j) == job' = [job EXCEPT ![j] = [stage |-> "done", txns |-> {}]]

\* mode("overwrite"): one commit replaces the whole table.  A Delta writer that finds
\* another's commit since it began may fail instead: JobFails.
Overwrite(j) ==
    /\ job[j].stage = "read"
    /\ offline' = FeatureTable(job[j].txns)
    /\ Ends(j)
    /\ UNCHANGED raw

\* An uncommitted write is not seen by anyone.
JobFails(j) ==
    /\ job[j].stage = "read"
    /\ Ends(j)
    /\ UNCHANGED <<raw, offline>>

JobsAreOver ==
    /\ \A j \in Jobs : job[j].stage = "done"
    /\ UNCHANGED fvars

VNext ==
    \/ \E t \in Txn : Load(t)
    \/ \E j \in Jobs : ReadRaw(j) \/ Overwrite(j) \/ JobFails(j)
    \/ JobsAreOver

VSpec == VInit /\ [][VNext]_fvars

-----------------------------------------------------------------------------
(* Properties *)

\* Do two rows of features agree, unless lag() finds a transaction of the same second
\* for one of them?
SameButForTies(x, y) ==
    /\ [x EXCEPT !.entity_time_since_last_txn = Null] = [y EXCEPT !.entity_time_since_last_txn = Null]
    /\ \/ x.entity_time_since_last_txn = y.entity_time_since_last_txn
       \/ 0 \in {x.entity_time_since_last_txn, y.entity_time_since_last_txn}

(***************************************************************************)
(* "Every feature value computed for a transaction must be identical       *)
(* whether or not future transactions exist in the input": whatever is     *)
(* loaded between two commits, in whatever order they come, a row that is  *)
(* in both keeps its features unless an earlier transaction was added or   *)
(* lost.  "A same-second predecessor is possible for that one feature"     *)
(* (lag) and is all that may be: the time since the last transaction is    *)
(* then 0, and never that of another earlier one.                          *)
(***************************************************************************)
PointInTime ==
    [][\A t \in DOMAIN offline \cap DOMAIN offline' :
          LET moved == (DOMAIN offline \ DOMAIN offline') \cup (DOMAIN offline' \ DOMAIN offline)
          IN  /\ (\A u \in moved : u.dt >= t.dt) => SameButForTies(offline[t], offline'[t])
              /\ (\A u \in moved : u.dt > t.dt) => offline[t] = offline'[t]]_fvars

(***************************************************************************)
(* RANGE and ROW frames tell one story: the last transaction an entity     *)
(* made is inside a trailing window exactly when it is that long ago, and  *)
(* the windows are nested.                                                 *)
(***************************************************************************)
FramesAgree ==
    \A t \in DOMAIN offline :
        LET f == offline[t]
            since == f.entity_time_since_last_txn
        IN  /\ f.entity_txn_count_1h <= f.entity_txn_count_24h
            /\ f.entity_txn_count_24h <= f.entity_prior_txn_count
            /\ since = Null => f.entity_prior_txn_count = 0
            /\ since \notin {Null, 0} =>
                  /\ f.entity_prior_txn_count > 0
                  /\ f.entity_txn_count_1h > 0 <=> since <= Hour
                  /\ f.entity_txn_count_24h > 0 <=> since <= Day
=============================================================================
