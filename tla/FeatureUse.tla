------------------------------- MODULE FeatureUse -------------------------------
(***************************************************************************)
(* What is done with the offline table of VelocityFeatures: training cuts  *)
(* it in two, point_in_time_join attaches its rows to events, and          *)
(* materialize and build_feature_row serve its last row of each card.      *)
(* None of them changes a table; what they read, two commits apart, may    *)
(* differ.                                                                 *)
(***************************************************************************)
EXTENDS VelocityFeatures

CONSTANTS
    TestParts, Parts,   \* test_fraction = TestParts / Parts
    EventTimes          \* when the events happen that features are joined to

ASSUME UseAssumption ==
    /\ Parts \in Nat /\ TestParts \in 1..(Parts - 1)
    /\ EventTimes \subseteq Int

Known == DOMAIN offline
KnownOf(c) == {u \in Known : u.card = c}

-----------------------------------------------------------------------------
(* training *)

\* int(n * (1 - test_fraction)): a product that is a whole number may come out
\* just below it in floating point.
SplitPoints(n) ==
    LET whole == n * (Parts - TestParts)
    IN  {whole \div Parts} \cup
        (IF whole > 0 /\ whole % Parts = 0 THEN {whole \div Parts - 1} ELSE {})

Shuffled(txns) ==       \* mutant: a random split
    {train \in SUBSET txns : Cardinality(train) \in SplitPoints(Cardinality(txns))}

\* The training sets time_based_split may return: sort_values leaves the order of
\* transactions of one second open, and the cut is made by row count.
Splits(txns) ==
    {train \in SUBSET txns :
        /\ Cardinality(train) \in SplitPoints(Cardinality(txns))
        /\ \A a \in train, b \in txns \ train : a.dt <= b.dt}

FeatureColumns ==
    {"entity_txn_count_1h", "entity_txn_count_24h", "entity_prior_txn_count",
     "entity_prior_amt_mean", "entity_prior_amt_stddev", "entity_amt_zscore",
     "entity_time_since_last_txn", "email_txn_count_24h"}

\* FEATURE_COLUMNS of one row: its amount, and its computed features.
ModelRow(amt, features) == [TransactionAmt |-> amt, features |-> features]
TrainingRow(t) == ModelRow(t.amt, offline[t])

-----------------------------------------------------------------------------
(* feature_store *)

AsOfInclusive(c, time) ==   \* mutant: allow_exact_matches left at its default
    LET before == {u \in KnownOf(c) : u.dt <= time}
    IN  {u \in before : \A v \in before : v.dt <= u.dt}

\* The rows merge_asof may match with an event of card c: the last before it, more
\* than one when they share a second, none when the card has no history by then.
AsOf(c, time) ==
    LET before == {u \in KnownOf(c) : u.dt < time}
    IN  {u \in before : \A v \in before : v.dt <= u.dt}

HighestId(c) == {u \in KnownOf(c) : \A v \in KnownOf(c) : v.id <= u.id}   \* mutant: sorted by id only

\* latest_per_entity: the last row of card c, if it has one.
Latest(c) ==
    {u \in KnownOf(c) : \A v \in KnownOf(c) : v.dt < u.dt \/ (v.dt = u.dt /\ v.id <= u.id)}

-----------------------------------------------------------------------------
(* serving *)

NoFeatures == [column \in FeatureColumns |-> Null]

StoredAmount(amt, vector) ==    \* mutant: every column taken from the vector
    IF vector = {} THEN ModelRow(amt, NoFeatures)
    ELSE LET u == CHOOSE u \in vector : TRUE IN ModelRow(u.amt, offline[u])

\* The request's amount, and the stored features: nulls if there is no vector.
BuildFeatureRow(amt, vector) ==
    IF vector = {} THEN ModelRow(amt, NoFeatures)
    ELSE ModelRow(amt, offline[CHOOSE u \in vector : TRUE])

\* What /score gives the model just after a materialize run.
ServedRow(c, amt) == BuildFeatureRow(amt, Latest(c))

-----------------------------------------------------------------------------
(* Properties *)

(***************************************************************************)
(* time_based_split: "shuffling would let the model train on transactions  *)
(* that happen after some of its own test transactions".  A row it trains  *)
(* on has the features it would have had if no test transaction had ever   *)
(* happened, though they were computed from the table of both; but for a 0 *)
(* where lag() found a test transaction of the same second.                *)
(***************************************************************************)
TrainSeesNoTest ==
    \A train \in Splits(Known) : \A t \in train :
        SameButForTies(offline[t], Velocity(train, t))

(***************************************************************************)
(* point_in_time_join: "attach feature values to a labeled training event  *)
(* using only the feature history that existed strictly before that        *)
(* event".  What may be attached is the same, value for value, as long as  *)
(* commits add or lose nothing earlier than the event.                     *)
(***************************************************************************)
JoinIsPointInTime ==
    [][LET moved == (Known \ Known') \cup (Known' \ Known)
       IN  \A c \in Cards, time \in EventTimes :
              (\A u \in moved : u.dt >= time) =>
                  /\ AsOf(c, time) = AsOf(c, time)'
                  /\ \A u \in AsOf(c, time) : offline[u] = offline'[u]]_fvars

(***************************************************************************)
(* "The most recent feature row for each entity -- what the online store   *)
(* holds": /score gives the model the request's amount and the features    *)
(* that point_in_time_join would attach to an event happening now, though  *)
(* the two choose the row by different code.                               *)
(***************************************************************************)
ServingMatchesJoin ==
    \A c \in Cards, time \in EventTimes, amt \in Amounts :
        (\A u \in KnownOf(c) : u.dt < time) =>
            IF AsOf(c, time) = {}
            THEN ServedRow(c, amt) = ModelRow(amt, NoFeatures)
            ELSE \E u \in AsOf(c, time) :
                     ServedRow(c, amt) = [TrainingRow(u) EXCEPT !.TransactionAmt = amt]

(***************************************************************************)
(* What is served describes the card's last transaction, not the one being *)
(* scored: training would count, for the latter, what was served and every *)
(* transaction of that last second besides, never fewer.  A card without a *)
(* vector is served nulls (model.py) where training would count zero.      *)
(***************************************************************************)
ServedLags ==
    \A t \in Txn :
        (\A u \in Known : u.id # t.id) /\ (\A u \in KnownOf(t.card) : u.dt < t.dt) =>
            LET trained == Cardinality(AllPrior(Known \cup {t}, t))
                served == ServedRow(t.card, t.amt).features.entity_prior_txn_count
            IN  IF KnownOf(t.card) = {} THEN trained = 0 /\ served = Null
                ELSE trained = served + Cardinality(AsOf(t.card, t.dt))
=============================================================================
