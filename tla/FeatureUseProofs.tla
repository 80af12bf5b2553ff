--------------------------- MODULE FeatureUseProofs ---------------------------
(***************************************************************************)
(* Proofs that the features are point-in-time safe, and that training and  *)
(* the point-in-time join see no future, for any cards, times, amounts,    *)
(* windows, splits and event times and any number of overlapping jobs.     *)
(* The offline table is always the feature table of the transactions in it *)
(* (Computed: an overwrite replaces all of it), and a window that ends one *)
(* second before t is the same set in two tables that differ only in       *)
(* transactions that are not earlier than t (SameVelocity).                *)
(*                                                                         *)
(* As the tables are finite, an entity with rows has a last one: the join, *)
(* the online store and lag() all find it, each by its own code.  And sums *)
(* over a frame add up in any order, which keeps variances from negatives. *)
(***************************************************************************)
EXTENDS FeatureUse, FiniteInduction

\* What an overwrite leaves is computed from one reading of the raw table.
Computed ==
    /\ raw \subseteq Txn
    /\ job \in [Jobs -> [stage: {"idle", "read", "done"}, txns: SUBSET Txn]]
    /\ DOMAIN offline \subseteq Txn
    /\ offline = FeatureTable(DOMAIN offline)

-----------------------------------------------------------------------------
LEMMA SameWindows ==
    ASSUME NEW A \in SUBSET Txn, NEW B \in SUBSET Txn, NEW t \in A \cap B,
           \A u \in (A \ B) \cup (B \ A) : u.dt >= t.dt
    PROVE  /\ \A key \in {"card", "email"} : \A span \in Nat :
                  Trailing(key, A, t, span) = Trailing(key, B, t, span)
           /\ AllPrior(A, t) = AllPrior(B, t)
  <1>1. \A u \in A \cup B : u.dt \in Int
    BY FeaturesAssumption DEF Txn
  <1>2. \A u \in A \cup B : u.dt <= t.dt - 1 => (u \in A <=> u \in B)
    BY <1>1
  <1>3. ASSUME NEW key \in {"card", "email"}, NEW span \in Nat
        PROVE  Trailing(key, A, t, span) = Trailing(key, B, t, span)
    BY <1>2 DEF Trailing
  <1>4. AllPrior(A, t) = AllPrior(B, t)
    BY <1>2 DEF AllPrior
  <1> QED
    BY <1>3, <1>4

LEMMA SamePreceding ==
    ASSUME NEW A \in SUBSET Txn, NEW B \in SUBSET Txn, NEW t \in A \cap B,
           \A u \in (A \ B) \cup (B \ A) : u.dt > t.dt
    PROVE  Preceding(A, t) = Preceding(B, t)
  <1>1. \A u \in A \cup B : u.dt \in Int
    BY FeaturesAssumption DEF Txn
  <1>2. \A u \in A \cup B : u.dt < t.dt \/ u.dt = t.dt => (u \in A <=> u \in B)
    BY <1>1
  <1> QED
    BY <1>2 DEF Preceding

\* A transaction of the same second that lag() orders before t.
Tied(A, t) == \E u \in Preceding(A, t) : u.dt = t.dt

LEMMA TiedSince ==
    ASSUME NEW A \in SUBSET Txn, NEW t \in A, Tied(A, t)
    PROVE  SinceLast(A, t) = 0
  <1> DEFINE D == {u.dt : u \in Preceding(A, t)}
  <1>1. t.dt \in Int /\ \A u \in A : u.dt \in Int
    BY FeaturesAssumption DEF Txn
  <1>2. t.dt \in D /\ Preceding(A, t) # {}
    BY DEF Tied
  <1>3. \A d \in D : d \in Int /\ d <= t.dt
    BY <1>1 DEF Preceding
  <1>4. Max(D) \in D /\ \A d \in D : Max(D) >= d
    <2> HIDE DEF D
    <2>1. \E x \in D : \A d \in D : x >= d
      BY <1>1, <1>2, <1>3
    <2> QED
      BY <2>1 DEF Max
  <1>5. Max(D) = t.dt
    <2> HIDE DEF D
    <2>1. Max(D) \in Int /\ Max(D) <= t.dt
      BY <1>3, <1>4
    <2>2. Max(D) >= t.dt
      BY <1>2, <1>4
    <2> QED
      BY <1>1, <2>1, <2>2
  <1> QED
    BY <1>1, <1>2, <1>5 DEF SinceLast

LEMMA UntiedPreceding ==
    ASSUME NEW A \in SUBSET Txn, NEW B \in SUBSET Txn, NEW t \in A \cap B,
           \A u \in (A \ B) \cup (B \ A) : u.dt >= t.dt, ~Tied(A, t), ~Tied(B, t)
    PROVE  Preceding(A, t) = Preceding(B, t)
  <1>1. \A u \in A \cup B : u.dt \in Int
    BY FeaturesAssumption DEF Txn
  <1>2. \A u \in A \cup B : u.dt < t.dt => (u \in A <=> u \in B)
    BY <1>1
  <1>3. /\ \A u \in Preceding(A, t) : u.dt < t.dt
        /\ \A u \in Preceding(B, t) : u.dt < t.dt
    BY DEF Preceding, Tied
  <1> QED
    BY <1>2, <1>3 DEF Preceding

LEMMA SameSince ==
    ASSUME NEW A \in SUBSET Txn, NEW B \in SUBSET Txn, NEW t \in A \cap B,
           \A u \in (A \ B) \cup (B \ A) : u.dt >= t.dt
    PROVE  SinceLast(A, t) = SinceLast(B, t) \/ 0 \in {SinceLast(A, t), SinceLast(B, t)}
  <1>1. CASE Tied(A, t) \/ Tied(B, t)
    BY <1>1, TiedSince
  <1>2. CASE ~Tied(A, t) /\ ~Tied(B, t)
    BY <1>2, UntiedPreceding DEF SinceLast
  <1> QED
    BY <1>1, <1>2

\* The features of t in two tables of transactions.
LEMMA SameVelocity ==
    ASSUME NEW A \in SUBSET Txn, NEW B \in SUBSET Txn, NEW t \in A \cap B,
           \A u \in (A \ B) \cup (B \ A) : u.dt >= t.dt
    PROVE  /\ SameButForTies(Velocity(A, t), Velocity(B, t))
           /\ (\A u \in (A \ B) \cup (B \ A) : u.dt > t.dt) => Velocity(A, t) = Velocity(B, t)
  <1>1. /\ Trailing("card", A, t, Hour) = Trailing("card", B, t, Hour)
        /\ Trailing("card", A, t, Day) = Trailing("card", B, t, Day)
        /\ Trailing("email", A, t, Day) = Trailing("email", B, t, Day)
        /\ AllPrior(A, t) = AllPrior(B, t)
    BY SameWindows, FeaturesAssumption
  <1>2. SameButForTies(Velocity(A, t), Velocity(B, t))
    BY <1>1, SameSince DEF Velocity, SameButForTies
  <1>3. ASSUME \A u \in (A \ B) \cup (B \ A) : u.dt > t.dt
        PROVE  Velocity(A, t) = Velocity(B, t)
    <2>1. Preceding(A, t) = Preceding(B, t)
      BY <1>3, SamePreceding
    <2> QED
      BY <1>1, <2>1 DEF Velocity, SinceLast
  <1> QED
    BY <1>2, <1>3

-----------------------------------------------------------------------------
LEMMA TableDomain == ASSUME NEW S PROVE DOMAIN FeatureTable(S) = S
  BY DEF FeatureTable

LEMMA ComputedInit == VInit => Computed
  <1> SUFFICES ASSUME VInit PROVE Computed
    OBVIOUS
  <1>1. DOMAIN offline = {} /\ offline = FeatureTable({})
    BY TableDomain DEF VInit
  <1> QED
    BY <1>1 DEF VInit, Computed, Idle

LEMMA ComputedStep == Computed /\ [VNext]_fvars => Computed'
  <1> SUFFICES ASSUME Computed, [VNext]_fvars PROVE Computed'
    OBVIOUS
  <1>1. ASSUME NEW t \in Txn, Load(t) PROVE Computed'
    BY <1>1 DEF Load, Computed
  <1>2. ASSUME NEW j \in Jobs, ReadRaw(j) PROVE Computed'
    BY <1>2 DEF ReadRaw, Computed
  <1>3. ASSUME NEW j \in Jobs, Overwrite(j) PROVE Computed'
    <2>1. job[j].txns \subseteq Txn
      BY DEF Computed
    <2>2. offline' = FeatureTable(job[j].txns) /\ DOMAIN offline' = job[j].txns
      BY <1>3, TableDomain DEF Overwrite
    <2>3. job' \in [Jobs -> [stage: {"idle", "read", "done"}, txns: SUBSET Txn]]
      BY <1>3 DEF Overwrite, Ends, Computed
    <2>4. raw' = raw
      BY <1>3 DEF Overwrite
    <2> QED
      BY <2>1, <2>2, <2>3, <2>4 DEF Computed
  <1>4. ASSUME NEW j \in Jobs, JobFails(j) PROVE Computed'
    BY <1>4 DEF JobFails, Ends, Computed
  <1>5. CASE UNCHANGED fvars
    BY <1>5 DEF fvars, Computed
  <1> QED
    BY <1>1, <1>2, <1>3, <1>4, <1>5 DEF VNext, JobsAreOver

(***************************************************************************)
(* The offline table is computed in one go from the rows it has.           *)
(***************************************************************************)
THEOREM OfflineIsComputed == VSpec => []Computed
  BY ComputedInit, ComputedStep, PTL DEF VSpec

(***************************************************************************)
(* No leakage from the future, for every history and every pair of         *)
(* consecutive commits: the guarantee PointInTimeLeakageSpec tests with    *)
(* one history and one future row.                                         *)
(***************************************************************************)
THEOREM NoLeakage == VSpec => PointInTime
  <1> DEFINE moved == (DOMAIN offline \ DOMAIN offline') \cup (DOMAIN offline' \ DOMAIN offline)
             Kept == \A t \in DOMAIN offline \cap DOMAIN offline' :
                        /\ (\A u \in moved : u.dt >= t.dt) => SameButForTies(offline[t], offline'[t])
                        /\ (\A u \in moved : u.dt > t.dt) => offline[t] = offline'[t]
  <1>1. Computed /\ Computed' => Kept
    <2> SUFFICES ASSUME Computed, Computed' PROVE Kept
      OBVIOUS
    <2> DEFINE A == DOMAIN offline
               B == DOMAIN offline'
    <2>1. A \in SUBSET Txn /\ B \in SUBSET Txn
      BY DEF Computed
    <2>2. /\ \A t \in A : offline[t] = Velocity(A, t)
          /\ \A t \in B : offline'[t] = Velocity(B, t)
      BY DEF Computed, FeatureTable
    <2>3. \A u \in A \cup B : u.dt \in Int
      BY <2>1, FeaturesAssumption DEF Txn
    <2> SUFFICES ASSUME NEW t \in A \cap B
                 PROVE  /\ (\A u \in moved : u.dt >= t.dt) => SameButForTies(offline[t], offline'[t])
                        /\ (\A u \in moved : u.dt > t.dt) => offline[t] = offline'[t]
      OBVIOUS
    <2>4. (\A u \in moved : u.dt > t.dt) => \A u \in moved : u.dt >= t.dt
      BY <2>3
    <2> QED
      BY <2>1, <2>2, <2>4, SameVelocity
  <1>2. Computed /\ Computed' => [Kept]_fvars
    BY <1>1
  <1> QED
    BY <1>2, OfflineIsComputed, PTL DEF PointInTime

-----------------------------------------------------------------------------
LEMMA ComputedRows == Computed => Known \in SUBSET Txn /\ \A t \in Known : offline[t] = Velocity(Known, t)
  BY DEF Computed, FeatureTable, Known

-----------------------------------------------------------------------------
(***************************************************************************)
(* Training learns nothing from its test rows, wherever the cut falls and  *)
(* however the transactions of one second are ordered: the rows left out   *)
(* are no earlier than those kept, and such rows change no window.         *)
(***************************************************************************)
THEOREM TrainingIsBlind == VSpec => []TrainSeesNoTest
  <1>1. Computed => TrainSeesNoTest
    <2> SUFFICES ASSUME Computed, NEW train \in Splits(Known), NEW t \in train
                 PROVE  SameButForTies(offline[t], Velocity(train, t))
      BY DEF TrainSeesNoTest
    <2>1. Known \in SUBSET Txn /\ \A u \in Known : offline[u] = Velocity(Known, u)
      BY ComputedRows
    <2>2. train \in SUBSET Known /\ \A b \in Known \ train : t.dt <= b.dt
      BY DEF Splits
    <2>3. \A u \in Known : u.dt \in Int
      BY <2>1, FeaturesAssumption DEF Txn
    <2>4. \A u \in (Known \ train) \cup (train \ Known) : u.dt >= t.dt
      BY <2>2, <2>3
    <2>5. train \in SUBSET Txn /\ t \in Known \cap train
      BY <2>1, <2>2
    <2>6. SameButForTies(Velocity(Known, t), Velocity(train, t))
      BY <2>1, <2>4, <2>5, SameVelocity
    <2> QED
      BY <2>1, <2>5, <2>6
  <1> QED
    BY <1>1, OfflineIsComputed, PTL

-----------------------------------------------------------------------------
\* What an event of card c may be joined with, in a table of transactions A.
Candidates(A, c, time) ==
    LET before == {u \in {w \in A : w.card = c} : u.dt < time}
    IN  {u \in before : \A v \in before : v.dt <= u.dt}

\* Tables that differ only from `time` on offer an event at `time` the same rows.
LEMMA SameCandidates ==
    ASSUME NEW A \in SUBSET Txn, NEW B \in SUBSET Txn, NEW c, NEW time \in Int,
           \A u \in (A \ B) \cup (B \ A) : u.dt >= time
    PROVE  Candidates(A, c, time) = Candidates(B, c, time)
  <1>1. \A u \in A \cup B : u.dt \in Int
    BY FeaturesAssumption DEF Txn
  <1>2. \A u \in A \cup B : u.dt < time => (u \in A <=> u \in B)
    BY <1>1
  <1>3. {u \in {w \in A : w.card = c} : u.dt < time} = {u \in {w \in B : w.card = c} : u.dt < time}
    BY <1>2
  <1> QED
    BY <1>3 DEF Candidates

\* ... with the same features.
LEMMA SameFeatures ==
    ASSUME NEW A \in SUBSET Txn, NEW B \in SUBSET Txn, NEW c, NEW time \in Int,
           \A u \in (A \ B) \cup (B \ A) : u.dt >= time,
           NEW u \in Candidates(A, c, time)
    PROVE  u \in A \cap B /\ Velocity(A, u) = Velocity(B, u)
  <1>1. \A w \in A \cup B : w.dt \in Int
    BY FeaturesAssumption DEF Txn
  <1>2. u \in A /\ u.dt < time
    BY DEF Candidates
  <1>3. u \in A \cap B
    BY <1>1, <1>2
  <1>4. \A w \in (A \ B) \cup (B \ A) : w.dt > u.dt
    BY <1>1, <1>2
  <1>5. \A w \in (A \ B) \cup (B \ A) : w.dt >= u.dt
    BY <1>1, <1>2
  <1> QED
    BY <1>3, <1>4, <1>5, SameVelocity

(***************************************************************************)
(* A label joined today and one joined after any number of later commits   *)
(* get the same features, as long as nothing earlier than the event was    *)
(* added or lost.                                                          *)
(***************************************************************************)
THEOREM JoinsArePointInTime == VSpec => JoinIsPointInTime
  <1> DEFINE moved == (Known \ Known') \cup (Known' \ Known)
             Same == \A c \in Cards, time \in EventTimes :
                        (\A u \in moved : u.dt >= time) =>
                            /\ AsOf(c, time) = AsOf(c, time)'
                            /\ \A u \in AsOf(c, time) : offline[u] = offline'[u]
  <1>1. Computed /\ Computed' => Same
    <2> SUFFICES ASSUME Computed, Computed', NEW c \in Cards, NEW time \in EventTimes,
                        \A u \in moved : u.dt >= time
                 PROVE  /\ AsOf(c, time) = AsOf(c, time)'
                        /\ \A u \in AsOf(c, time) : offline[u] = offline'[u]
      OBVIOUS
    <2> DEFINE A == DOMAIN offline
               B == DOMAIN offline'
    <2>1. Known = A /\ Known' = B
      BY DEF Known
    <2>2. A \in SUBSET Txn /\ B \in SUBSET Txn
      BY DEF Computed
    <2>3. /\ \A u \in A : offline[u] = Velocity(A, u)
          /\ \A u \in B : offline'[u] = Velocity(B, u)
      BY DEF Computed, FeatureTable
    <2>4. AsOf(c, time) = Candidates(A, c, time) /\ AsOf(c, time)' = Candidates(B, c, time)
      BY DEF AsOf, KnownOf, Known, Candidates
    <2>5. time \in Int /\ \A u \in (A \ B) \cup (B \ A) : u.dt >= time
      BY <2>1, UseAssumption
    <2> HIDE DEF A, B
    <2>6. Candidates(A, c, time) = Candidates(B, c, time)
      BY <2>2, <2>5, SameCandidates
    <2>7. \A u \in Candidates(A, c, time) : u \in A \cap B /\ Velocity(A, u) = Velocity(B, u)
      BY <2>2, <2>5, SameFeatures
    <2> QED
      BY <2>3, <2>4, <2>6, <2>7
  <1>2. Computed /\ Computed' => [Same]_fvars
    BY <1>1
  <1> QED
    BY <1>2, OfflineIsComputed, PTL DEF JoinIsPointInTime

-----------------------------------------------------------------------------
(* Finite tables *)

\* Transactions are loaded one at a time, so every table has an end.
Finite ==
    /\ IsFiniteSet(raw) /\ IsFiniteSet(Known)
    /\ \A j \in Jobs : IsFiniteSet(job[j].txns)

LEMMA FiniteInit == VInit => Finite
  <1> SUFFICES ASSUME VInit PROVE Finite
    OBVIOUS
  <1>1. raw = {} /\ Known = {} /\ \A j \in Jobs : job[j].txns = {}
    BY TableDomain DEF VInit, Known, Idle
  <1> QED
    BY <1>1, FS_EmptySet DEF Finite

LEMMA FiniteStep == Computed /\ Finite /\ [VNext]_fvars => Finite'
  <1> SUFFICES ASSUME Computed, Finite, [VNext]_fvars PROVE Finite'
    OBVIOUS
  <1>1. ASSUME NEW t \in Txn, Load(t) PROVE Finite'
    BY <1>1, FS_AddElement DEF Load, Finite, Known
  <1>2. ASSUME NEW j \in Jobs, ReadRaw(j) PROVE Finite'
    BY <1>2 DEF ReadRaw, Finite, Known, Computed
  <1>3. ASSUME NEW j \in Jobs, Overwrite(j) PROVE Finite'
    <2>1. Known' = job[j].txns /\ raw' = raw
      BY <1>3, TableDomain DEF Overwrite, Known
    <2>2. \A k \in Jobs : job'[k].txns \in {job[k].txns, {}}
      BY <1>3 DEF Overwrite, Ends, Computed
    <2> QED
      BY <2>1, <2>2, FS_EmptySet DEF Finite
  <1>4. ASSUME NEW j \in Jobs, JobFails(j) PROVE Finite'
    <2>1. \A k \in Jobs : job'[k].txns \in {job[k].txns, {}}
      BY <1>4 DEF JobFails, Ends, Computed
    <2> QED
      BY <1>4, <2>1, FS_EmptySet DEF JobFails, Finite, Known
  <1>5. CASE UNCHANGED fvars
    BY <1>5 DEF fvars, Finite, Known
  <1> QED
    BY <1>1, <1>2, <1>3, <1>4, <1>5 DEF VNext, JobsAreOver

(***************************************************************************)
(* The raw table, what the jobs hold and the offline table are finite.     *)
(***************************************************************************)
THEOREM TablesAreFinite == VSpec => []Finite
  <1>1. Computed /\ Finite /\ [VNext]_fvars => Finite'
    BY FiniteStep
  <1> QED
    BY <1>1, FiniteInit, OfflineIsComputed, PTL DEF VSpec

-----------------------------------------------------------------------------
\* The columns of a row of features, by name.
LEMMA Columns ==
    ASSUME NEW txns, NEW t
    PROVE  LET f == Velocity(txns, t) IN
           /\ f.entity_txn_count_1h = Cardinality(Trailing("card", txns, t, Hour))
           /\ f.entity_txn_count_24h = Cardinality(Trailing("card", txns, t, Day))
           /\ f.entity_prior_txn_count = Cardinality(AllPrior(txns, t))
           /\ f.entity_prior_amt_mean = Mean(AllPrior(txns, t))
           /\ f.entity_prior_amt_stddev = Stddev(AllPrior(txns, t))
           /\ f.entity_amt_zscore = Zscore(AllPrior(txns, t), t)
           /\ f.entity_time_since_last_txn = SinceLast(txns, t)
           /\ f.email_txn_count_24h = IF t.email = Null THEN Null
                                      ELSE Cardinality(Trailing("email", txns, t, Day))
  BY DEF Velocity

-----------------------------------------------------------------------------
(* The last row of a card *)

\* Of finitely many rows, one is the last by time, and one by time and id.
LEMMA LastByTime ==
    ASSUME NEW S \in SUBSET Txn, IsFiniteSet(S), S # {}
    PROVE  \E u \in S : \A v \in S : v.dt <= u.dt
  <1> DEFINE R == {p \in S \X S : p[1].dt <= p[2].dt}
  <1>1. \A x, y \in S : <<x, y>> \in R <=> x.dt <= y.dt
    OBVIOUS
  <1>2. \A x \in S : x.dt \in Int
    BY FeaturesAssumption DEF Txn
  <1> HIDE DEF R
  <1>3. \A x, y \in S : <<x, y>> \in R \/ <<y, x>> \in R
    <2>1. \A i, j \in Int : i <= j \/ j <= i
      OBVIOUS
    <2> QED
      BY <1>1, <1>2, <2>1
  <1>4. \A x, y, z \in S : <<x, y>> \in R /\ <<y, z>> \in R => <<x, z>> \in R
    BY <1>1, <1>2
  <1>5. PICK u \in S : \A v \in S : <<v, u>> \in R
    BY <1>3, <1>4, HasLast
  <1> QED
    BY <1>1, <1>5

NotAfter(v, u) == v.dt < u.dt \/ (v.dt = u.dt /\ v.id <= u.id)

LEMMA LastByTimeAndId ==
    ASSUME NEW S \in SUBSET Txn, IsFiniteSet(S), S # {}
    PROVE  \E u \in S : \A v \in S : NotAfter(v, u)
  <1> DEFINE R == {p \in S \X S : NotAfter(p[1], p[2])}
  <1>1. \A x, y \in S : <<x, y>> \in R <=> NotAfter(x, y)
    OBVIOUS
  <1>2. \A x \in S : x.dt \in Int /\ x.id \in Int
    BY FeaturesAssumption DEF Txn
  <1> HIDE DEF R
  <1>3. \A x, y \in S : <<x, y>> \in R \/ <<y, x>> \in R
    <2>1. \A x, y \in S : NotAfter(x, y) \/ NotAfter(y, x)
      BY <1>2 DEF NotAfter
    <2> QED
      BY <1>1, <2>1
  <1>4. \A x, y, z \in S : <<x, y>> \in R /\ <<y, z>> \in R => <<x, z>> \in R
    BY <1>1, <1>2 DEF NotAfter
  <1>5. PICK u \in S : \A v \in S : <<v, u>> \in R
    BY <1>3, <1>4, HasLast
  <1> QED
    BY <1>1, <1>5

\* What materialize stores for a card with rows is one of the rows with the last
\* time, and what is served comes from it.
LEMMA ServedRowIsLast ==
    ASSUME Computed, Finite, NEW c \in Cards, KnownOf(c) # {}, NEW amt
    PROVE  \E u \in KnownOf(c) : /\ \A v \in KnownOf(c) : v.dt <= u.dt
                                 /\ ServedRow(c, amt) = ModelRow(amt, offline[u])
  <1>1. KnownOf(c) \in SUBSET Txn /\ IsFiniteSet(KnownOf(c))
    BY ComputedRows, FS_Subset DEF KnownOf, Finite
  <1>2. Latest(c) # {}
    BY <1>1, LastByTimeAndId DEF Latest, NotAfter
  <1>3. PICK u \in Latest(c) : u = CHOOSE w \in Latest(c) : TRUE
    BY <1>2
  <1>4. u \in KnownOf(c) /\ \A v \in KnownOf(c) : v.dt <= u.dt
    <2>1. \A v \in KnownOf(c) : v.dt \in Int
      BY <1>1, FeaturesAssumption DEF Txn
    <2> QED
      BY <2>1 DEF Latest
  <1>5. ServedRow(c, amt) = ModelRow(amt, offline[u])
    BY <1>2, <1>3 DEF ServedRow, BuildFeatureRow
  <1> QED
    BY <1>4, <1>5

\* A card without rows is served nulls.
LEMMA ServedNulls ==
    ASSUME NEW c, KnownOf(c) = {}, NEW amt
    PROVE  ServedRow(c, amt) = ModelRow(amt, NoFeatures)
  BY DEF ServedRow, BuildFeatureRow, Latest

(***************************************************************************)
(* No train-serve skew: what /score is given after a materialize run is    *)
(* what point_in_time_join would have attached to an event happening now,  *)
(* for any table and however ids and times are ordered.                    *)
(***************************************************************************)
THEOREM ServingAgreesWithJoin == VSpec => []ServingMatchesJoin
  <1>1. Computed /\ Finite => ServingMatchesJoin
    <2> SUFFICES ASSUME Computed, Finite, NEW c \in Cards, NEW time \in EventTimes, NEW amt \in Amounts,
                        \A u \in KnownOf(c) : u.dt < time
                 PROVE  IF AsOf(c, time) = {}
                        THEN ServedRow(c, amt) = ModelRow(amt, NoFeatures)
                        ELSE \E u \in AsOf(c, time) :
                                ServedRow(c, amt) = [TrainingRow(u) EXCEPT !.TransactionAmt = amt]
      BY DEF ServingMatchesJoin
    <2>1. AsOf(c, time) = {u \in KnownOf(c) : \A v \in KnownOf(c) : v.dt <= u.dt}
      BY DEF AsOf
    <2>2. CASE KnownOf(c) = {}
      BY <2>1, <2>2, ServedNulls
    <2>3. CASE KnownOf(c) # {}
      <3>1. PICK u \in KnownOf(c) : /\ \A v \in KnownOf(c) : v.dt <= u.dt
                                    /\ ServedRow(c, amt) = ModelRow(amt, offline[u])
        BY <2>3, ServedRowIsLast
      <3>2. u \in AsOf(c, time)
        BY <2>1, <3>1
      <3>3. [TrainingRow(u) EXCEPT !.TransactionAmt = amt] = ModelRow(amt, offline[u])
        BY DEF TrainingRow, ModelRow
      <3> QED
        BY <3>1, <3>2, <3>3
    <2> QED
      BY <2>2, <2>3
  <1> QED
    BY <1>1, OfflineIsComputed, TablesAreFinite, PTL

\* What is known of a card is what is before its last row, and the rows of that
\* second.
LEMMA CountUpToLast ==
    ASSUME NEW S \in SUBSET Txn, IsFiniteSet(S), NEW last \in Int, \A v \in S : v.dt <= last
    PROVE  LET before == {v \in S : v.dt <= last - 1}
               at == {v \in S : v.dt = last}
           IN  /\ Cardinality(before) \in Nat /\ Cardinality(at) \in Nat
               /\ Cardinality(S) = Cardinality(before) + Cardinality(at)
  <1> DEFINE before == {v \in S : v.dt <= last - 1}
             at == {v \in S : v.dt = last}
  <1>1. \A v \in S : v.dt \in Int
    BY FeaturesAssumption DEF Txn
  <1>2. S = before \cup at /\ before \cap at = {}
    BY <1>1
  <1>3. IsFiniteSet(before) /\ IsFiniteSet(at)
    BY FS_Subset
  <1> HIDE DEF before, at
  <1>4. Cardinality(before) \in Nat /\ Cardinality(at) \in Nat
    BY <1>3, FS_CardinalityType
  <1>5. Cardinality(S) = Cardinality(before) + Cardinality(at)
    BY <1>2, <1>3, <1>4, FS_Union, FS_EmptySet
  <1> QED
    BY <1>4, <1>5 DEF before, at

(***************************************************************************)
(* How stale a served vector is: it lacks exactly the transactions of the  *)
(* last second the card was seen in.                                       *)
(***************************************************************************)
THEOREM ServingLags == VSpec => []ServedLags
  <1>1. Computed /\ Finite => ServedLags
    <2> SUFFICES ASSUME Computed, Finite, NEW t \in Txn, \A u \in KnownOf(t.card) : u.dt < t.dt
                 PROVE  LET trained == Cardinality(AllPrior(Known \cup {t}, t))
                            served == ServedRow(t.card, t.amt).features.entity_prior_txn_count
                        IN  IF KnownOf(t.card) = {} THEN trained = 0 /\ served = Null
                            ELSE trained = served + Cardinality(AsOf(t.card, t.dt))
      BY DEF ServedLags
    <2> DEFINE S == KnownOf(t.card)
               served == ServedRow(t.card, t.amt).features.entity_prior_txn_count
    <2>1. /\ Known \in SUBSET Txn /\ S \in SUBSET Txn /\ IsFiniteSet(S)
          /\ \A u \in Known : offline[u] = Velocity(Known, u)
      BY ComputedRows, FS_Subset DEF KnownOf, Finite
    <2>2. t.card \in Cards /\ t.dt \in Int /\ \A u \in Known : u.dt \in Int
      BY <2>1, FeaturesAssumption DEF Txn
    <2>3. AllPrior(Known \cup {t}, t) = S
      BY <2>2 DEF AllPrior, KnownOf
    <2>4. CASE S = {}
      <3>1. served = Null
        BY <2>4, ServedNulls DEF ModelRow, NoFeatures, FeatureColumns
      <3> QED
        BY <2>3, <2>4, <3>1, FS_EmptySet
    <2>5. CASE S # {}
      <3>1. PICK u \in S : /\ \A v \in S : v.dt <= u.dt
                           /\ ServedRow(t.card, t.amt) = ModelRow(t.amt, offline[u])
        BY <2>2, <2>5, ServedRowIsLast
      <3>2. u \in Known /\ u.card = t.card /\ u.dt \in Int
        BY <2>2 DEF KnownOf
      <3>3. served = Cardinality(AllPrior(Known, u))
        <4>1. ServedRow(t.card, t.amt).features = offline[u]
          BY <3>1 DEF ModelRow
        <4>2. offline[u].entity_prior_txn_count = Cardinality(AllPrior(Known, u))
          BY <2>1, <3>2, Columns
        <4> QED
          BY <4>1, <4>2
      <3>4. AllPrior(Known, u) = {v \in S : v.dt <= u.dt - 1}
        BY <3>2 DEF AllPrior, KnownOf
      <3>5. AsOf(t.card, t.dt) = {v \in S : v.dt = u.dt}
        BY <2>2, <3>1, <3>2 DEF AsOf, KnownOf
      <3> HIDE DEF S
      <3>6. Cardinality(S) = Cardinality(AllPrior(Known, u)) + Cardinality(AsOf(t.card, t.dt))
        BY <2>1, <3>1, <3>2, <3>4, <3>5, CountUpToLast
      <3> QED
        BY <2>3, <2>5, <3>3, <3>6 DEF S
    <2> QED
      BY <2>4, <2>5
  <1> QED
    BY <1>1, OfflineIsComputed, TablesAreFinite, PTL

-----------------------------------------------------------------------------
(* RANGE and ROW frames *)

\* Frames are finite, so that counting them gives numbers.
LEMMA FrameCounts ==
    ASSUME NEW A \in SUBSET Txn, IsFiniteSet(A), NEW F \in SUBSET A
    PROVE  /\ IsFiniteSet(F) /\ Cardinality(F) \in Nat
           /\ Cardinality(F) > 0 <=> F # {}
  <1>1. IsFiniteSet(F) /\ Cardinality(F) \in Nat /\ (Cardinality(F) = 0 <=> F = {})
    BY FS_Subset, FS_CardinalityType, FS_EmptySet
  <1> QED
    BY <1>1

\* lag() finds the last row before t: what it returns is the time since, and
\* nothing before t is later.
LEMMA LagIsLast ==
    ASSUME NEW A \in SUBSET Txn, IsFiniteSet(A), NEW t \in A, Preceding(A, t) # {}
    PROVE  \E u \in Preceding(A, t) :
              /\ SinceLast(A, t) = t.dt - u.dt /\ u.dt <= t.dt /\ u.dt \in Int /\ t.dt \in Int
              /\ \A v \in Preceding(A, t) : v.dt <= u.dt
  <1> DEFINE P == Preceding(A, t)
             D == {u.dt : u \in P}
  <1>1. P \in SUBSET A /\ IsFiniteSet(P)
    BY FS_Subset DEF Preceding
  <1>2. \A u \in A : u.dt \in Int
    BY FeaturesAssumption DEF Txn
  <1>3. \A u \in P : u.dt <= t.dt
    BY <1>2 DEF Preceding
  <1>4. IsFiniteSet(D)
    <2> DEFINE f == [u \in P |-> u.dt]
    <2>1. f \in Surjection(P, D)
      BY DEF Surjection
    <2> HIDE DEF f, P, D
    <2> QED
      BY <1>1, <2>1, FS_Surjection
  <1>5. D \in SUBSET Int /\ D # {}
    BY <1>1, <1>2
  <1>6. Max(D) \in D /\ \A d \in D : d <= Max(D)
    <2> HIDE DEF D
    <2> QED
      BY <1>4, <1>5, GreatestInt
  <1>7. PICK u \in P : u.dt = Max(D)
    BY <1>6
  <1>8. \A v \in P : v.dt <= u.dt
    BY <1>6, <1>7
  <1>9. SinceLast(A, t) = t.dt - u.dt
    BY <1>7 DEF SinceLast
  <1> QED
    BY <1>1, <1>2, <1>3, <1>8, <1>9

\* A trailing window is not empty exactly when lag() looks no further back.
LEMMA WindowReachesLag ==
    ASSUME NEW A \in SUBSET Txn, NEW t \in A, NEW span \in Nat, NEW u \in Preceding(A, t),
           \A v \in Preceding(A, t) : v.dt <= u.dt, u.dt < t.dt
    PROVE  Trailing("card", A, t, span) # {} <=> t.dt - u.dt <= span
  <1>1. \A v \in A : v.dt \in Int /\ v["card"] = v.card
    BY FeaturesAssumption DEF Txn
  <1>2. u \in A /\ u.card = t.card
    BY DEF Preceding
  <1>3. ASSUME t.dt - u.dt <= span PROVE u \in Trailing("card", A, t, span)
    BY <1>1, <1>2, <1>3 DEF Trailing
  <1>4. ASSUME NEW v \in Trailing("card", A, t, span) PROVE t.dt - u.dt <= span
    <2>1. v \in A /\ v.card = t.card /\ t.dt - span <= v.dt /\ v.dt <= t.dt - 1
      BY <1>1 DEF Trailing
    <2>2. v \in Preceding(A, t)
      BY <1>1, <2>1 DEF Preceding
    <2>3. v.dt <= u.dt
      BY <2>2
    <2> QED
      BY <1>1, <1>2, <2>1, <2>3
  <1> QED
    BY <1>3, <1>4

(***************************************************************************)
(* The RANGE windows of the counts and the ROW window of lag() tell one    *)
(* story of a card, for any history, hour and day.                         *)
(***************************************************************************)
THEOREM FramesTellOneStory == VSpec => []FramesAgree
  <1>1. Computed /\ Finite => FramesAgree
    <2> SUFFICES ASSUME Computed, Finite, NEW t \in Known
                 PROVE  LET f == offline[t]
                            since == f.entity_time_since_last_txn
                        IN  /\ f.entity_txn_count_1h <= f.entity_txn_count_24h
                            /\ f.entity_txn_count_24h <= f.entity_prior_txn_count
                            /\ since = Null => f.entity_prior_txn_count = 0
                            /\ since \notin {Null, 0} =>
                                  /\ f.entity_prior_txn_count > 0
                                  /\ f.entity_txn_count_1h > 0 <=> since <= Hour
                                  /\ f.entity_txn_count_24h > 0 <=> since <= Day
      BY DEF FramesAgree, Known
    <2> DEFINE hour == Trailing("card", Known, t, Hour)
               day == Trailing("card", Known, t, Day)
               prior == AllPrior(Known, t)
               since == SinceLast(Known, t)
    <2>1. Known \in SUBSET Txn /\ IsFiniteSet(Known) /\ offline[t] = Velocity(Known, t)
      BY ComputedRows DEF Finite
    <2>2. /\ offline[t].entity_txn_count_1h = Cardinality(hour)
          /\ offline[t].entity_txn_count_24h = Cardinality(day)
          /\ offline[t].entity_prior_txn_count = Cardinality(prior)
          /\ offline[t].entity_time_since_last_txn = since
      BY <2>1, Columns
    <2>3. \A u \in Known : u.dt \in Int /\ u["card"] = u.card
      BY <2>1, FeaturesAssumption DEF Txn
    <2>4. hour \subseteq day /\ day \subseteq prior /\ prior \subseteq Known /\ prior \subseteq Preceding(Known, t)
      BY <2>3, FeaturesAssumption DEF Trailing, AllPrior, Preceding
    <2>5. hour \in SUBSET Known /\ day \in SUBSET Known /\ prior \in SUBSET Known
      BY <2>4
    <2> HIDE DEF hour, day, prior
    <2>6. /\ IsFiniteSet(prior) /\ IsFiniteSet(day)
          /\ Cardinality(hour) > 0 <=> hour # {}
          /\ Cardinality(day) > 0 <=> day # {}
          /\ Cardinality(prior) > 0 <=> prior # {}
          /\ Cardinality(prior) = 0 <=> prior = {}
      BY <2>1, <2>5, FrameCounts, FS_EmptySet
    <2>7. Cardinality(hour) <= Cardinality(day) /\ Cardinality(day) <= Cardinality(prior)
      BY <2>4, <2>6, FS_Subset
    <2>8. CASE Preceding(Known, t) = {}
      BY <2>2, <2>4, <2>6, <2>7, <2>8 DEF SinceLast
    <2>9. CASE Preceding(Known, t) # {}
      <3>1. PICK u \in Preceding(Known, t) :
                  /\ since = t.dt - u.dt /\ u.dt <= t.dt /\ u.dt \in Int /\ t.dt \in Int
                  /\ \A v \in Preceding(Known, t) : v.dt <= u.dt
        BY <2>1, <2>9, LagIsLast
      <3> HIDE DEF since
      <3>2. since # Null
        BY <3>1, FeaturesAssumption
      <3>3. ASSUME since # 0
            PROVE  /\ prior # {}
                   /\ hour # {} <=> since <= Hour
                   /\ day # {} <=> since <= Day
        <4>1. u.dt < t.dt
          BY <3>1, <3>3
        <4>2. u \in prior
          BY <3>1, <4>1 DEF prior, AllPrior, Preceding
        <4> QED
          BY <2>1, <3>1, <4>1, <4>2, WindowReachesLag, FeaturesAssumption DEF hour, day
      <3> QED
        BY <2>2, <2>6, <2>7, <3>2, <3>3
    <2> QED
      BY <2>8, <2>9
  <1> QED
    BY <1>1, OfflineIsComputed, TablesAreFinite, PTL

-----------------------------------------------------------------------------
(* Sums of amounts *)

\* Sum and the sum of squares are what adding one transaction at a time gives.
LEMMA SumOfAmounts ==
    ASSUME NEW W \in SUBSET Txn, IsFiniteSet(W), NEW a, NEW h, Sums(h, a, W),
           \A u \in W : a[u] = Amount(u)
    PROVE  MapThenSumSet(Amount, W) = h[W]
  <1> DEFINE P(g) == g = [s \in SUBSET W |->
                            IF s = {} THEN 0
                            ELSE Amount(CHOOSE x \in s : TRUE) + g[s \ {CHOOSE x \in s : TRUE}]]
             it == CHOOSE g : P(g)
  <1>1. MapThenSumSet(Amount, W) = it[W]
    BY DEF MapThenSumSet, MapThenFoldSet
  <1>2. \A s \in SUBSET W : s # {} => Amount(CHOOSE x \in s : TRUE) = a[CHOOSE x \in s : TRUE]
    OBVIOUS
  <1>3. ASSUME NEW g PROVE P(g) <=> SumsByChoice(g, a, W)
    <2>1. [s \in SUBSET W |-> IF s = {} THEN 0
                              ELSE Amount(CHOOSE x \in s : TRUE) + g[s \ {CHOOSE x \in s : TRUE}]]
          = [s \in SUBSET W |-> IF s = {} THEN 0
                                ELSE a[CHOOSE x \in s : TRUE] + g[s \ {CHOOSE x \in s : TRUE}]]
      BY <1>2
    <2> QED
      BY <2>1 DEF SumsByChoice
  <1> HIDE DEF P
  <1>4. \E g : P(g)
    BY <1>3, SumByChoiceExists
  <1>5. P(it)
    BY <1>4
  <1> HIDE DEF it
  <1>6. it[W] = h[W]
    BY <1>3, <1>5, SumByChoice
  <1> QED
    BY <1>1, <1>6

LEMMA SumOfSquares ==
    ASSUME NEW W \in SUBSET Txn, IsFiniteSet(W), NEW a, NEW h, Sums(h, a, W),
           \A u \in W : a[u] = SquaredAmount(u)
    PROVE  MapThenSumSet(SquaredAmount, W) = h[W]
  <1> DEFINE P(g) == g = [s \in SUBSET W |->
                            IF s = {} THEN 0
                            ELSE SquaredAmount(CHOOSE x \in s : TRUE) + g[s \ {CHOOSE x \in s : TRUE}]]
             it == CHOOSE g : P(g)
  <1>1. MapThenSumSet(SquaredAmount, W) = it[W]
    BY DEF MapThenSumSet, MapThenFoldSet
  <1>2. \A s \in SUBSET W : s # {} => SquaredAmount(CHOOSE x \in s : TRUE) = a[CHOOSE x \in s : TRUE]
    OBVIOUS
  <1>3. ASSUME NEW g PROVE P(g) <=> SumsByChoice(g, a, W)
    <2>1. [s \in SUBSET W |-> IF s = {} THEN 0
                              ELSE SquaredAmount(CHOOSE x \in s : TRUE) + g[s \ {CHOOSE x \in s : TRUE}]]
          = [s \in SUBSET W |-> IF s = {} THEN 0
                                ELSE a[CHOOSE x \in s : TRUE] + g[s \ {CHOOSE x \in s : TRUE}]]
      BY <1>2
    <2> QED
      BY <2>1 DEF SumsByChoice
  <1> HIDE DEF P
  <1>4. \E g : P(g)
    BY <1>3, SumByChoiceExists
  <1>5. P(it)
    BY <1>4
  <1> HIDE DEF it
  <1>6. it[W] = h[W]
    BY <1>3, <1>5, SumByChoice
  <1> QED
    BY <1>1, <1>6

-----------------------------------------------------------------------------
(* The variance is not negative *)

LEMMA Squares ==
    /\ \A x \in Int : x * x \in Nat
    /\ \A n, q, s, x \in Int :
          (n + 1) * (x * x + q) - (x + s) * (x + s) = (n * q - s * s) + (q + n * (x * x) - 2 * (s * x))
    /\ \A n, q, s, x, y \in Int :
          (y * y + q) + (n + 1) * (x * x) - 2 * ((y + s) * x)
          = (q + n * (x * x) - 2 * (s * x)) + (y - x) * (y - x)
  <1>1. \A x \in Int : x * x \in Nat
    OBVIOUS
  <1>2. \A n, q, s, x \in Int :
          (n + 1) * (x * x + q) - (x + s) * (x + s) = (n * q - s * s) + (q + n * (x * x) - 2 * (s * x))
    OBVIOUS
  <1>3. \A n, q, s, x, y \in Int :
          (y * y + q) + (n + 1) * (x * x) - 2 * ((y + s) * x)
          = (q + n * (x * x) - 2 * (s * x)) + (y - x) * (y - x)
    OBVIOUS
  <1> QED
    BY <1>1, <1>2, <1>3

\* Where s and q give the sums of a and of its squares: the distances of the
\* elements from any x, squared, add up to a natural number ...
LEMMA DistancesAddUp ==
    ASSUME NEW W, IsFiniteSet(W), NEW a \in [W -> Int], NEW s, Sums(s, a, W),
           NEW q, Sums(q, [u \in W |-> a[u] * a[u]], W), NEW x \in Int
    PROVE  \A T \in SUBSET W : q[T] + Cardinality(T) * (x * x) - 2 * (s[T] * x) \in Nat
  <1> DEFINE family == {T \in SUBSET W : q[T] + Cardinality(T) * (x * x) - 2 * (s[T] * x) \in Nat}
  <1>1. {} \in family
    <2>1. q[{}] = 0 /\ s[{}] = 0 /\ Cardinality({}) = 0
      BY FS_EmptySet DEF Sums
    <2>2. 0 + 0 * (x * x) - 2 * (0 * x) \in Nat
      OBVIOUS
    <2> QED
      BY <2>1, <2>2
  <1>2. ASSUME NEW T \in family, NEW u \in W \ T PROVE T \cup {u} \in family
    <2> DEFINE U == T \cup {u}
    <2>1. IsFiniteSet(T) /\ Cardinality(U) = Cardinality(T) + 1 /\ Cardinality(T) \in Int
      BY FS_Subset, FS_AddElement, FS_CardinalityType
    <2>2. U \in SUBSET W /\ u \in U /\ U \ {u} = T
      OBVIOUS
    <2>3. /\ s[U] = a[u] + s[T] /\ q[U] = a[u] * a[u] + q[T]
          /\ s[T] \in Int /\ q[T] \in Int /\ a[u] \in Int
      <3>1. s[U] = a[u] + s[U \ {u}] /\ s[T] \in Int /\ q[T] \in Int
        BY <2>2 DEF Sums
      <3>2. q[U] = [v \in W |-> a[v] * a[v]][u] + q[U \ {u}]
        BY <2>2 DEF Sums
      <3>3. [v \in W |-> a[v] * a[v]][u] = a[u] * a[u] /\ a[u] \in Int
        OBVIOUS
      <3> QED
        BY <2>2, <3>1, <3>2, <3>3
    <2>4. q[T] + Cardinality(T) * (x * x) - 2 * (s[T] * x) \in Nat
      OBVIOUS
    <2>5. (a[u] - x) * (a[u] - x) \in Nat
      BY <2>3, Squares
    <2> HIDE DEF U, family
    <2>6. q[U] + Cardinality(U) * (x * x) - 2 * (s[U] * x)
          = (q[T] + Cardinality(T) * (x * x) - 2 * (s[T] * x)) + (a[u] - x) * (a[u] - x)
      BY <2>1, <2>3, Squares
    <2>7. q[U] + Cardinality(U) * (x * x) - 2 * (s[U] * x) \in Nat
      BY <2>4, <2>5, <2>6
    <2> QED
      BY <2>2, <2>7 DEF U, family
  <1>3. family = SUBSET W
    <2>1. family \in SUBSET SUBSET W
      OBVIOUS
    <2> HIDE DEF family
    <2> QED
      BY <1>1, <1>2, <2>1, BySubsets
  <1> QED
    BY <1>3

\* ... and so, over their number, do those from their mean.
LEMMA SpreadAddsUp ==
    ASSUME NEW W, IsFiniteSet(W), NEW a \in [W -> Int], NEW s, Sums(s, a, W),
           NEW q, Sums(q, [u \in W |-> a[u] * a[u]], W)
    PROVE  \A T \in SUBSET W : Cardinality(T) * q[T] - s[T] * s[T] \in Nat
  <1> DEFINE family == {T \in SUBSET W : Cardinality(T) * q[T] - s[T] * s[T] \in Nat}
  <1>1. {} \in family
    <2>1. q[{}] = 0 /\ s[{}] = 0 /\ Cardinality({}) = 0
      BY FS_EmptySet DEF Sums
    <2>2. 0 * 0 - 0 * 0 \in Nat
      OBVIOUS
    <2> QED
      BY <2>1, <2>2
  <1>2. ASSUME NEW T \in family, NEW u \in W \ T PROVE T \cup {u} \in family
    <2> DEFINE U == T \cup {u}
    <2>1. IsFiniteSet(T) /\ Cardinality(U) = Cardinality(T) + 1 /\ Cardinality(T) \in Int
      BY FS_Subset, FS_AddElement, FS_CardinalityType
    <2>2. U \in SUBSET W /\ u \in U /\ U \ {u} = T
      OBVIOUS
    <2>3. /\ s[U] = a[u] + s[T] /\ q[U] = a[u] * a[u] + q[T]
          /\ s[T] \in Int /\ q[T] \in Int /\ a[u] \in Int
      <3>1. s[U] = a[u] + s[U \ {u}] /\ s[T] \in Int /\ q[T] \in Int
        BY <2>2 DEF Sums
      <3>2. q[U] = [v \in W |-> a[v] * a[v]][u] + q[U \ {u}]
        BY <2>2 DEF Sums
      <3>3. [v \in W |-> a[v] * a[v]][u] = a[u] * a[u] /\ a[u] \in Int
        OBVIOUS
      <3> QED
        BY <2>2, <3>1, <3>2, <3>3
    <2>4. Cardinality(T) * q[T] - s[T] * s[T] \in Nat
      OBVIOUS
    <2>5. q[T] + Cardinality(T) * (a[u] * a[u]) - 2 * (s[T] * a[u]) \in Nat
      BY <2>3, DistancesAddUp
    <2> HIDE DEF U, family
    <2>6. Cardinality(U) * q[U] - s[U] * s[U]
          = (Cardinality(T) * q[T] - s[T] * s[T])
            + (q[T] + Cardinality(T) * (a[u] * a[u]) - 2 * (s[T] * a[u]))
      <3>1. PICK n, i, j, y \in Int : n = Cardinality(T) /\ i = q[T] /\ j = s[T] /\ y = a[u]
        BY <2>1, <2>3
      <3>2. (n + 1) * (y * y + i) - (y + j) * (y + j) = (n * i - j * j) + (i + n * (y * y) - 2 * (j * y))
        BY Squares
      <3> QED
        BY <2>1, <2>3, <3>1, <3>2
    <2>7. Cardinality(U) * q[U] - s[U] * s[U] \in Nat
      BY <2>4, <2>5, <2>6
    <2> QED
      BY <2>2, <2>7 DEF U, family
  <1>3. family = SUBSET W
    <2>1. family \in SUBSET SUBSET W
      OBVIOUS
    <2> HIDE DEF family
    <2> QED
      BY <1>1, <1>2, <2>1, BySubsets
  <1> QED
    BY <1>3

\* The sums of a frame are integers, and the spread stddev_samp takes the root
\* of is never negative.
LEMMA FrameSums ==
    ASSUME NEW W \in SUBSET Txn, IsFiniteSet(W)
    PROVE  Sum(W) \in Int /\ Spread(W) \in Nat
  <1> DEFINE a == [u \in W |-> Amount(u)]
             b == [u \in W |-> a[u] * a[u]]
  <1>1. a \in [W -> Int]
    BY FeaturesAssumption DEF Amount, Txn
  <1>2. b \in [W -> Int]
    BY <1>1
  <1>3. \A u \in W : a[u] = Amount(u) /\ b[u] = SquaredAmount(u)
    BY DEF Amount, SquaredAmount
  <1> HIDE DEF a
  <1>4. PICK s : Sums(s, a, W)
    BY <1>1, SumsExist
  <1>5. PICK q : Sums(q, b, W)
    <2> HIDE DEF b
    <2> QED
      BY <1>2, SumsExist
  <1>6. Sum(W) = s[W] /\ s[W] \in Int
    <2> HIDE DEF b
    <2>1. MapThenSumSet(Amount, W) = s[W]
      BY <1>3, <1>4, SumOfAmounts
    <2>2. s[W] \in Int
      BY <1>4 DEF Sums
    <2> QED
      BY <2>1, <2>2 DEF Sum
  <1>7. MapThenSumSet(SquaredAmount, W) = q[W]
    <2> HIDE DEF b
    <2> QED
      BY <1>3, <1>5, SumOfSquares
  <1>8. Cardinality(W) * q[W] - s[W] * s[W] \in Nat
    BY <1>1, <1>4, <1>5, SpreadAddsUp
  <1> QED
    BY <1>6, <1>7, <1>8 DEF Spread

\* mean, stddev_samp and the z-score of a frame are numbers or null: no root of a
\* negative variance, no division by zero or by one less than one row.
LEMMA FrameStatistics ==
    ASSUME NEW W \in SUBSET Txn, IsFiniteSet(W), NEW t \in Txn
    PROVE  /\ Mean(W) \in [sum: Int, n: Nat \ {0}] \cup {Null}
           /\ Stddev(W) \in [spread: Nat, n: Nat \ {0, 1}] \cup {Null}
           /\ Zscore(W, t) \in [above: Int, over: Nat \ {0}] \cup {Null}
  <1>1. Cardinality(W) \in Nat /\ (Cardinality(W) = 0 <=> W = {})
    BY FS_CardinalityType, FS_EmptySet
  <1>2. Sum(W) \in Int /\ Spread(W) \in Nat
    BY FrameSums
  <1>3. t.amt \in Int
    BY FeaturesAssumption DEF Txn
  <1>4. Mean(W) \in [sum: Int, n: Nat \ {0}] \cup {Null}
    BY <1>1, <1>2 DEF Mean
  <1>5. Stddev(W) \in [spread: Nat, n: Nat \ {0, 1}] \cup {Null}
    BY <1>1, <1>2 DEF Stddev
  <1>6. Cardinality(W) * t.amt - Sum(W) \in Int
    BY <1>1, <1>2, <1>3
  <1>7. Zscore(W, t) \in [above: Int, over: Nat \ {0}] \cup {Null}
    BY <1>1, <1>2, <1>6 DEF Zscore
  <1> QED
    BY <1>4, <1>5, <1>7

(***************************************************************************)
(* Every feature of every row is a number of its kind or null, whatever    *)
(* amounts and times are loaded: computeVelocityFeatures cannot produce    *)
(* the NaN of a negative variance or of a division by zero, nor a negative *)
(* time since the last transaction.                                        *)
(***************************************************************************)
THEOREM FeaturesAreNumbers == VSpec => []VTypeOK
  <1>1. Computed /\ Finite => VTypeOK
    <2> SUFFICES ASSUME Computed, Finite PROVE VTypeOK
      OBVIOUS
    <2>1. Known \in SUBSET Txn /\ IsFiniteSet(Known) /\ \A u \in Known : offline[u] = Velocity(Known, u)
      BY ComputedRows DEF Finite
    <2>2. ASSUME NEW t \in Known
          PROVE  /\ offline[t].entity_txn_count_1h \in Nat /\ offline[t].entity_txn_count_24h \in Nat
                 /\ offline[t].entity_prior_txn_count \in Nat
                 /\ offline[t].entity_prior_amt_mean \in [sum: Int, n: Nat \ {0}] \cup {Null}
                 /\ offline[t].entity_prior_amt_stddev \in [spread: Nat, n: Nat \ {0, 1}] \cup {Null}
                 /\ offline[t].entity_amt_zscore \in [above: Int, over: Nat \ {0}] \cup {Null}
                 /\ offline[t].entity_time_since_last_txn \in Nat \cup {Null}
                 /\ offline[t].email_txn_count_24h \in Nat \cup {Null}
      <3> DEFINE prior == AllPrior(Known, t)
      <3>1. offline[t] = Velocity(Known, t)
        BY <2>1
      <3>2. \A key, span : Trailing(key, Known, t, span) \in SUBSET Known
        BY DEF Trailing
      <3>3. prior \in SUBSET Known /\ prior \in SUBSET Txn /\ t \in Txn
        BY <2>1 DEF AllPrior
      <3>4. /\ Cardinality(Trailing("card", Known, t, Hour)) \in Nat
            /\ Cardinality(Trailing("card", Known, t, Day)) \in Nat
            /\ Cardinality(Trailing("email", Known, t, Day)) \in Nat
            /\ Cardinality(prior) \in Nat /\ IsFiniteSet(prior)
        BY <2>1, <3>2, <3>3, FrameCounts
      <3>5. SinceLast(Known, t) \in Nat \cup {Null}
        <4>1. CASE Preceding(Known, t) = {}
          BY <4>1 DEF SinceLast
        <4>2. CASE Preceding(Known, t) # {}
          <5>1. PICK u \in Preceding(Known, t) :
                    /\ SinceLast(Known, t) = t.dt - u.dt /\ u.dt <= t.dt /\ u.dt \in Int /\ t.dt \in Int
            BY <2>1, <4>2, LagIsLast
          <5> QED
            BY <5>1
        <4> QED
          BY <4>1, <4>2
      <3> HIDE DEF prior
      <3>6. /\ Mean(prior) \in [sum: Int, n: Nat \ {0}] \cup {Null}
            /\ Stddev(prior) \in [spread: Nat, n: Nat \ {0, 1}] \cup {Null}
            /\ Zscore(prior, t) \in [above: Int, over: Nat \ {0}] \cup {Null}
        BY <3>3, <3>4, FrameStatistics
      <3>7. /\ offline[t].entity_txn_count_1h = Cardinality(Trailing("card", Known, t, Hour))
            /\ offline[t].entity_txn_count_24h = Cardinality(Trailing("card", Known, t, Day))
            /\ offline[t].entity_prior_txn_count = Cardinality(prior)
            /\ offline[t].entity_prior_amt_mean = Mean(prior)
            /\ offline[t].entity_prior_amt_stddev = Stddev(prior)
            /\ offline[t].entity_amt_zscore = Zscore(prior, t)
            /\ offline[t].entity_time_since_last_txn = SinceLast(Known, t)
            /\ offline[t].email_txn_count_24h = IF t.email = Null THEN Null
                                                ELSE Cardinality(Trailing("email", Known, t, Day))
        BY <3>1, Columns DEF prior
      <3> QED
        BY <3>4, <3>5, <3>6, <3>7
    <2>3. /\ raw \subseteq Txn /\ DOMAIN offline \subseteq Txn
          /\ job \in [Jobs -> [stage: {"idle", "read", "done"}, txns: SUBSET Txn]]
      BY DEF Computed
    <2> QED
      BY <2>2, <2>3 DEF VTypeOK, Known
  <1> QED
    BY <1>1, OfflineIsComputed, TablesAreFinite, PTL
=============================================================================
