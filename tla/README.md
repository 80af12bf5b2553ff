# Formal models of the Fraud Feature Platform

TLA+ models of the platform's services and jobs, the TLC runs that check them on small
instances and TLAPS proofs for every value of the constants. `PROJECT.json` lists the
components, runs, mutants, findings, hazards and theorems, and maps every definition to the
source lines it models. Paths below are relative to the repository.

## 1. The system

Transactions are bulk-loaded into a warehouse (`ingestion`), turned into per-card features
(`feature_engineering`), kept offline as a Delta table and online in Redis
(`feature_store`), used to train a model (`training`) that an HTTP service applies to each
payment (`serving`); payments over the threshold are posted to a queue in which analysts
decide (`review_app`).

    CSV --ingestion--> table --feature job--> Delta table --materialize--> Redis
                                                  |                          |
                                               training --model.json------> /score --POST--> review_app

| Component | State | Operations | Talks to |
|---|---|---|---|
| review queue, `review_app/review/{api,views,services,models}.py` | rows Transaction, Flag, AuditLogEntry; the row and key locks of open transactions; each request's own instance of a flag | `ingest_flag`, `decide`, `transaction_detail`, `queue` | clients and `serving` by HTTP, the database |
| admin site, `review_app/review/admin.py` | the same rows, users | change forms, additions and deletions | the same tables, beside the queue's requests |
| scoring, `serving/src/serving/{app,review_client}.py` | none of its own: one call at a time per worker | `/score`, `notify_review_queue` | Redis, the model, review_app |
| pod, the same routes behind `serving/Dockerfile` and `infra/k8s/deployment.yaml` | gunicorn's workers and backlog, the kubelet's counts, the Service's endpoint | `/healthz`, `/readyz`, `/score` | Redis, the kubelet |
| model artifact, `training/.../cli.py`, `serving/.../model.py` | `model.json`, `meta.json` | written after training, loaded when a server starts | file system |
| online store, `feature_store/src/fstore/{online,offline,cli}.py` | one Redis key per card | `materialize`, `read_vector` | Delta table, Redis |
| point-in-time join, `fstore/pit_join.py` | none | `point_in_time_join` | pure |
| benchmark, `fstore/benchmark.py` | none | `_cold_recompute`, `run_benchmark` | Redis, Delta table |
| features, `feature_engineering/.../Features.scala` | none | `computeVelocityFeatures` | pure |
| feature jobs, `FeatureEngineeringJob.scala`, `LocalCsvFeatureJob.scala` | the Delta table (or a CSV) | read, compute, overwrite | warehouse, Delta |
| bulk load, `ingestion/src/ingest/{loader,reconcile,cli}.py` | the table; how far a load has read | `load`, `reconcile` | Snowflake |
| ingest command, `ingestion/src/ingest/{config,cli}.py` | one process: its settings, its connection, its exit status | `load_config`, `run` | the file, the environment, Snowflake |
| schema inference, `ingestion/src/ingest/schema.py` | none | `infer_schema`, `render_create_table_sql` | pure |
| training, `training/src/train/*.py` | none that is kept | split, fit, evaluate, track | xgboost, MLflow |
| deployment, `infra/` | - | probes and restarts, a Redis without a volume, an autoscaler | - |

What is hard here:

* **review_app** - `decide` reads a flag before its transaction and without a lock, then
  updates it without looking at it again; requests of several workers interleave between
  statements; transactions roll back half-way; a page is put together from two queries.
  Correct means: row and trail always agree, an id is flagged once, a trail reads as a
  history, a decision is final once nobody holds an older copy, and every request ends.
* **admin** - forms hold old rows and save all of them; deletions look for entries first and then cascade, or null out
  references, while requests are under way. Correct means: entries stay but for a race, names resolve.
* **serving** - one second of patience for a POST that may be served later, twice, or never.
  Correct means: what the caller is told about the queue is true, nothing unflagged is
  queued, a row is not overwritten, a silent review_app holds nobody.
* **pod** - three routes share two workers and one backlog; two of them ask a Redis client that
  has no timeout, and one waits for review_app; what the kubelet concludes comes from probes that wait in the same
  queue. Correct means: as long as one worker is free, nothing that hangs costs the container; without Redis the
  pod loses its traffic, and gets it back by itself.
* **ingestion** - a load writes chunks, not a transaction; it is started again after it failed, beside
  another one, and reconciled while it runs. Correct means: counts mean rows.
* **features** - leakage at frame boundaries, ties within a second, transactions that
  arrive late, jobs that overlap. Correct means: features depend on strictly earlier transactions only.
* **online store** - runs over different versions write keys alternately, die and are
  repeated; Redis comes back empty. Correct means: a re-run changes nothing, a finished
  run left nobody out, a vector is some run's latest row of its own entity, and only a run that
  overlapped can replace it by an older one.
* **use of the features** - one table is cut by time for training, joined to events and
  served for the next payment, each by its own code with its own ties. Correct means: what
  is trained on knows nothing of what is tested on, and the three agree on which row counts.
* **model artifact** - two files, written and loaded one after the other by processes that
  know nothing of each other and may die half-way. Correct means: a server that comes up has two whole
  files, of one training unless something visible went wrong, and a threshold that is
  compared as it was tuned.
* **ingest command** - settings from two places, a connection that every way out of `run()` has to
  close, types widened cell by cell over a sample. Correct means: nothing stays open, exit 0 means what it says, and neither the order of the rows nor what follows
  the sample matters to the schema.

## 2. Modules

| Module | Models | Kind |
|---|---|---|
| `ReviewQueue` | review_app, one action per database statement | state machine |
| `FlagHistory` | what readers of the trail are promised | abstract specification |
| `ReviewQueueProps` | the queue's properties, and the refinement mapping `History` | properties |
| `AdminConsole` | EXTENDS the queue with the admin's forms and deletions | composition |
| `FlagPipeline` | `/score`, the webhook in flight, `ingest_flag` as one step | composition |
| `ServingPod` | one pod: workers, backlog, routes, probes, and a Redis that fails | state machine |
| `Ingestion` | what `fraud-ingest load` and `reconcile` do to the table | state machine |
| `SchemaInference` | `infer_schema`, row by row | state machine |
| `IngestCommand` | EXTENDS it with `load_config` and `run()`: one process of the command | composition |
| `VelocityFeatures` | the window functions, and the jobs that publish them | operators and state machine |
| `FeatureUse` | EXTENDS it with the time split, the point-in-time join and the served row | composition |
| `OnlineStore` | `materialize` over a table that is overwritten, and Redis | state machine |
| `ModelRelease` | the two files of a model, trainings, servers, the decision threshold | state machine |
| `MC...` | the instances TLC checks | |
| `...Proofs` | theorems; `ServingProofs` on `FlagPipeline` and `ServingPod`, `IngestionProofs` also on `IngestCommand` | proofs |
| `FiniteInduction` | induction over finite sets, last elements, sums | lemmas |

### ReviewQueue

`flags` and `audit` are the committed rows; what an open transaction wrote is in its
request's record until `Commit`. A request's `stage` is the next statement it will run, so
an action is one statement: `InsertTransaction`, `InsertFlag`, `InsertAudit`, `Commit` are
`create_flag`; `LoadFlag` is `get_object_or_404`, `CheckStatus` the test of
`flag.status` and the changes made in memory, `UpdateFlag` the `save()` of
`decide_flag`; `OpenPage` and `ShowTrail` are the two queries of the detail page. `lock[t]`
is the uncommitted unique key or the row lock of transaction `t`. `Fail` is a statement
that fails, a lock wait that times out or a worker that dies, at any statement; the client then sees 500 or
nothing. `RejectRequest` gathers the refusals that touch no row (wrong key, bad body, no
session, wrong method). `clock` is `timezone.now()`.

Assumed: READ COMMITTED with row locks, as MySQL has under Django; SQLite lets fewer
interleavings happen. When the holder of a unique key rolls back, InnoDB lets several INSERTs that waited for it share the
key and aborts all but one as deadlock victims; in the model they go on one by one, or `Fail`. Readings of the clock grow strictly and are the same for
all workers: with clocks that drift, or two decisions in a microsecond, the order of a
trail by `created_at` proves nothing. `queue()` is one SELECT that changes nothing and is left out.

`FlagHistory` has three variables (status, decider, ledger) and two steps: a flag appears,
or gets a status together with one new entry later than all it has. It allows a
second decision, because the code does. `HistorySpec` says that the statement-level queue implements it.

### AdminConsole

Adds the users and the admin's POSTs. The form of a flag holds the row as rendered and
saves every field (`decided_at` as rendered, cleared, or typed). `AuditLogEntryAdmin` refuses deletion of entries, and a deletion
of a transaction or a flag that would cascade to some is refused as a whole: Django finds out by plain reads
(`CheckDeletion`) and then has the rows collected again (`Cascades` in `DeleteTransaction` and `DeleteFlag`), so what is committed
in between goes too, or makes the deletion fail (`DeletionFails`). Deleting a user sets `actor` and `decided_by` to null.
What still refers to a deleted row fails (`Orphans`). Any other admin POST is one step, because
each has one write that other requests can see. The add forms make what the queue never does: a
transaction without a flag (`bare`), whose id `create_flag` then refuses with 409 each time it is posted
(`RefuseBare`), and a flag without an entry, which, unlike the others, can be deleted. Left out: the field of a flag's
form that moves it to another transaction.

### FlagPipeline

A call of `/score` goes through `score`, `notify`, `wait`, `respond`; its POST lives on its
own (`sent`, then `created`, `conflict`, `error` or `lost`), because `GiveUp` (the timeout)
does not take it back. Whether clients send a `transaction_id` and whether `REVIEW_APP_URL`
is set are chosen in `PInit`; a missing id is a fresh one for each call. `Ingest` is one
step for all of `create_flag`: `CreatedOnce`, proved for `ReviewQueue`, says that an id
is created at most once however its requests interleave. The score of a payment may differ
from call to call, as the vector in Redis may.

### ServingPod

`Serve` is a worker that takes the oldest connection of the backlog and runs its route. What asks nobody, or asks a Redis that answers,
takes no time. A worker is stuck on Redis when it asks one that hangs; `RedisReturns` is a
late answer or error, which may never come, since nothing tells the client that a connection is lost. A
`/score` that has its vector may be flagged and find review_app silent (`GoesOn`): it is then stuck in
`notify_review_queue` until that answers or `requests.post` gives up (`NotifyReturns`), one second for connecting and one for
reading, which is as long as a liveness probe waits and more. `Webhook` says whether `REVIEW_APP_URL` is set.

A tick is 5 s, the period of the readiness probe. A probe whose second is over counts as failed while a stuck worker has it or
all workers are stuck (`GivesUp`), and at the end of the tick at the latest: there the kubelet counts (`Count`), the arbiter
replaces workers stuck for too long (`Aged`), a webhook that waits becomes overdue and has to end in the next tick, and the probes that are
due join the backlog (`Asks`), behind connections whose clients have given up but which will be served all the same. A
restart (`KubeletRestarts`) comes as soon as the liveness count reaches its threshold. `held` records that all workers
were stuck at once since a liveness probe was last answered.

From the manifests come the two periods and paths, and from `serving/Dockerfile` the two workers. What
they leave at a default is assumed: kubelet probes that wait one second, three failures, one success;
gunicorn's sync workers with a timeout of 30 s (6 ticks) and one listening socket (its 2048 connections are 3 in the
instance, enough for both probes and a call); redis-py without a socket timeout.
Also assumed: what waits for nobody is served in time (`Tick` comes when the free workers have emptied the backlog), so that a probe
fails for want of a worker and not because of the load. The first delay
of each probe and the `HEALTHCHECK` of the image, which Kubernetes ignores, are left out. The second replica
and the autoscaler share nothing with a pod.

### Ingestion

`table[r]` is how often row `r` of the CSV is in the table. A chunk that is reported
as a success may have stored any part of it (`n_rows` counts what was stored, and
`loader.py` ignores the difference); a chunk that fails may have stored any part of it
too, and the load stops with the earlier chunks in place. `columns` is how the table's
columns are named: `--create-table` quotes the header as it is, `load_csv` upper-cases
every chunk, and `write_pandas` quotes what it is given. `blank` is how many blank lines the file has, which
`count_csv_rows` counts and `read_csv` skips. Throughput figures are left out.

### VelocityFeatures

The windows are sets: `Trailing` is `rangeBetween(-span, -1)`, `AllPrior` is
`rangeBetween(unboundedPreceding, -1)`, `Preceding` the rows `lag` orders before the
current one. Means, deviations and scores are kept as the exact integer sums they are
computed from, so two values are equal exactly when the real ones would be; floating-point
rounding is not modelled, nor are null amounts. Transactions arrive in any order of time (`Load`); a
job reads the table at one moment and replaces the offline table in one commit, so
an older reading may be published last. The code allows less of this: Delta may refuse the later of two overlapping
overwrites (`JobFails`), and a Snowflake source is scanned while the write runs. An id is loaded once; rows that a
repeated bulk load appends again are the subject of `Ingestion`.

### OnlineStore

A vector is the row it was made from and the version of the table it was read in.
`StartRun` reads the whole table into memory, as `read_offline_features` does;
`WriteVector` is one SET; `RunDies` leaves the keys written so far. `RestartRedis`
empties the store, since `infra/k8s/redis.yaml` mounts no volume. The JSON text of a vector
and the conversion of NaN to null are left out. `RunBenchmark` is what the two timed lookups of
`fstore benchmark` find: the vector, and any of the entity's last rows in time (`ColdRecompute` does not sort
by id). Its `--entity` is text (`isText`), which names the same Redis key as the number but equals
no value of an integer column: run from the command line, the cold lookup selects nothing and returns at once.
`OnlyTextMisses` states both this and that an entity given as a number, as the tests do, is found by both lookups.

### FeatureUse

Three readers of one offline table, none of which changes it; they are operators, checked in every state
that `VelocityFeatures` can reach. Where pandas leaves an order open the operator is a set:
`Splits` are the training sets `time_based_split` may return (rows of one
second fall on either side of the cut; `int(n * (1 - f))` may come out one below a whole
product), `AsOf` the rows `merge_asof` may match (strictly before the event; `sort_values` by
time alone leaves rows of one second in any order). `Latest` is `latest_per_entity`, where the
id breaks ties, and `BuildFeatureRow` what `/score` makes of it.

### ModelRelease

`dir` holds, for each file, the training that wrote it, `None`, or `Partial` for a file
that is open, was left unfinished or was written by two at once. Opening a file destroys what it held,
so saving is four steps, with a death possible between any two of them. A server reads
`model.json`, then `meta.json`, and ends if either is not whole. The servers are those of
`serving/README.md`, with `MODEL_DIR` pointing at the training's directory; in an image the two
reads are those of `docker build`, and a server started from it has no others. `overlapped` and
`quiet` only record that trainings saved at the same time, or while a server loaded. The threshold part
follows scikit-learn's `precision_recall_curve`: one point per score that occurs, each meaning
"score >= threshold", of which `argmax` takes the first best; F1 values are compared as fractions.
`feature_columns` is the same constant in every training and is left out.

### SchemaInference and IngestCommand

A cell is what its text looks like: blank, `int()` takes it, `float()` takes it, neither, or
absent (a short row, for which `DictReader` has None and `int(None)` raises a TypeError that
`_classify` does not catch). The first test of `_classify` takes a blank for text, so one makes its column
VARCHAR, even among numbers; section 3 quotes the test that reads otherwise. The inferred type is therefore the widest
that a sampled cell is classified as, and not the narrowest that a nullable column could have.

`IngestCommand` is the process around it. `inYaml` and `inEnv` say of each setting that it is not given, given as an
empty string, or has a value (a missing or empty file gives nothing); `Missing` are the settings that neither gives a value.
Which of two given values a setting gets is one assignment, and is left out. `step`
is how far `run()` is; `Raises` is an exception inside its `try`, wherever it comes from, and `Close` the `finally`,
whose own exception replaces a return and leaves it open whether the connection is closed. `load_csv` and `reconcile` return or raise here; what they do to the
table is `Ingestion`.

## 3. Runs

All runs have deadlock checking on; the state machines end in an explicit stuttering step
when nothing is left to do.

| Run | Shows | Instance |
|---|---|---|
| `review_queue` | types; `TrailMatchesFlags`, `TrailReadsAsHistory`, `CreatedOnce`, `PageAddsUp`, `DecisionIsFinal`; `HistorySpec`; `EveryRequestEnds` | 2 ids, 2 analysts, 3 requests of any kind, fair |
| `double_decision` | violated: `AtMostOneDecision` | 1 id, 2 analysts, 3 requests |
| `admin` | types; `NamedUsersExist`, `OnlyRacesTakeEntries` | 2 ids, 2 analysts, 2 requests, 2 forms |
| `flag_pipeline` | `NotifiedMeansQueued`, `QueueHoldsFlagged`, `FirstFlagStands`, `ScoreAnswers` | 1 payment, 3 calls, scores 0..2 with threshold 1, fair |
| `serving_pod` | types; `FailsOnlyWhenAllAreStuck`, `StopsTraffic`, `ComesBack`, `Recovers` | 2 workers, 2 failures, liveness every 2 ticks, worker timeout 4 ticks, backlog 3, 2 calls per tick, webhook set, fair |
| `pod_blip` | violated: `BlipNeverRestarts` | 2 workers, 3 failures, worker timeout 6 ticks, 1 call per tick, no webhook: the numbers of the manifests, whose configmap sets no `REVIEW_APP_URL` |
| `ingestion` | `FullCountMeansFullTable`, `CatchesEitherFailure` | 4 rows in chunks of 3, up to 1 blank line, 2 loads, 1 reconciliation |
| `ingestion_columns` | violated: `EnsuredTableFits` | 4 rows in chunks of 2 |
| `ingest_command` | `InferredFromSample`, `ConnectionClosed` | 2 settings; files of up to 3 rows, 2 columns, one overridden; 2 rows sampled |
| `features` | `FramesAgree`, `PointInTime`; `TrainSeesNoTest`, `JoinIsPointInTime`, `ServingMatchesJoin`, `ServedLags` | 3 ids, 2 cards, 1 e-mail or none, times 0, 1, 3, hour 1, day 2, 2 jobs; a third of the rows held out, events at 1, 3, 4 |
| `online_store` | `OnlyTextMisses`, `FinishedRunServes`, `RerunsAgree`, `NeverBackOnceSettled` | 4 rows of 2 cards, two in one second; 2 runs, 3 versions, 1 restart |
| `model_release` | `RTypeOK`, `ServedThresholdIsBest`, `MixedPairHasACause` | 2 trainings, 1 server; 3 test rows with any labels, scores distinct or tied |

The bounds are the smallest in which the races happen. Three requests: one flag and two
decisions that race for it, or a decision between the two queries of a page; a fourth adds
an observer only, and the theorems of section 5 need no bound. Three calls: one whose POST
is late and two retries, with supplied ids (one shared id) and without (an id each). Two
loads: one fails and is repeated, or two overlap; chunks of 3 out of 4 make the last
chunk short. Times 0, 1, 3 with windows 1 and 2 have gaps on, inside
and outside both edges, and three transactions make ties, late arrivals and a deviation
of two earlier amounts. Two materialize runs over three versions overlap, repeat a version and skip one.
Two trainings and one server: the server loads between any two steps of saving, and the second
training dies, overlaps or follows. Three test rows are the fewest with a tie beside
another score. Two workers, as deployed, and in `serving_pod` two failures at a liveness period of two ticks: the worker
timeout of four ticks ends about when the second liveness probe fails, as the six ticks do about the third in the
deployment, so workers are replaced before, at and after the
restart; two calls per tick are enough for a silent review_app to hold both workers, and a backlog of three is full when
both probes find a call before them. Two forms: a deletion and one that adds an entry, or a second deletion, between its check and
its delete. Files of three rows with two sampled have a row past the limit, and shorter
files end before it.
Counters (`clock`, `version`, `restarts`) are bounded by the numbers of requests, and by
`MaxVersions` and `MaxRestarts`; the pod's `scores` by `MaxScores`, and `down` stops counting past `MaxFails`. Requests, runs, jobs and ids that are interchangeable are
symmetric in the runs without liveness.
A job that has read keeps its reading, so `features` reaches every pair of an older and a newer
table between two commits; it takes longest (700,000 states in two minutes).

### Fairness

`FairSpec` and `PFairSpec` assume weak fairness of the steps of a worker that is running a
request it received (`Proceed`, `ServingStep`): a gunicorn worker goes on with its
request. Nobody has to send a request, and nothing is assumed of the network, of review_app
(in `FlagPipeline`) or of failures. Waiting is a disabled action: `EveryRequestEnds` holds because
the holder of a lock never waits for another one and every end of a transaction releases
its locks; `ScoreAnswers` because `requests.post` has a timeout.

`PodFairness` assumes that a free worker serves what is queued, that a webhook ends (`NotifyReturns`: `requests.post` has a
timeout for connecting and one for reading), that time passes (`Tick`: kubelet and arbiter
go on), and that a due restart happens. Nothing is assumed of Redis: it may hang for ever, come back at
any time, and leave a call that it lost unanswered even then (`RedisReturns` is not fair). `ComesBack` and `Recovers` therefore rest on
the worker timeout and on restarts. Nor is anything assumed of review_app: `ComesBack` holds however often it is silent, and
only `Recovers`, which promises that traffic stays, has its silence end.

### What the violated runs show

* `double_decision` - two requests pass `CheckStatus` on the PENDING instance each
  loaded; the second UPDATE waits for the first to commit and overwrites it. Two decision
  entries result, where `docs/decisions.md` says a double submission must not produce a second one.
  `DecisionIsFinal` and `TrailReadsAsHistory` say what remains true: the trail tells both
  decisions and the row is the last of them.
* `ingestion_columns` - `--create-table` and the load that follows name the columns differently.
* `pod_blip` - Redis stops answering without refusing. Two readiness probes, which the kubelet gives up on after a
  second, keep both workers in `ping()` for up to half a minute; `/healthz`, which asks Redis nothing, then finds
  nobody to answer it, and after three liveness probes the container is restarted, which
  `infra/k8s/deployment.yaml:32-34` says a Redis blip should not do. `FailsOnlyWhenAllAreStuck` says
  what does hold: a Redis that refuses connections fails no liveness probe, nor does one that hangs while a worker is left.

More disagreements were met that no run is spent on:

* A call that is answered `notified_review_queue: false` after a timeout may have its flag queued all the same (in
  `FlagPipeline`, `Ingest` after `GiveUp`), whereas `review_client.py:6-7` says that the flag
  "never reaches the queue"; only the answer true can be relied on, which is `NotifiedMeansQueued`.
* A silent review_app alone (with `REVIEW_APP_URL` set) holds both workers, by two flagged calls at a time, for longer than a
  probe waits. Liveness probes then fail with Redis up, readiness is lost, and if it happens at several probes in a row the container is
  restarted; `review_client.py:4-5` says that "a review-app hiccup shouldn't take `/score` down with it".
  `FailsOnlyWhenAllAreStuck` names the two causes side by side, and `ComesBack` what remains.
* "Append-only, even from the admin" (`admin.py:24`) is not what the admin does. The flag's form decides it without an audit row
  (`SaveFlagForm`), where `models.py:45-46` has "every state change is a new row"; an entry's own form edits it. And an entry that
  is committed between the check of a deletion and its cascade is lost with its flag: the cascade deletes entries by a query and not by
  the `AuditLogEntry.delete()` that `docs/decisions.md:263-267` relies on. It takes a flag without entries, which only
  the admin makes, or a transaction without a flag, which is given both meanwhile. `OnlyRacesTakeEntries` says that no entry is lost otherwise.
* `fstore benchmark --entity 100`, as `fstore/cli.py:6` and `feature_store/README.md:32` have it, passes the entity as text
  (`cli.py:33`, `cli.py:53`), so that the cold lookup it times finds nothing, where `benchmark.py:1-4` promises
  "recomputing an entity's latest feature vector cold" (`OnlyTextMisses`).
* `ingestion/tests/test_schema.py:17` is named `test_widens_on_blank_values_without_forcing_varchar`, but one blank cell does make
  a column of numbers VARCHAR (`schema.py:28-29`); the test passes because its column has text besides. `InferredFromSample` states what the code does.
* A card's first transaction has the counts 0 (and may have earlier ones under its e-mail) in the offline
  table, while an unknown card is scored with nulls there, which XGBoost routes differently; `model.py:28-30` says that the
  two rows are the same. `ServedLags` states both sides.
* A dropped chunk and a repeated one cancel out in the counts of `reconcile`, which
  `reconcile.py:3-5` presents as catching both, and a blank line makes a complete load a MISMATCH and hides one repeated row;
  `CatchesEitherFailure` says what the counts do catch.
* A plain re-run appends everything a second time, although `docs/decisions.md` calls the load
  "truncate-and-load"; reconciliation does report that one.

## 4. Mutants

Every property of a passing run has a mutant: a definition with a plausible bug (marked
`mutant` in the module, before the definition it replaces) under which TLC finds the
property violated, so none of them holds because of the shape of the model alone.

## 5. Theorems

All are proved by TLAPS, for any values of the constants that meet the modules' named assumptions
(`NoneAssumption`, `PipelineAssumption`, `IngestionAssumption`, `FeaturesAssumption`,
`UseAssumption`, `StoreAssumption`, `SchemaAssumption`, `PodAssumption`, `ReleaseAssumption`): types of the constants, null
values that are not values (`Null` is no integer), and tables and test sets with finitely many rows.
Every safety invariant and every action property of the passing runs is a theorem, and so is the refinement.

* `ReviewQueueProofs` - `Invariance`, with `TypeCorrect`, `TrailsMatch` and
  `TrailsReadAsHistory`. That a commit keeps row and trail in agreement depends on what
  its request did several statements earlier. The inductive invariant therefore adds `Locks` (the lock of a
  transaction is held by the one request that is writing it), `Flow` (what a request has
  established by the time it reaches each statement) and `Stamps` (no entry is later than the clock).
  From the same invariant, and what pages and answers add to it: `ImplementsHistory` (every step
  maps to a step of `FlagHistory` or a stutter), `DecisionsAreFinal`, `CreatedExactlyOnce`, `PagesAddUp`.
  What `EveryRequestEnds` rests on, but for fairness: `HoldersWaitForNobody` (who waits for a lock waits for
  its one exclusive holder, which waits for nobody; what MySQL resolves among INSERTs left waiting by a rollback is not in it) and `RequestsRunOut` (a request has five statements left at most and each one it
  runs leaves fewer).
* `AdminConsoleProofs` - `AdminInvariance`, `AdminTypeCorrect`, `UsersNamedExist`, `EntriesGoByRacesOnly`. The queue's `Locks`,
  `Flow` and `Stamps` survive every admin POST, because a POST writes only rows that no open
  transaction holds and takes a flag away together with the requests that had it in memory; `TrailMatchesFlags` does not
  survive them and is no part of this invariant. `Backed` adds that whoever the next COMMIT would name still exists, which is
  what a deletion of users could break, and `Unheld` that nobody is writing a transaction without a flag. `Aimed` is what a deletion
  that passed its check knows: it listed no entry, so whichever it takes came later. An entry is followed by
  its time: the admin may edit the rest of it.
* `ServingProofs`, on `FlagPipeline` - `PInvariance`, `PTypes`, `NotifiedIsQueued`, `OnlyFlaggedQueued`,
  `FirstFlagsStand`. The invariant: a call's id and score are settled before it posts
  (`Settled`), a 201 belongs to one POST and its row (`Created`), every row has such a POST
  (`Rooted`), and only a 201 is reported as notified (`Told201`).
* `ServingProofs`, on `ServingPod` - `PodInvariance`, `PodTypes`, `OneFreeWorkerAnswers`, `TrafficStops`. `Waits`: a worker is
  only ever stuck with a route that asks Redis, so a liveness probe that is waited for is in the backlog, and unless all workers are
  stuck at once, which `held` then records, the tick that would count it as failed cannot end before it is served.
  `Drains`: while Redis is down no readiness probe ends in success, so in a pod that is ready their failures keep pace with the
  ticks and reach the threshold with them.
* `IngestionProofs`, on `Ingestion` - `IngInvariance`, `EachLoadAppendsOnce`, `FullCounts`, `CatchesLossOrDuplicates`. A load that
  counted as many rows as it read has stored every one of them, and a row is in the table at most
  once per load that has read past it or failed. `COUNT(*)` is the cardinality of the table's copies
  (`Copies`): a table without duplicates has the file's count only if it is full, and a full table
  only if it has none (`CountsAndCopies`); a verdict
  agrees with the counts it was given (`Reconciled`).
* `IngestionProofs`, on `IngestCommand` - `SchemaInvariance`, `SchemaIsTheSamples`: after any number of rows
  each type is the one its column's cells so far call for, whatever their order, because the rank
  of a type is the largest rank of its cells. `CommandInvariance`, `CommandTypes`, `NothingLeftOpen`, `RunInfersFromSample`: what is known of the connection and of the exit status at each step of `run()`, and
  that the schema inside it keeps the first invariant.
* `FeatureUseProofs` - `OfflineIsComputed`: the offline table is the feature table of
  its own transactions, whatever the order of reads and commits; `NoLeakage`: windows that end a second
  before a transaction are the same sets in any two tables that agree on what is earlier, and what lag() finds differs only if one of
  them has a transaction of the same second, for which it is 0 (`SameSince`).
  From these, `TrainingIsBlind` and `JoinsArePointInTime`: rows that end up on the test side of the cut are never
  earlier than a training row, so they are outside all its windows, and a commit that moves nothing
  before an event leaves both the rows that can match it and their features as they were.
  `TablesAreFinite` makes the rest possible: a finite table has last rows (`LastByTime`, `LastByTimeAndId`), so the vector of
  a card is a row that `merge_asof` may match with an event later than all of them (`ServingAgreesWithJoin`), and what training would
  count for the next payment is what was served plus the rows of that last second (`ServingLags`). `FramesTellOneStory`: `lag`
  finds the last of the earlier rows, which is inside a trailing window if any row is. `FeaturesAreNumbers`: every
  column is what its type says, and above all no variance is negative, since n times the sum of squares less the
  square of the sum grows, with each transaction, by its squared distances from the others (`SpreadAddsUp`).
* `OnlineStoreProofs` - `StoreInvariance`, `FinishedRunsServe`, `RerunsAgreeAlways`, `TextFindsNothing`, `SettledForGood`. Runs of
  one version read the same rows (`OneRead`), every vector is the last row of its entity in
  what some run read (`Sourced`), and a run has stored every entity that is not
  still on its list unless Redis restarted since (`Stored`). Idempotence follows because an
  entity has one last row, which is where the tie-break by `TransactionID` is needed. An entity goes back to an older
  vector only through a run that read the older table and has yet to write it: runs that start later cannot have
  read less than what Redis holds (`NothingFromTheFuture`).
* `ModelReleaseProofs` - `ReleaseInvariance`, `ReleaseTypes`, `MixedPairsHaveCauses`. A training
  that was not overlapped had the directory to itself while it saved (`Alone`), so once it is done,
  its `meta.json` is there for as long as its `model.json` is (`Paired`). A server that loads while nobody saves
  therefore finds both files as one training left them (`Quiet`), unless that training died or was overlapped.
  `ThresholdServedIsBest`: F1 as a fraction is totally ordered, transitively because the row whose score is the threshold keeps
  the denominator above zero, so a finite curve has a peak and the peaks a least score (`BestIsAPeak`), and /score flags the very rows that
  the curve counted there.

`FiniteInduction` is what several of them share. An induction principle with a property for a parameter is
out of the provers' reach, so a property of the subsets of a finite set is given as the family of subsets that have it:
`BySubsets` says that a family that has the empty set and is closed under adding an element has every subset, by
`MinimalSubset` and the library's well-foundedness of the strict subset order. It yields that a finite set has a last
element under any total and transitive relation (`HasLast`, `GreatestInt`, `LeastInt`), and that a sum is the same whichever
element is taken first (`SumsExist`, `SumByChoice`), which ties the recursion in `MapThenSumSet`, over a CHOOSEn element, to
addition in any order. Each use still needs its own family, or its own witness of the recursion, written out.

Only model-checked: the four liveness properties, `EveryRequestEnds`, `ScoreAnswers`, `ComesBack` and `Recovers`
(fairness and ENABLED are out of the provers' reach), and the three that the code violates. Modules with theorems declare no
RECURSIVE operator.

## 6. Not modelled, and what comes next

Plan, in this order:

* The safety half of `ScoreAnswers` and `Recovers`, as `HoldersWaitForNobody` and `RequestsRunOut` are that
  of `EveryRequestEnds`: what bounds a call's steps, and for how many ticks a worker may be stuck.
* `OnlineStore` composed with `FlagPipeline`: a vector that disappears with a Redis restart while `/score`
  is being answered: `/readyz` reports Redis and not the store's contents.
* `LocalCsvFeatureJob`, which overwrites a directory of Parquet files without a commit, and the
  reading of it half-way.
* `ServingPod` with the second replica and the autoscaler, once something is promised of the Service as a whole.

Out of scope: the numerical code of training and evaluation, project settings and migrations,
templates, docker-compose, and the demo, load-test and download scripts, which drive the components and keep nothing.
