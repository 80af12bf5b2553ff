----------------------------- MODULE ModelRelease -----------------------------
(***************************************************************************)
(* From `fraud-train run --model-dir` to /score: a training evaluates its  *)
(* model, tunes the decision threshold and saves the pair as two files;    *)
(* a server loads them, one after the other, when it starts.  Trainings    *)
(* and servers are processes that share a directory and nothing else, as   *)
(* with MODEL_DIR=../model in serving/README.md; for a server that runs    *)
(* from an image, the two reads are those of the image's build.            *)
(***************************************************************************)
EXTENDS Integers, FiniteSets

CONSTANTS
    Trainings,  \* runs of fraud-train, all with the same --model-dir
    Servers,    \* processes that create the app
    Holdouts,   \* what a model may say of its test rows: their scores and labels
    None,       \* no file yet
    Partial     \* a file that is being written, was left unfinished or was garbled

ASSUME ReleaseAssumption ==
    /\ None \notin Trainings /\ Partial \notin Trainings /\ None # Partial
    /\ \A h \in Holdouts :
          /\ IsFiniteSet(DOMAIN h)
          /\ \A i \in DOMAIN h : h[i].score \in Int /\ h[i].fraud \in BOOLEAN

VARIABLES
    dir,        \* model.json and meta.json: the training each comes from
    training,   \* the trainings
    server      \* the servers, with the pair each has in memory

rvars == <<dir, training, server>>

-----------------------------------------------------------------------------
(* The decision threshold *)

Frauds(h) == {i \in DOMAIN h : h[i].fraud}
Scores(h) == {h[i].score : i \in DOMAIN h}

StrictlyAbove(h, threshold) == {i \in DOMAIN h : h[i].score > threshold}    \* mutant: >

\* The rows /score would flag.
Flagged(h, threshold) == {i \in DOMAIN h : h[i].score >= threshold}

\* 2PR / (P + R) of marking the rows R, as a numerator over a denominator; with no
\* hit both P and R are zero (or R is undefined) and the code takes zero.
F1(h, R) == [num |-> 2 * Cardinality(R \cap Frauds(h)), den |-> Cardinality(R) + Cardinality(Frauds(h))]
AtMost(x, y) == x.num * y.den <= y.num * x.den

\* precision_recall_curve has a point for every score that occurs.
CurvePoint(h, s) == F1(h, {i \in DOMAIN h : h[i].score >= s})
Peaks(h) == {s \in Scores(h) : \A z \in Scores(h) : AtMost(CurvePoint(h, z), CurvePoint(h, s))}

\* argmax: the lowest of the best thresholds.
BestThreshold(h) == CHOOSE s \in Peaks(h) : \A z \in Peaks(h) : s <= z

-----------------------------------------------------------------------------
File == Trainings \cup {None, Partial}

Training == [stage: {"idle", "trained", "model open", "model saved", "meta open", "done", "dead"},
             holdout: Holdouts, overlapped: BOOLEAN]    \* has another training saved meanwhile?

Server == [stage: {"down", "half", "serving"}, model: File, meta: File,
           quiet: BOOLEAN]      \* has nobody been saving since it began to load?

RTypeOK ==
    /\ dir \in [model: File, meta: File]
    /\ training \in [Trainings -> Training]
    /\ server \in [Servers -> Server]
    /\ \A s \in Servers : server[s].stage = "serving" =>
          server[s].model \in Trainings /\ server[s].meta \in Trainings

Down == [stage |-> "down", model |-> None, meta |-> None, quiet |-> TRUE]

RInit ==
    /\ dir = [model |-> None, meta |-> None]
    /\ \E h \in Holdouts :
          training = [r \in Trainings |-> [stage |-> "idle", holdout |-> h, overlapped |-> FALSE]]
    /\ server = [s \in Servers |-> Down]

Saving(r) == training[r].stage \in {"model open", "model saved", "meta open"}
Goes(r, stage) == training' = [training EXCEPT ![r].stage = stage]

(* fraud-train run *********************************************************)

\* Baseline and XGBoost are trained, logged and evaluated.
Train(r) ==
    /\ training[r].stage = "idle"
    /\ \E h \in Holdouts :
          training' = [training EXCEPT ![r] = [@ EXCEPT !.stage = "trained", !.holdout = h]]
    /\ UNCHANGED <<dir, server>>

\* Without --model-dir nothing is saved.
KeepModel(r) ==
    /\ training[r].stage = "trained"
    /\ Goes(r, "done")
    /\ UNCHANGED <<dir, server>>

\* save_model: the old model.json is gone as soon as the new one is opened.
OpenModel(r) ==
    /\ training[r].stage = "trained"
    /\ dir' = [dir EXCEPT !.model = Partial]
    /\ LET others == {k \in Trainings \ {r} : Saving(k)}
       IN  training' = [k \in Trainings |->
                           IF k = r THEN [training[r] EXCEPT !.stage = "model open",
                                                             !.overlapped = others # {}]
                           ELSE IF k \in others THEN [training[k] EXCEPT !.overlapped = TRUE]
                           ELSE training[k]]
    /\ server' = [s \in Servers |->
                     IF server[s].stage = "half" THEN [server[s] EXCEPT !.quiet = FALSE] ELSE server[s]]

\* What a file holds once r has closed it: two that write at once may garble it.
Closed(r, stage) ==
    {r} \cup (IF \E k \in Trainings \ {r} : training[k].stage = stage THEN {Partial} ELSE {})

CloseModel(r) ==
    /\ training[r].stage = "model open"
    /\ \E content \in Closed(r, "model open") : dir' = [dir EXCEPT !.model = content]
    /\ Goes(r, "model saved")
    /\ UNCHANGED server

KeepMeta(r) ==          \* mutant: metadata that is already there is kept
    /\ training[r].stage = "model saved"
    /\ IF dir.meta \in Trainings
       THEN UNCHANGED dir /\ Goes(r, "done")
       ELSE dir' = [dir EXCEPT !.meta = Partial] /\ Goes(r, "meta open")
    /\ UNCHANGED server

\* write_text(json.dumps(...))
OpenMeta(r) ==
    /\ training[r].stage = "model saved"
    /\ dir' = [dir EXCEPT !.meta = Partial]
    /\ Goes(r, "meta open")
    /\ UNCHANGED server

CloseMeta(r) ==
    /\ training[r].stage = "meta open"
    /\ \E content \in Closed(r, "meta open") : dir' = [dir EXCEPT !.meta = content]
    /\ Goes(r, "done")
    /\ UNCHANGED server

\* An exception (a feature column is missing, one class only in the test rows, the
\* disk is full) or a kill.
TrainingDies(r) ==
    /\ training[r].stage \notin {"idle", "done", "dead"}
    /\ Goes(r, "dead")
    /\ UNCHANGED <<dir, server>>

(* create_app **************************************************************)

\* load_model reads model.json ...
LoadModel(s) ==
    /\ server[s].stage = "down"
    /\ dir.model \in Trainings
    /\ server' = [server EXCEPT ![s] = [stage |-> "half", model |-> dir.model, meta |-> None,
                                        quiet |-> \A r \in Trainings : ~Saving(r)]]
    /\ UNCHANGED <<dir, training>>

ServesAnyway(s) ==      \* mutant: an unreadable meta.json taken for an empty one
    /\ server[s].stage = "half"
    /\ server' = [server EXCEPT ![s] = [@ EXCEPT !.stage = "serving", !.meta = dir.meta]]
    /\ UNCHANGED <<dir, training>>

\* ... then meta.json.  If either cannot be read the process ends; it may be
\* started again.
LoadMeta(s) ==
    /\ server[s].stage = "half"
    /\ server' = [server EXCEPT ![s] = IF dir.meta \in Trainings
                                       THEN [@ EXCEPT !.stage = "serving", !.meta = dir.meta]
                                       ELSE Down]
    /\ UNCHANGED <<dir, training>>

\* The process ends, and another one may start in its place.
Restart(s) ==
    /\ server[s].stage = "serving"
    /\ server' = [server EXCEPT ![s] = Down]
    /\ UNCHANGED <<dir, training>>

-----------------------------------------------------------------------------
\* No training is under way, and no server can load.
NothingToLoad ==
    /\ \A r \in Trainings : training[r].stage \in {"done", "dead"}
    /\ dir.model \notin Trainings
    /\ UNCHANGED rvars

TrainStep(r) ==
    \/ Train(r) \/ KeepModel(r)
    \/ OpenModel(r) \/ CloseModel(r) \/ OpenMeta(r) \/ CloseMeta(r)
    \/ TrainingDies(r)

RNext ==
    \/ \E r \in Trainings : TrainStep(r)
    \/ \E s \in Servers : LoadModel(s) \/ LoadMeta(s) \/ Restart(s)
    \/ NothingToLoad

RSpec == RInit /\ [][RNext]_rvars

-----------------------------------------------------------------------------
(* Properties *)

(***************************************************************************)
(* The threshold was tuned by scikit-learn's rule, on the test rows, and   *)
(* is applied by the comparison in /score: as long as a server has both    *)
(* files of one training, no other threshold would have given the rows it  *)
(* was tuned on a better F1.                                               *)
(***************************************************************************)
ServedThresholdIsBest ==
    \A s \in Servers : server[s].stage = "serving" /\ server[s].model = server[s].meta =>
        LET h == training[server[s].meta].holdout
        IN  \A z \in Scores(h) :
               AtMost(F1(h, Flagged(h, z)), F1(h, Flagged(h, BestThreshold(h))))

(***************************************************************************)
(* A server scores with one training's model and flags by another's        *)
(* threshold only for a reason that an operator can see: it was started    *)
(* while a training saved, the model's training died before it had saved   *)
(* both files, or two trainings saved to the directory at once.            *)
(***************************************************************************)
MixedPairHasACause ==
    \A s \in Servers :
        server[s].stage = "serving" /\ server[s].model # server[s].meta =>
            \/ ~server[s].quiet
            \/ training[server[s].model].stage = "dead"
            \/ training[server[s].model].overlapped
=============================================================================
