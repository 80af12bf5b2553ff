----------------------------- MODULE FlagPipeline -----------------------------
(***************************************************************************)
(* serving's POST /score and the webhook that puts a flagged transaction   *)
(* in review_app's queue: the call, the POST in flight, the row it creates *)
(* and the answer, with lost and late messages, dead workers and clients   *)
(* that send a payment again.  review_app's side is one atomic step per    *)
(* POST, which ReviewQueueProofs justifies (CreatedExactlyOnce).           *)
(***************************************************************************)
EXTENDS Naturals

CONSTANTS
    Payments,   \* what clients want scored; also the ids they may supply
    Calls,      \* calls of /score; also the uuids synthesized for them
    Scores,     \* what predict_proba may return
    Threshold,  \* meta["decision_threshold"]
    None        \* no payment, no id, no row

Ids == Payments \cup Calls

ASSUME PipelineAssumption ==
    /\ Scores \subseteq Nat /\ Threshold \in Nat
    /\ Payments \cap Calls = {} /\ None \notin Ids \cup Nat

VARIABLES
    supplied,   \* does the client of a payment send a transaction_id?
    configured, \* is REVIEW_APP_URL set?
    call,       \* the calls of /score
    post,       \* the POST to /api/flags/ made for a call
    rows        \* review_app's rows: the score a transaction was flagged with

pvars == <<supplied, configured, call, post, rows>>

CallStages == {"idle", "score", "notify", "wait", "respond", "done"}
Posts == {"none", "sent", "created", "conflict", "error", "lost"}

Call == [stage: CallStages, id: Ids \cup {None}, score: Scores \cup {None},
         notified: BOOLEAN, status: {0, 200, 400, 500}]

PTypeOK ==
    /\ supplied \in [Payments -> BOOLEAN]
    /\ configured \in BOOLEAN
    /\ call \in [Calls -> Call]
    /\ post \in [Calls -> Posts]
    /\ rows \in [Ids -> Scores \cup {None}]

PInit ==
    /\ supplied \in [Payments -> BOOLEAN]
    /\ configured \in BOOLEAN
    /\ call = [c \in Calls |-> [stage |-> "idle", id |-> None, score |-> None,
                                notified |-> FALSE, status |-> 0]]
    /\ post = [c \in Calls |-> "none"]
    /\ rows = [i \in Ids |-> None]

Env == <<supplied, configured>>

Goes(c, q) == call' = [call EXCEPT ![c] = q]

-----------------------------------------------------------------------------
(* serving *)

\* A payment arrives, for the first time or again: a supplied id is kept, a
\* missing one is made up for this call alone.
ReceiveScore(c, p) ==
    /\ call[c].stage = "idle"
    /\ Goes(c, [call[c] EXCEPT !.stage = "score", !.id = IF supplied[p] THEN p ELSE c])
    /\ UNCHANGED <<Env, post, rows>>

\* card1 or TransactionAmt is missing.
BadRequest(c) ==
    /\ call[c].stage = "idle"
    /\ Goes(c, [call[c] EXCEPT !.stage = "done", !.status = 400])
    /\ UNCHANGED <<Env, post, rows>>

FlagAll(c) ==                   \* mutant: notifies whatever the score
    /\ call[c].stage = "score"
    /\ \E s \in Scores : Goes(c, [call[c] EXCEPT !.score = s, !.stage = "notify"])
    /\ UNCHANGED <<Env, post, rows>>

\* The vector is read, the model predicts; only a score at or above the
\* threshold is flagged.  The same payment may score differently next time.
ScoreIt(c) ==
    /\ call[c].stage = "score"
    /\ \E s \in Scores :
          Goes(c, [call[c] EXCEPT !.score = s,
                                  !.stage = IF s >= Threshold THEN "notify" ELSE "respond"])
    /\ UNCHANGED <<Env, post, rows>>

\* Redis or the model raises, and nothing in score() catches it.
ScoringFails(c) ==
    /\ call[c].stage = "score"
    /\ Goes(c, [call[c] EXCEPT !.stage = "done", !.status = 500])
    /\ UNCHANGED <<Env, post, rows>>

\* notify_review_queue without a URL, or unable to connect.
SkipNotify(c) ==
    /\ call[c].stage = "notify"
    /\ Goes(c, [call[c] EXCEPT !.stage = "respond", !.notified = FALSE])
    /\ UNCHANGED <<Env, post, rows>>

SendPost(c) ==
    /\ call[c].stage = "notify"
    /\ configured
    /\ post' = [post EXCEPT ![c] = "sent"]
    /\ Goes(c, [call[c] EXCEPT !.stage = "wait"])
    /\ UNCHANGED <<Env, rows>>

AnyAnswerCounts(c) ==           \* mutant: a 409 counts as notified
    /\ call[c].stage = "wait"
    /\ post[c] \in {"created", "conflict", "error"}
    /\ Goes(c, [call[c] EXCEPT !.stage = "respond", !.notified = post[c] # "error"])
    /\ UNCHANGED <<Env, post, rows>>

\* The answer comes in time: True if and only if it is a 201.
ReadAnswer(c) ==
    /\ call[c].stage = "wait"
    /\ post[c] \in {"created", "conflict", "error"}
    /\ Goes(c, [call[c] EXCEPT !.stage = "respond", !.notified = post[c] = "created"])
    /\ UNCHANGED <<Env, post, rows>>

NoTimeout(c) == FALSE           \* mutant: requests.post without a timeout

NoReturn(c) ==                  \* mutant: the except branch forgets return False
    /\ call[c].stage = "wait"
    /\ Goes(c, [call[c] EXCEPT !.stage = "respond", !.notified = None])
    /\ UNCHANGED <<Env, post, rows>>

\* One second passed, or the connection broke.  The POST may still be served.
GiveUp(c) ==
    /\ call[c].stage = "wait"
    /\ Goes(c, [call[c] EXCEPT !.stage = "respond", !.notified = FALSE])
    /\ UNCHANGED <<Env, post, rows>>

Respond(c) ==
    /\ call[c].stage = "respond"
    /\ Goes(c, [call[c] EXCEPT !.stage = "done", !.status = 200])
    /\ UNCHANGED <<Env, post, rows>>

\* The gunicorn worker dies; its client hears nothing.
Die(c) ==
    /\ call[c].stage \notin {"idle", "done"}
    /\ Goes(c, [call[c] EXCEPT !.stage = "done"])
    /\ UNCHANGED <<Env, post, rows>>

-----------------------------------------------------------------------------
(* The network and review_app *)

LosePost(c) ==
    /\ post[c] = "sent"
    /\ post' = [post EXCEPT ![c] = "lost"]
    /\ UNCHANGED <<Env, call, rows>>

IngestUpsert(c) ==              \* mutant: update_or_create instead of create
    LET i == call[c].id IN
    /\ post[c] = "sent"
    /\ rows' = [rows EXCEPT ![i] = call[c].score]
    /\ post' = [post EXCEPT ![c] = "created"]
    /\ UNCHANGED <<Env, call>>

\* ingest_flag: 201 for a new id, 409 for one that is already there.
Ingest(c) ==
    LET i == call[c].id IN
    /\ post[c] = "sent"
    /\ IF rows[i] = None
       THEN /\ rows' = [rows EXCEPT ![i] = call[c].score]
            /\ post' = [post EXCEPT ![c] = "created"]
       ELSE /\ post' = [post EXCEPT ![c] = "conflict"]
            /\ UNCHANGED rows
    /\ UNCHANGED <<Env, call>>

\* 400, 401 or 500, or a worker that died after its transaction rolled back.
IngestRefuses(c) ==
    /\ post[c] = "sent"
    /\ post' = [post EXCEPT ![c] = "error"]
    /\ UNCHANGED <<Env, call, rows>>

-----------------------------------------------------------------------------
Quiet ==
    /\ \A c \in Calls : call[c].stage = "done" /\ post[c] # "sent"
    /\ UNCHANGED pvars

ServingStep(c) ==
    ScoreIt(c) \/ ScoringFails(c) \/ SkipNotify(c) \/ SendPost(c) \/ ReadAnswer(c)
    \/ GiveUp(c) \/ Respond(c)

ReviewStep(c) == Ingest(c) \/ IngestRefuses(c)

PNext ==
    \/ \E c \in Calls :
          \/ \E p \in Payments : ReceiveScore(c, p)
          \/ BadRequest(c) \/ ServingStep(c) \/ Die(c)
          \/ ReviewStep(c) \/ LosePost(c)
    \/ Quiet

PSpec == PInit /\ [][PNext]_pvars

\* A worker goes on with its call.  Nothing is assumed of review_app.
PFairSpec == PSpec /\ \A c \in Calls : WF_pvars(ServingStep(c))

-----------------------------------------------------------------------------
(* Properties *)

Told(c) == call[c].stage = "done" /\ call[c].status = 200
Flagged(c) == call[c].score # None /\ call[c].score >= Threshold

(***************************************************************************)
(* notified_review_queue: true is a promise: the row in the queue is the   *)
(* one this very call scored, and no other call with the id is told so.    *)
(***************************************************************************)
NotifiedMeansQueued ==
    \A c \in Calls : call[c].notified =>
        /\ Flagged(c) /\ rows[call[c].id] = call[c].score
        /\ \A d \in Calls : call[d].notified /\ call[d].id = call[c].id => d = c

(***************************************************************************)
(* The queue holds flagged transactions only, with the score of a call     *)
(* that was made for them.                                                 *)
(***************************************************************************)
QueueHoldsFlagged ==
    \A i \in Ids : rows[i] # None =>
        /\ rows[i] >= Threshold
        /\ \E c \in Calls : call[c].id = i /\ call[c].score = rows[i]

(***************************************************************************)
(* A row in the queue is never overwritten by a late or repeated POST: the *)
(* score analysts judge is the first one that got there.                   *)
(***************************************************************************)
FirstFlagStands ==
    [][\A i \in Ids : rows[i] # None => rows'[i] = rows[i]]_pvars

(***************************************************************************)
(* "a review-app hiccup shouldn't take /score down with it": every call    *)
(* that was received is over eventually, with nothing assumed of           *)
(* review_app or the network.                                              *)
(***************************************************************************)
ScoreAnswers == \A c \in Calls : call[c].stage = "score" ~> call[c].stage = "done"
=============================================================================
