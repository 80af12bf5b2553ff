----------------------------- MODULE ServingProofs -----------------------------
(***************************************************************************)
(* Proofs about serving.                                                   *)
(*                                                                         *)
(* The scoring webhook, for any payments, calls, scores and threshold:     *)
(* what a call is told is about a row it no longer looks at.  The promise  *)
(* rests on a 201 belonging to one POST, on the row it created never       *)
(* changing, and on a call's id and score being settled before it posts.   *)
(*                                                                         *)
(* A pod, for any number of workers, timeouts, thresholds and calls:       *)
(* a worker that is stuck has a request that asks Redis, so a liveness     *)
(* probe that is waited for is in the backlog, and unless all workers were *)
(* stuck at once it is served before the tick ends (Waits).  While Redis   *)
(* is down no readiness probe is answered with success, so its failures    *)
(* keep pace with the ticks for as long as the pod is ready (Drains).      *)
(***************************************************************************)
EXTENDS FlagPipeline, ServingPod, FiniteSetTheorems, TLAPS

-----------------------------------------------------------------------------
(* The scoring webhook: FlagPipeline *)

\* A call that posts, or may, has its id and a score at the threshold.
Settled ==
    \A c \in Calls :
        /\ call[c].stage = "score" => call[c].id \in Ids
        /\ call[c].stage \in {"notify", "wait"} => call[c].id \in Ids /\ Flagged(c)
        /\ call[c].stage \in {"idle", "score", "notify"} => post[c] = "none"
        /\ post[c] # "none" => call[c].id \in Ids /\ Flagged(c)

\* A 201 was given for the row that is there, once per id.
Created ==
    \A c \in Calls : post[c] = "created" =>
        /\ rows[call[c].id] = call[c].score
        /\ \A d \in Calls : post[d] = "created" /\ call[d].id = call[c].id => d = c

\* Every row got there by a POST that was answered 201.
Rooted ==
    \A i \in Ids : rows[i] # None =>
        \E c \in Calls : post[c] = "created" /\ call[c].id = i

Told201 == \A c \in Calls : call[c].notified => post[c] = "created"

PInv == PTypeOK /\ Settled /\ Created /\ Rooted /\ Told201

-----------------------------------------------------------------------------
\* A step of one call that leaves posts and rows alone and, once the call may
\* have posted, its id and score.
LEMMA CallStep ==
    ASSUME PInv, NEW c \in Calls, NEW q \in Call, Goes(c, q), UNCHANGED <<Env, post, rows>>,
           q.stage = "score" => q.id \in Ids,
           q.stage \in {"notify", "wait"} =>
              q.id \in Ids /\ q.score # None /\ q.score >= Threshold,
           q.stage \in {"idle", "score", "notify"} => post[c] = "none",
           post[c] # "none" => q.id = call[c].id /\ q.score = call[c].score,
           q.notified => post[c] = "created"
    PROVE  PInv'
  <1>1. call' = [call EXCEPT ![c] = q] /\ call \in [Calls -> Call] /\ post' = post /\ rows' = rows
    BY DEF Goes, PInv, PTypeOK
  <1>2. call'[c] = q /\ \A d \in Calls : d # c => call'[d] = call[d]
    BY <1>1
  <1>3. PTypeOK'
    BY <1>1 DEF PInv, PTypeOK, Env
  <1>4. Settled'
    BY <1>1, <1>2 DEF PInv, Settled, Flagged
  <1>5. \A d \in Calls : post[d] # "none" => call'[d].id = call[d].id /\ call'[d].score = call[d].score
    BY <1>2
  <1>6. Created'
    BY <1>1, <1>5 DEF PInv, Created
  <1>7. Rooted'
    BY <1>1, <1>5 DEF PInv, Rooted
  <1>8. Told201'
    BY <1>1, <1>2 DEF PInv, Told201
  <1> QED
    BY <1>3, <1>4, <1>6, <1>7, <1>8 DEF PInv

\* A POST in flight gets an answer, or none, that is not a 201.
LEMMA PostStep ==
    ASSUME PInv, NEW c \in Calls, NEW outcome \in {"lost", "conflict", "error"},
           post[c] = "sent", post' = [post EXCEPT ![c] = outcome], UNCHANGED <<Env, call, rows>>
    PROVE  PInv'
  <1>1. post \in [Calls -> Posts]
    BY DEF PInv, PTypeOK
  <1>2. post'[c] = outcome /\ \A d \in Calls : d # c => post'[d] = post[d]
    BY <1>1
  <1>3. \A d \in Calls : /\ post'[d] = "created" <=> post[d] = "created"
                         /\ post'[d] = "none" <=> post[d] = "none"
    BY <1>2
  <1>4. PTypeOK'
    BY <1>1 DEF PInv, PTypeOK, Env, Posts
  <1>5. Settled'
    BY <1>3 DEF PInv, Settled, Flagged
  <1>6. Created' /\ Rooted' /\ Told201'
    BY <1>3 DEF PInv, Created, Rooted, Told201
  <1> QED
    BY <1>4, <1>5, <1>6 DEF PInv

LEMMA CreateStep ==
    ASSUME PInv, NEW c \in Calls, post[c] = "sent", rows[call[c].id] = None,
           rows' = [rows EXCEPT ![call[c].id] = call[c].score],
           post' = [post EXCEPT ![c] = "created"], UNCHANGED <<Env, call>>
    PROVE  PInv'
  <1>1. /\ post \in [Calls -> Posts] /\ rows \in [Ids -> Scores \cup {None}]
        /\ call[c] \in Call
    BY DEF PInv, PTypeOK
  <1>2. call[c].id \in Ids /\ call[c].score # None /\ call[c].score \in Scores \cup {None}
    BY <1>1 DEF PInv, Settled, Flagged, Call
  <1>3. post'[c] = "created" /\ \A d \in Calls : d # c => post'[d] = post[d]
    BY <1>1
  <1>4. /\ rows'[call[c].id] = call[c].score
        /\ \A i \in Ids : i # call[c].id => rows'[i] = rows[i]
    BY <1>1, <1>2
  <1>5. \A d \in Calls : post[d] = "created" =>
           call[d].id \in Ids /\ call[d].score # None /\ rows[call[d].id] = call[d].score
    BY DEF PInv, Settled, Flagged, Created
  <1>6. \A d \in Calls : post[d] = "created" => call[d].id # call[c].id
    BY <1>5
  <1>7. PTypeOK'
    BY <1>1, <1>2 DEF PInv, PTypeOK, Env, Posts
  <1>8. Settled'
    BY <1>3 DEF PInv, Settled, Flagged
  <1>9. Created'
    BY <1>3, <1>4, <1>5, <1>6 DEF PInv, Created
  <1>10. Rooted'
    BY <1>3, <1>4 DEF PInv, Rooted
  <1>11. Told201'
    BY <1>3 DEF PInv, Told201
  <1> QED
    BY <1>7, <1>8, <1>9, <1>10, <1>11 DEF PInv

LEMMA SendStep ==
    ASSUME PInv, NEW c \in Calls, SendPost(c)
    PROVE  PInv'
  <1> DEFINE q == [call[c] EXCEPT !.stage = "wait"]
  <1>1. call \in [Calls -> Call] /\ call[c] \in Call /\ post \in [Calls -> Posts]
    BY DEF PInv, PTypeOK
  <1>2. /\ q \in Call /\ q.stage = "wait" /\ q.id = call[c].id /\ q.score = call[c].score
        /\ q.notified = call[c].notified
    BY <1>1 DEF Call, CallStages
  <1> HIDE DEF q
  <1>3. call'[c] = q /\ \A d \in Calls : d # c => call'[d] = call[d]
    BY <1>1 DEF SendPost, Goes, q
  <1>4. post'[c] = "sent" /\ \A d \in Calls : d # c => post'[d] = post[d]
    BY <1>1 DEF SendPost
  <1>5. call[c].id \in Ids /\ Flagged(c) /\ post[c] = "none"
    BY DEF SendPost, PInv, Settled
  <1>6. \A d \in Calls : /\ post'[d] = "created" <=> post[d] = "created"
                         /\ call'[d].id = call[d].id /\ call'[d].score = call[d].score
                         /\ call'[d].notified = call[d].notified
    BY <1>2, <1>3, <1>4, <1>5
  <1>7. PTypeOK'
    <2>1. call' \in [Calls -> Call]
      BY <1>1, <1>2 DEF SendPost, Goes, q
    <2>2. post' \in [Calls -> Posts]
      BY <1>1 DEF SendPost, Posts
    <2> QED
      BY <2>1, <2>2 DEF SendPost, PInv, PTypeOK, Env
  <1>8. Settled'
    BY <1>2, <1>3, <1>4, <1>5 DEF PInv, Settled, Flagged
  <1>9. rows' = rows
    BY DEF SendPost
  <1>10. Created' /\ Rooted' /\ Told201'
    BY <1>6, <1>9 DEF PInv, Created, Rooted, Told201
  <1> QED
    BY <1>7, <1>8, <1>10 DEF PInv

-----------------------------------------------------------------------------
\* The steps of one call that only change its own record.
LEMMA ServingKeeps ==
    ASSUME PInv, NEW c \in Calls,
           \/ \E p \in Payments : ReceiveScore(c, p)
           \/ BadRequest(c) \/ ScoreIt(c) \/ ScoringFails(c) \/ SkipNotify(c) \/ ReadAnswer(c)
           \/ GiveUp(c) \/ Respond(c) \/ Die(c)
    PROVE  PInv'
  <1>1. call[c] \in Call /\ UNCHANGED <<Env, post, rows>>
    BY DEF PInv, PTypeOK, ReceiveScore, BadRequest, ScoreIt, ScoringFails, SkipNotify, ReadAnswer,
           GiveUp, Respond, Die
  <1>2. /\ call[c].stage = "score" => call[c].id \in Ids
        /\ call[c].stage \in {"notify", "wait"} => call[c].id \in Ids /\ Flagged(c)
        /\ call[c].stage \in {"idle", "score", "notify"} => post[c] = "none"
        /\ call[c].notified => post[c] = "created"
    BY DEF PInv, Settled, Told201
  <1>3. ASSUME NEW q \in Call, Goes(c, q), q.stage \in {"respond", "done"}, q.id = call[c].id,
               q.score = call[c].score, q.notified => post[c] = "created"
        PROVE  PInv'
    BY <1>1, <1>3, CallStep
  <1>4. ASSUME NEW status \in {200, 400, 500},
               Goes(c, [call[c] EXCEPT !.stage = "done", !.status = status])
        PROVE  PInv'
    <2> DEFINE r == [call[c] EXCEPT !.stage = "done"]
               q == [r EXCEPT !.status = status]
    <2>1. Goes(c, q)
      BY <1>4
    <2>2. /\ r \in Call /\ r.stage = "done" /\ r.id = call[c].id
          /\ r.score = call[c].score /\ r.notified = call[c].notified
      BY <1>1 DEF Call, CallStages
    <2> HIDE DEF r
    <2>3. /\ q \in Call /\ q.stage = "done" /\ q.id = call[c].id
          /\ q.score = call[c].score /\ q.notified = call[c].notified
      BY <2>2 DEF Call
    <2> HIDE DEF q
    <2> QED
      BY <1>2, <1>3, <2>1, <2>3
  <1>5. ASSUME NEW p \in Payments, ReceiveScore(c, p) PROVE PInv'
    <2> DEFINE id == IF supplied[p] THEN p ELSE c
               r == [call[c] EXCEPT !.stage = "score"]
               q == [r EXCEPT !.id = id]
    <2>1. id \in Ids
      BY DEF Ids
    <2>2. Goes(c, q) /\ post[c] = "none"
      BY <1>2, <1>5 DEF ReceiveScore
    <2>3. /\ r \in Call /\ r.stage = "score"
          /\ r.score = call[c].score /\ r.notified = call[c].notified
      BY <1>1 DEF Call, CallStages
    <2> HIDE DEF id, r
    <2>4. /\ q \in Call /\ q.stage = "score" /\ q.id = id
          /\ q.score = call[c].score /\ q.notified = call[c].notified
      BY <2>1, <2>3 DEF Call
    <2> HIDE DEF q
    <2> QED
      BY <1>1, <1>2, <2>1, <2>2, <2>4, CallStep
  <1>6. ASSUME BadRequest(c) PROVE PInv'
    BY <1>4, <1>6 DEF BadRequest
  <1>7. ASSUME ScoreIt(c) PROVE PInv'
    <2>1. PICK s \in Scores :
             Goes(c, [call[c] EXCEPT !.score = s,
                                     !.stage = IF s >= Threshold THEN "notify" ELSE "respond"])
      BY <1>7 DEF ScoreIt
    <2> DEFINE stage == IF s >= Threshold THEN "notify" ELSE "respond"
               r == [call[c] EXCEPT !.score = s]
               q == [r EXCEPT !.stage = stage]
    <2>2. /\ stage \in CallStages /\ stage \in {"notify", "respond"}
          /\ stage = "notify" => s >= Threshold
      BY DEF CallStages
    <2>3. Goes(c, q) /\ s # None /\ call[c].id \in Ids /\ post[c] = "none"
      BY <1>2, <1>7, <2>1, PipelineAssumption DEF ScoreIt
    <2>4. r \in Call /\ r.score = s /\ r.id = call[c].id /\ r.notified = call[c].notified
      BY <1>1 DEF Call
    <2> HIDE DEF stage, r
    <2>5. /\ q \in Call /\ q.stage = stage /\ q.score = s
          /\ q.id = call[c].id /\ q.notified = call[c].notified
      BY <2>2, <2>4 DEF Call
    <2> HIDE DEF q
    <2> QED
      BY <1>1, <1>2, <2>2, <2>3, <2>5, CallStep
  <1>8. ASSUME ScoringFails(c) PROVE PInv'
    BY <1>4, <1>8 DEF ScoringFails
  <1>9. ASSUME NEW told \in BOOLEAN, told => post[c] = "created",
               Goes(c, [call[c] EXCEPT !.stage = "respond", !.notified = told])
        PROVE  PInv'
    <2> DEFINE r == [call[c] EXCEPT !.stage = "respond"]
               q == [r EXCEPT !.notified = told]
    <2>1. Goes(c, q)
      BY <1>9
    <2>2. r \in Call /\ r.stage = "respond" /\ r.id = call[c].id /\ r.score = call[c].score
      BY <1>1 DEF Call, CallStages
    <2> HIDE DEF r
    <2>3. /\ q \in Call /\ q.stage = "respond" /\ q.notified = told
          /\ q.id = call[c].id /\ q.score = call[c].score
      BY <2>2 DEF Call
    <2> HIDE DEF q
    <2> QED
      BY <1>3, <1>9, <2>1, <2>3
  <1>10. ASSUME SkipNotify(c) PROVE PInv'
    BY <1>9, <1>10 DEF SkipNotify
  <1>11. ASSUME GiveUp(c) PROVE PInv'
    BY <1>9, <1>11 DEF GiveUp
  <1>12. ASSUME ReadAnswer(c) PROVE PInv'
    BY <1>9, <1>12 DEF ReadAnswer
  <1>13. ASSUME Respond(c) PROVE PInv'
    BY <1>4, <1>13 DEF Respond
  <1>14. ASSUME Die(c) PROVE PInv'
    <2> DEFINE q == [call[c] EXCEPT !.stage = "done"]
    <2>1. /\ q \in Call /\ q.stage = "done" /\ q.id = call[c].id
          /\ q.score = call[c].score /\ q.notified = call[c].notified
      BY <1>1 DEF Call, CallStages
    <2>2. Goes(c, q)
      BY <1>14 DEF Die
    <2> HIDE DEF q
    <2> QED
      BY <1>2, <1>3, <2>1, <2>2
  <1> QED
    BY <1>5, <1>6, <1>7, <1>8, <1>10, <1>11, <1>12, <1>13, <1>14

LEMMA PStep == PInv /\ [PNext]_pvars => PInv'
  <1> SUFFICES ASSUME PInv, [PNext]_pvars PROVE PInv'
    OBVIOUS
  <1>1. ASSUME NEW c \in Calls, LosePost(c) PROVE PInv'
    BY <1>1, PostStep DEF LosePost
  <1>2. ASSUME NEW c \in Calls, IngestRefuses(c) PROVE PInv'
    BY <1>2, PostStep DEF IngestRefuses
  <1>3. ASSUME NEW c \in Calls, Ingest(c) PROVE PInv'
    <2>1. CASE rows[call[c].id] = None
      BY <1>3, <2>1, CreateStep DEF Ingest
    <2>2. CASE rows[call[c].id] # None
      BY <1>3, <2>2, PostStep DEF Ingest
    <2> QED
      BY <2>1, <2>2
  <1>4. CASE UNCHANGED pvars
    BY <1>4 DEF pvars, PInv, PTypeOK, Settled, Flagged, Created, Rooted, Told201
  <1>5. CASE Quiet
    BY <1>4, <1>5 DEF Quiet
  <1> QED
    BY <1>1, <1>2, <1>3, <1>4, <1>5, ServingKeeps, SendStep DEF PNext, ServingStep, ReviewStep

LEMMA PStart == PInit => PInv
  <1> SUFFICES ASSUME PInit PROVE PInv
    OBVIOUS
  <1>1. [stage |-> "idle", id |-> None, score |-> None, notified |-> FALSE, status |-> 0] \in Call
    BY DEF Call, CallStages
  <1>2. PTypeOK
    BY <1>1 DEF PInit, PTypeOK, Posts
  <1> QED
    BY <1>2 DEF PInit, PInv, Settled, Created, Rooted, Told201

-----------------------------------------------------------------------------
(***************************************************************************)
(* The invariant of score() and notify_review_queue.                       *)
(***************************************************************************)
THEOREM PInvariance == PSpec => []PInv
  BY PStart, PStep, PTL DEF PSpec

(***************************************************************************)
(* Calls, POSTs and the queue's rows keep their types, for any number of   *)
(* calls of score() and ids.                                               *)
(***************************************************************************)
THEOREM PTypes == PSpec => []PTypeOK
  BY PInvariance, PTL DEF PInv

(***************************************************************************)
(* notified_review_queue: true is true of this very call, and of no other  *)
(* call with its id, for any number of retries and lost or late POSTs.     *)
(***************************************************************************)
THEOREM NotifiedIsQueued == PSpec => []NotifiedMeansQueued
  <1>1. PInv => NotifiedMeansQueued
    BY DEF PInv, Settled, Created, Told201, NotifiedMeansQueued
  <1> QED
    BY <1>1, PInvariance, PTL

(***************************************************************************)
(* What analysts find in the queue was flagged by a call made for it.      *)
(***************************************************************************)
THEOREM OnlyFlaggedQueued == PSpec => []QueueHoldsFlagged
  <1>1. PInv => QueueHoldsFlagged
    BY DEF PInv, Settled, Created, Rooted, Flagged, QueueHoldsFlagged
  <1> QED
    BY <1>1, PInvariance, PTL

(***************************************************************************)
(* A queued row is never overwritten: create_flag inserts or raises.       *)
(***************************************************************************)
THEOREM FirstFlagsStand == PSpec => FirstFlagStands
  <1>1. PInv /\ [PNext]_pvars => [\A i \in Ids : rows[i] # None => rows'[i] = rows[i]]_pvars
    <2> SUFFICES ASSUME PInv, PNext, NEW i \in Ids, rows[i] # None PROVE rows'[i] = rows[i]
      BY DEF pvars
    <2>1. ASSUME NEW c \in Calls, Ingest(c) PROVE rows'[i] = rows[i]
      <3>1. rows \in [Ids -> Scores \cup {None}]
        BY DEF PInv, PTypeOK
      <3> QED
        BY <2>1, <3>1 DEF Ingest
    <2>2. CASE rows' = rows
      BY <2>2
    <2> QED
      BY <2>1, <2>2 DEF PNext, ServingStep, ReviewStep, ReceiveScore, BadRequest, ScoreIt,
         ScoringFails, SkipNotify, SendPost, ReadAnswer, GiveUp, Respond, Die, LosePost,
         IngestRefuses, Quiet, pvars
  <1> QED
    BY <1>1, PInvariance, PTL DEF PSpec, FirstFlagStands

-----------------------------------------------------------------------------
(* The pod: ServingPod *)

\* A liveness probe that the kubelet is still waiting for.
Probe == [path |-> "/healthz", abandoned |-> FALSE]

Waits ==
    /\ \A w \in Workers : Stuck(w) => AsksRedis(worker[w].job.path)
    /\ AllStuck => held
    /\ ~held =>
          /\ fails["/healthz"] = 0
          /\ answer["/healthz"] # "failed"
          /\ answer["/healthz"] = "waiting" => \E i \in 1..Len(backlog) : backlog[i] = Probe

Drains ==
    /\ redis = "up" => down = 0
    /\ down > 0 => answer["/readyz"] # "ok"
    /\ ready /\ down > 0 =>
          /\ answer["/readyz"] # "not asked"
          /\ fails["/readyz"] >= down - 1
          /\ down <= MaxFails

PodInv == PodTypeOK /\ Waits /\ Drains

-----------------------------------------------------------------------------
(* Types *)

LEMMA Bounds ==
    /\ MaxFails \in Nat \ {0} /\ WorkerTimeout \in Nat \ {0} /\ LivenessEvery \in Nat \ {0}
    /\ MaxScores \in Nat /\ MaxBacklog \in Nat /\ MaxBacklog >= 2 /\ Workers # {}
  <1>1. Cardinality({"/readyz", "/healthz"}) = 2
    <2>1. IsFiniteSet({"/readyz"}) /\ Cardinality({"/readyz"}) = 1
      BY FS_Singleton
    <2>2. {"/readyz", "/healthz"} = {"/readyz"} \cup {"/healthz"} /\ "/healthz" \notin {"/readyz"}
      OBVIOUS
    <2> QED
      BY <2>1, <2>2, FS_AddElement
  <1> QED
    BY <1>1, PodAssumption DEF Probes

LEMMA Ranges ==
    /\ 0 \in 0..MaxFails /\ 0 \in 0..MaxFails + 1 /\ 0 \in 0..LivenessEvery - 1 /\ 0 \in 0..MaxScores
    /\ \A n \in 0..MaxFails : n # MaxFails => n + 1 \in 0..MaxFails
    /\ \A n \in 0..MaxFails + 1 : ~(n > MaxFails) => n + 1 \in 0..MaxFails + 1
    /\ \A n \in 0..MaxScores : n < MaxScores => n + 1 \in 0..MaxScores
    /\ \A n \in 0..LivenessEvery - 1 : (n + 1) % LivenessEvery \in 0..LivenessEvery - 1
  BY Bounds

LEMMA FreeType == Free \in Worker
  BY Bounds DEF Free, Worker

LEMMA AbandonedType == \A c \in Connection : Abandoned(c) \in Connection
  BY DEF Abandoned, Connection

LEMMA JoinsType ==
    ASSUME NEW conns \in Seq(Connection), Len(conns) <= MaxBacklog, NEW path \in Paths
    PROVE  /\ Joins(conns, path) \in Seq(Connection) /\ Len(Joins(conns, path)) <= MaxBacklog
           /\ \A i \in 1..Len(conns) : i \in 1..Len(Joins(conns, path)) /\ Joins(conns, path)[i] = conns[i]
  <1> DEFINE c == [path |-> path, abandoned |-> FALSE]
  <1>1. c \in Connection
    BY DEF Connection
  <1>2. Joins(conns, path) = IF Len(conns) < MaxBacklog THEN Append(conns, c) ELSE conns
    BY DEF Joins
  <1> HIDE DEF c
  <1> QED
    BY <1>1, <1>2, Bounds

LEMMA AnsweredType ==
    ASSUME PodTypeOK
    PROVE  \A c : \A result \in {"ok", "failed"} :
               Answered(c, result) \in [Probes -> {"not asked", "waiting", "ok", "failed"}]
  <1>1. answer \in [Probes -> {"not asked", "waiting", "ok", "failed"}]
    BY DEF PodTypeOK
  <1> QED
    BY <1>1 DEF Answered

LEMMA GoesOnTypes ==
    ASSUME PodTypeOK, NEW w \in Workers, NEW c \in Connection, NEW result \in {"ok", "failed"},
           GoesOn(w, c, result)
    PROVE  /\ worker' \in [Workers -> Worker]
           /\ answer' \in [Probes -> {"not asked", "waiting", "ok", "failed"}]
  <1>1. worker[w].age \in 0..WorkerTimeout - 1
    BY DEF PodTypeOK, Worker
  <1>2. [job |-> c, on |-> "review", age |-> worker[w].age] \in Worker
    BY <1>1 DEF Worker
  <1>3. worker' = [worker EXCEPT ![w] = Free]
            \/ worker' = [worker EXCEPT ![w] = [job |-> c, on |-> "review", age |-> worker[w].age]]
    BY DEF GoesOn, Holds
  <1>4. answer' = Answered(c, result) \/ answer' = answer
    BY DEF GoesOn
  <1>5. worker' \in [Workers -> Worker]
    BY <1>2, <1>3, FreeType DEF PodTypeOK
  <1>6. answer' \in [Probes -> {"not asked", "waiting", "ok", "failed"}]
    BY <1>4, AnsweredType DEF PodTypeOK
  <1> QED
    BY <1>5, <1>6

LEMMA ServeTypes ==
    ASSUME PodTypeOK, NEW w \in Workers, Serve(w)
    PROVE  PodTypeOK'
  <1> DEFINE c == Head(backlog)
             result == IF AsksRedis(c.path) /\ redis = "refusing" THEN "failed" ELSE "ok"
  <1>1. c \in Connection /\ Tail(backlog) \in Seq(Connection) /\ Len(Tail(backlog)) <= MaxBacklog
    <2>1. backlog \in Seq(Connection) /\ Len(backlog) <= MaxBacklog /\ backlog # <<>>
      BY DEF PodTypeOK, Serve
    <2> QED
      BY <2>1, Bounds
  <1>2. [job |-> c, on |-> "redis", age |-> 0] \in Worker
    BY <1>1, Bounds DEF Worker
  <1>3. (Holds(w, c, "redis", 0) /\ UNCHANGED answer) \/ GoesOn(w, c, result)
    BY DEF Serve
  <1>4. /\ backlog' = Tail(backlog) /\ UNCHANGED <<redis, ready, fails, clock, scores, down>>
        /\ held' \in BOOLEAN
    BY DEF Serve, NotesHeld, PodTypeOK
  <1>7. result \in {"ok", "failed"}
    OBVIOUS
  <1> HIDE DEF c, result
  <1>5. CASE Holds(w, c, "redis", 0) /\ UNCHANGED answer
    <2>1. worker' \in [Workers -> Worker]
      BY <1>2, <1>5 DEF PodTypeOK, Holds
    <2> QED
      BY <1>1, <1>4, <1>5, <2>1 DEF PodTypeOK
  <1>6. CASE GoesOn(w, c, result)
    BY <1>1, <1>4, <1>6, <1>7, GoesOnTypes DEF PodTypeOK
  <1> QED
    BY <1>3, <1>5, <1>6

LEMMA ReturnTypes ==
    ASSUME PodTypeOK, Waits, NEW w \in Workers, RedisReturns(w)
    PROVE  PodTypeOK'
  <1> DEFINE c == worker[w].job
             result == IF redis = "up" THEN "ok" ELSE "failed"
  <1>1. c \in Connection
    <2>1. AsksRedis(c.path) /\ c \in Connection \cup {Idle}
      BY DEF RedisReturns, Waits, Stuck, PodTypeOK, Worker
    <2> QED
      BY <2>1 DEF AsksRedis, Idle
  <1>2. GoesOn(w, c, result) /\ result \in {"ok", "failed"}
    BY DEF RedisReturns
  <1> HIDE DEF c, result
  <1>3. /\ worker' \in [Workers -> Worker]
        /\ answer' \in [Probes -> {"not asked", "waiting", "ok", "failed"}]
    BY <1>1, <1>2, GoesOnTypes
  <1> QED
    BY <1>3 DEF PodTypeOK, RedisReturns

\* A probe that gives up marks its connection, wherever that is.
LEMMA GiveUpTypes ==
    ASSUME PodTypeOK, NEW p \in Probes, GivesUp(p)
    PROVE  PodTypeOK'
  <1> DEFINE left(c) == IF c.path = p THEN Abandoned(c) ELSE c
  <1>1. \A c \in Connection : left(c) \in Connection
    BY AbandonedType
  <1>2. left(Idle) = Idle
    BY DEF Abandoned, Idle, Probes
  <1>3. worker' = [w \in Workers |-> [worker[w] EXCEPT !.job = left(worker[w].job)]]
    BY DEF GivesUp
  <1>4. backlog' = [i \in DOMAIN backlog |-> left(backlog[i])]
    BY DEF GivesUp
  <1> HIDE DEF left
  <1>5. worker' \in [Workers -> Worker]
    <2>1. ASSUME NEW w \in Workers PROVE [worker[w] EXCEPT !.job = left(worker[w].job)] \in Worker
      <3>1. worker[w] \in Worker
        BY DEF PodTypeOK
      <3>2. left(worker[w].job) \in Connection \cup {Idle}
        BY <1>1, <1>2, <3>1 DEF Worker
      <3> QED
        BY <3>1, <3>2 DEF Worker
    <2> QED
      BY <1>3, <2>1
  <1>6. backlog' \in Seq(Connection) /\ Len(backlog') <= MaxBacklog
    <2>1. backlog \in Seq(Connection) /\ Len(backlog) <= MaxBacklog
      BY DEF PodTypeOK
    <2>2. /\ DOMAIN backlog = 1..Len(backlog) /\ Len(backlog) \in Nat
          /\ \A i \in 1..Len(backlog) : backlog[i] \in Connection
      BY <2>1
    <2>3. backlog' \in [1..Len(backlog) -> Connection]
      BY <1>1, <1>4, <2>2
    <2>4. backlog' \in Seq(Connection) /\ Len(backlog') = Len(backlog)
      BY <2>2, <2>3
    <2> QED
      BY <2>1, <2>4
  <1>7. answer' \in [Probes -> {"not asked", "waiting", "ok", "failed"}]
    BY DEF GivesUp, PodTypeOK
  <1> QED
    BY <1>5, <1>6, <1>7 DEF GivesUp, PodTypeOK

LEMMA GivenUp ==
    ASSUME NEW conns \in Seq(Connection), Len(conns) <= MaxBacklog
    PROVE  LET old == [i \in DOMAIN conns |-> Abandoned(conns[i])]
           IN  old \in Seq(Connection) /\ Len(old) <= MaxBacklog
  <1> DEFINE old == [i \in DOMAIN conns |-> Abandoned(conns[i])]
  <1>1. DOMAIN conns = 1..Len(conns) /\ Len(conns) \in Nat /\ \A i \in 1..Len(conns) : conns[i] \in Connection
    OBVIOUS
  <1>2. old \in [1..Len(conns) -> Connection]
    BY <1>1, AbandonedType
  <1>3. old \in Seq(Connection) /\ Len(old) = Len(conns)
    BY <1>1, <1>2
  <1> QED
    BY <1>3

LEMMA AskTypes ==
    ASSUME PodTypeOK, Asks
    PROVE  /\ answer' \in [Probes -> {"not asked", "waiting", "ok", "failed"}]
           /\ backlog' \in Seq(Connection) /\ Len(backlog') <= MaxBacklog
           /\ answer'["/readyz"] = "waiting"
  <1> DEFINE old == [i \in DOMAIN backlog |-> Abandoned(backlog[i])]
  <1>1. old \in Seq(Connection) /\ Len(old) <= MaxBacklog
    BY GivenUp DEF PodTypeOK
  <1>2. "/readyz" \in Paths /\ "/healthz" \in Paths
    BY DEF Paths, Probes
  <1>3. \/ backlog' = Joins(Joins(old, "/readyz"), "/healthz")
        \/ backlog' = Joins(Joins(old, "/healthz"), "/readyz")
        \/ backlog' = Joins(old, "/readyz")
    BY DEF Asks
  <1>4. answer' \in [Probes -> {"not asked", "waiting", "ok", "failed"}] /\ answer'["/readyz"] = "waiting"
    BY DEF Asks, NotAsked, Probes
  <1> HIDE DEF old
  <1> QED
    BY <1>1, <1>2, <1>3, <1>4, JoinsType

LEMMA TickTypes ==
    ASSUME PodTypeOK, Tick
    PROVE  PodTypeOK'
  <1>1. fails' \in [Probes -> 0..MaxFails]
    <2>1. ASSUME NEW p \in Probes PROVE Count(p) \in 0..MaxFails
      <3>1. fails[p] \in 0..MaxFails
        BY DEF PodTypeOK
      <3> QED
        BY <3>1, Ranges DEF Count
    <2> QED
      BY <2>1 DEF Tick
  <1>2. worker' \in [Workers -> Worker]
    <2>1. ASSUME NEW w \in Workers
          PROVE  Aged(w) \in Worker
      <3>1. worker[w].job \in Connection \cup {Idle} /\ worker[w].age \in 0..WorkerTimeout - 1
        BY DEF PodTypeOK, Worker
      <3>2. Abandoned(worker[w].job) \in Connection \cup {Idle}
        BY <3>1, AbandonedType DEF Abandoned, Idle, Probes
      <3>3. worker[w].age + 1 # WorkerTimeout => worker[w].age + 1 \in 0..WorkerTimeout - 1
        BY <3>1, Bounds
      <3> HIDE <3>1
      <3> QED
        BY <3>2, <3>3, FreeType DEF Aged, Worker
    <2> QED
      BY <2>1 DEF Tick
  <1>3. clock' \in 0..LivenessEvery - 1
    <2>1. clock \in 0..LivenessEvery - 1 /\ clock' = (clock + 1) % LivenessEvery
      BY DEF Tick, PodTypeOK
    <2> QED
      BY <2>1, Ranges
  <1>4. down' \in 0..MaxFails + 1
    <2>1. down \in 0..MaxFails + 1
          /\ down' = IF redis = "up" THEN 0 ELSE IF down > MaxFails THEN down ELSE down + 1
      BY DEF Tick, PodTypeOK
    <2> QED
      BY <2>1, Ranges
  <1>7. ready' \in BOOLEAN
    BY DEF Tick
  <1>5. scores' \in 0..MaxScores /\ redis' = redis /\ held' \in BOOLEAN
    BY Ranges DEF Tick, AllStuck, PodTypeOK
  <1>6. Asks
    BY DEF Tick
  <1> QED
    BY <1>1, <1>2, <1>3, <1>4, <1>5, <1>6, <1>7, AskTypes DEF PodTypeOK

LEMMA TypeStep == PodTypeOK /\ Waits /\ [PodNext]_podvars => PodTypeOK'
  <1> SUFFICES ASSUME PodTypeOK, Waits, [PodNext]_podvars PROVE PodTypeOK'
    OBVIOUS
  <1>1. CASE Score
    <2>1. "/score" \in Paths
      BY DEF Paths
    <2>2. backlog' \in Seq(Connection) /\ Len(backlog') <= MaxBacklog
      BY <1>1, <2>1, JoinsType DEF Score, PodTypeOK
    <2>3. scores' \in 0..MaxScores
      <3>1. scores \in 0..MaxScores /\ scores < MaxScores /\ scores' = scores + 1
        BY <1>1 DEF Score, PodTypeOK
      <3> QED
        BY <3>1, Ranges
    <2> QED
      BY <1>1, <2>2, <2>3 DEF Score, PodTypeOK
  <1>2. ASSUME NEW how \in {"refusing", "hanging"}, RedisFails(how) PROVE PodTypeOK'
    BY <1>2 DEF RedisFails, PodTypeOK
  <1>3. CASE RedisRecovers
    BY <1>3, Ranges DEF RedisRecovers, PodTypeOK
  <1>4. CASE KubeletRestarts
    <2>1. worker' \in [Workers -> Worker]
      BY <1>4, FreeType DEF KubeletRestarts, Started
    <2>2. backlog' \in Seq(Connection) /\ Len(backlog') <= MaxBacklog
      BY <1>4, Bounds DEF KubeletRestarts, Started
    <2>3. /\ answer' \in [Probes -> {"not asked", "waiting", "ok", "failed"}]
          /\ fails' \in [Probes -> 0..MaxFails]
          /\ clock' \in 0..LivenessEvery - 1 /\ scores' \in 0..MaxScores
      BY <1>4, Ranges DEF KubeletRestarts, Started, NotAsked
    <2> QED
      BY <1>4, <2>1, <2>2, <2>3 DEF KubeletRestarts, Started, PodTypeOK
  <1>5. CASE UNCHANGED podvars
    BY <1>5 DEF podvars, PodTypeOK
  <1>6. ASSUME NEW w \in Workers, NotifyReturns(w) PROVE PodTypeOK'
    BY <1>6, FreeType DEF NotifyReturns, PodTypeOK
  <1> QED
    BY <1>1, <1>2, <1>3, <1>4, <1>5, <1>6, ServeTypes, ReturnTypes, GiveUpTypes, TickTypes DEF PodNext

-----------------------------------------------------------------------------
(* As long as a worker is free *)

LEMMA BacklogServed ==
    ASSUME ~AllStuck, Served
    PROVE  backlog = <<>>
  BY DEF AllStuck, Served

\* Two connections fit in an empty backlog.
LEMMA ProbeJoins ==
    ASSUME Asks, backlog = <<>>, answer'["/healthz"] = "waiting"
    PROVE  \E i \in 1..Len(backlog') : backlog'[i] = Probe
  <1> DEFINE old == [i \in DOMAIN backlog |-> Abandoned(backlog[i])]
             other == [path |-> "/readyz", abandoned |-> FALSE]
  <1>1. old = <<>>
    OBVIOUS
  <1>2. \/ backlog' = Joins(Joins(old, "/readyz"), "/healthz")
        \/ backlog' = Joins(Joins(old, "/healthz"), "/readyz")
    BY DEF Asks, NotAsked, Probes
  <1>8. Len(<<>>) < MaxBacklog /\ \A x : Len(<<x>>) < MaxBacklog
    <2>1. Len(<<>>) = 0 /\ \A x : Len(<<x>>) = 1
      OBVIOUS
    <2> QED
      BY <2>1, Bounds
  <1>9. Len(<<other>>) < MaxBacklog /\ Len(<<Probe>>) < MaxBacklog
    BY <1>8
  <1>3. Joins(<<>>, "/readyz") = <<other>> /\ Joins(<<>>, "/healthz") = <<Probe>>
    <2>1. Joins(<<>>, "/readyz") = Append(<<>>, other) /\ Joins(<<>>, "/healthz") = Append(<<>>, Probe)
      BY <1>8, Zenon DEF Joins, Probe
    <2> HIDE DEF other
    <2> QED
      BY <2>1
  <1>4. Joins(<<other>>, "/healthz") = <<other, Probe>> /\ Joins(<<Probe>>, "/readyz") = <<Probe, other>>
    <2>1. Joins(<<other>>, "/healthz") = Append(<<other>>, Probe)
      BY <1>9, Zenon DEF Joins, Probe
    <2>2. Joins(<<Probe>>, "/readyz") = Append(<<Probe>>, other)
      BY <1>9, Zenon DEF Joins
    <2> HIDE DEF other
    <2> QED
      BY <2>1, <2>2
  <1>5. backlog' = <<other, Probe>> \/ backlog' = <<Probe, other>>
    BY <1>1, <1>2, <1>3, <1>4
  <1> HIDE DEF other
  <1>6. CASE backlog' = <<other, Probe>>
    <2>1. 2 \in 1..Len(backlog') /\ backlog'[2] = Probe
      BY <1>6
    <2> QED
      BY <2>1
  <1>7. CASE backlog' = <<Probe, other>>
    <2>1. 1 \in 1..Len(backlog') /\ backlog'[1] = Probe
      BY <1>7
    <2> QED
      BY <2>1
  <1> QED
    BY <1>5, <1>6, <1>7

\* A handler that goes on leaves its worker free or with a call of /score, and the
\* live liveness probe is only ever answered with success.
LEMMA GoesOnWaits ==
    ASSUME PodTypeOK, Waits, NEW w \in Workers, NEW c \in Connection, NEW result \in {"ok", "failed"},
           GoesOn(w, c, result), c = Probe => result = "ok"
    PROVE  /\ \A v \in Workers : Stuck(v)' => AsksRedis(worker[v].job.path)'
           /\ \/ answer'["/healthz"] = answer["/healthz"] /\ c # Probe
              \/ answer'["/healthz"] = "ok" /\ c = Probe
  <1>1. /\ worker \in [Workers -> Worker] /\ "/healthz" \in Probes
        /\ answer \in [Probes -> {"not asked", "waiting", "ok", "failed"}]
    BY DEF PodTypeOK, Probes
  <1>2. \A v \in Workers : worker[v].on # "nobody" => AsksRedis(worker[v].job.path)
    BY DEF Waits, Stuck
  <1>3. \/ worker' = [worker EXCEPT ![w] = Free]
        \/ c.path = "/score" /\ worker' = [worker EXCEPT ![w] = [job |-> c, on |-> "review", age |-> worker[w].age]]
    BY DEF GoesOn, Holds
  <1>4. ASSUME NEW v \in Workers, Stuck(v)' PROVE AsksRedis(worker'[v].job.path)
    <2>1. CASE v # w
      BY <1>1, <1>2, <1>3, <1>4, <2>1 DEF Stuck
    <2>2. CASE v = w /\ worker' = [worker EXCEPT ![w] = Free]
      BY <1>1, <1>4, <2>2 DEF Stuck, Free
    <2>3. CASE v = w /\ c.path = "/score"
                 /\ worker' = [worker EXCEPT ![w] = [job |-> c, on |-> "review", age |-> worker[w].age]]
      <3>1. worker'[v].job = c
        BY <1>1, <2>3
      <3> QED
        BY <2>3, <3>1 DEF AsksRedis
    <2> QED
      BY <1>3, <2>1, <2>2, <2>3
  <1>7. \A v \in Workers : Stuck(v)' => AsksRedis(worker[v].job.path)'
    BY <1>4 DEF AsksRedis
  <1>5. CASE c = Probe
    <2>1. answer' = [answer EXCEPT !["/healthz"] = "ok"]
      BY <1>5 DEF GoesOn, Answered, Probe, Probes
    <2>2. answer'["/healthz"] = "ok"
      BY <1>1, <2>1
    <2> QED
      BY <1>5, <1>7, <2>2
  <1>6. CASE c # Probe
    <2>1. ~(c.path = "/healthz" /\ c.abandoned = FALSE)
      BY <1>6 DEF Connection, Probe
    <2>2. answer' = answer \/ answer' = Answered(c, result)
      BY DEF GoesOn
    <2>3. answer'["/healthz"] = answer["/healthz"]
      BY <1>1, <2>1, <2>2 DEF Answered, Connection
    <2> QED
      BY <1>6, <1>7, <2>3
  <1> QED
    BY <1>5, <1>6

LEMMA ServeWaits ==
    ASSUME PodTypeOK, Waits, NEW w \in Workers, Serve(w)
    PROVE  Waits'
  <1> DEFINE c == Head(backlog)
             result == IF AsksRedis(c.path) /\ redis = "refusing" THEN "failed" ELSE "ok"
  <1>1. backlog \in Seq(Connection) /\ backlog # <<>> /\ backlog' = Tail(backlog)
    BY DEF Serve, PodTypeOK
  <1>2. c \in Connection
    BY <1>1
  <1>3. \/ Holds(w, c, "redis", 0) /\ UNCHANGED answer /\ AsksRedis(c.path)
        \/ GoesOn(w, c, result)
    BY DEF Serve
  <1>4. /\ \A v \in Workers : Stuck(v)' => AsksRedis(worker[v].job.path)'
        /\ \/ answer'["/healthz"] = answer["/healthz"] /\ c # Probe
           \/ answer'["/healthz"] = "ok" /\ c = Probe
    <2>1. CASE GoesOn(w, c, result)
      <3>1. result \in {"ok", "failed"} /\ (c = Probe => result = "ok")
        BY DEF Probe, AsksRedis
      <3> HIDE DEF c, result
      <3> QED
        BY <1>2, <2>1, <3>1, GoesOnWaits
    <2>2. CASE Holds(w, c, "redis", 0) /\ UNCHANGED answer /\ AsksRedis(c.path)
      <3>1. c # Probe
        BY <2>2 DEF Probe, AsksRedis
      <3>2. worker' = [worker EXCEPT ![w] = [job |-> c, on |-> "redis", age |-> 0]] /\ AsksRedis(c.path)
        BY <2>2 DEF Holds
      <3>3. worker \in [Workers -> Worker]
        BY DEF PodTypeOK
      <3>4. \A v \in Workers : worker[v].on # "nobody" => AsksRedis(worker[v].job.path)
        BY DEF Waits, Stuck
      <3> HIDE DEF c
      <3>5. ASSUME NEW v \in Workers, Stuck(v)' PROVE AsksRedis(worker'[v].job.path)
        <4>1. CASE v = w
          <5>1. worker'[v].job = c
            BY <3>2, <3>3, <4>1
          <5> QED
            BY <3>2, <5>1
        <4>2. CASE v # w
          BY <3>2, <3>3, <3>4, <3>5, <4>2 DEF Stuck
        <4> QED
          BY <4>1, <4>2
      <3> QED
        BY <2>2, <3>1, <3>5 DEF AsksRedis
    <2> QED
      BY <1>3, <2>1, <2>2
  <1>5. held' = (held \/ \A v \in Workers : worker'[v].on # "nobody") /\ fails' = fails
    BY DEF Serve, NotesHeld
  <1>6. AllStuck' => held'
    BY <1>5 DEF AllStuck, Stuck
  <1>7. ASSUME ~held'
        PROVE  /\ fails'["/healthz"] = 0
               /\ answer'["/healthz"] # "failed"
               /\ answer'["/healthz"] = "waiting" => \E i \in 1..Len(backlog') : backlog'[i] = Probe
    <2>1. ~held
      BY <1>5, <1>7
    <2>2. ASSUME c # Probe, NEW i \in 1..Len(backlog), backlog[i] = Probe
          PROVE  \E j \in 1..Len(backlog') : backlog'[j] = Probe
      <3>1. i # 1
        BY <1>1, <2>2
      <3>2. /\ Len(Tail(backlog)) = Len(backlog) - 1 /\ Len(backlog) \in Nat
            /\ \A j \in 1..Len(backlog) - 1 : Tail(backlog)[j] = backlog[j + 1]
        BY <1>1
      <3>3. i - 1 \in 1..Len(backlog) - 1 /\ (i - 1) + 1 = i
        BY <3>1, <3>2
      <3>4. i - 1 \in 1..Len(Tail(backlog)) /\ Tail(backlog)[i - 1] = backlog[i]
        BY <3>2, <3>3
      <3> QED
        BY <1>1, <2>2, <3>4
    <2>3. /\ fails["/healthz"] = 0 /\ answer["/healthz"] # "failed"
          /\ answer["/healthz"] = "waiting" => \E i \in 1..Len(backlog) : backlog[i] = Probe
      BY <2>1 DEF Waits
    <2> HIDE DEF c
    <2> QED
      BY <1>4, <1>5, <2>2, <2>3
  <1> QED
    BY <1>4, <1>6, <1>7 DEF Waits

\* The liveness probe gives up only when nobody is free: no stuck worker has it.
LEMMA GiveUpWaits ==
    ASSUME PodTypeOK, Waits, NEW p \in Probes, GivesUp(p)
    PROVE  Waits'
  <1> DEFINE left(c) == IF c.path = p THEN Abandoned(c) ELSE c
  <1>0. \A c : left(c).path = c.path
    BY DEF Abandoned
  <1>1. /\ worker' = [w \in Workers |-> [worker[w] EXCEPT !.job = left(worker[w].job)]]
        /\ backlog' = [i \in DOMAIN backlog |-> left(backlog[i])]
        /\ answer' = [answer EXCEPT ![p] = "failed"]
        /\ UNCHANGED <<held, fails>>
    BY DEF GivesUp
  <1>2. p # "/healthz" => \A c : c = Probe => left(c) = Probe
    BY DEF Probe
  <1> HIDE DEF left
  <1>3. ASSUME NEW w \in Workers
        PROVE  worker'[w].on = worker[w].on /\ worker'[w].job = left(worker[w].job)
    BY <1>1 DEF PodTypeOK, Worker
  <1>4. \A w \in Workers : Stuck(w)' => AsksRedis(worker[w].job.path)'
    BY <1>0, <1>3 DEF Waits, Stuck, AsksRedis
  <1>5. AllStuck' => held'
    BY <1>1, <1>3 DEF Waits, AllStuck, Stuck
  <1>6. ASSUME ~held'
        PROVE  /\ fails'["/healthz"] = 0
               /\ answer'["/healthz"] # "failed"
               /\ answer'["/healthz"] = "waiting" => \E i \in 1..Len(backlog') : backlog'[i] = Probe
    <2>1. ~held /\ ~AllStuck
      BY <1>1, <1>6 DEF Waits
    <2>2. PICK w \in Workers : Stuck(w) /\ worker[w].job = [path |-> p, abandoned |-> FALSE]
      BY <2>1 DEF GivesUp
    <2>3. p = "/readyz"
      BY <2>2 DEF Waits, AsksRedis, Probes
    <2>4. answer'["/healthz"] = answer["/healthz"]
      BY <1>1, <2>3 DEF PodTypeOK, Probes
    <2>5. ASSUME NEW i \in 1..Len(backlog), backlog[i] = Probe
          PROVE  i \in 1..Len(backlog') /\ backlog'[i] = Probe
      <3>1. DOMAIN backlog = 1..Len(backlog) /\ Len(backlog) \in Nat
        <4>1. backlog \in Seq(Connection)
          BY DEF PodTypeOK
        <4> QED
          BY <4>1
      <3>2. left(backlog[i]) = Probe
        BY <1>2, <2>3, <2>5
      <3>3. Len(backlog') = Len(backlog)
        BY <1>1, <3>1
      <3> QED
        BY <1>1, <3>1, <3>2, <3>3
    <2> QED
      BY <1>1, <2>1, <2>4, <2>5 DEF Waits
  <1> QED
    BY <1>4, <1>5, <1>6 DEF Waits

LEMMA TickWaits ==
    ASSUME PodTypeOK, Waits, Tick
    PROVE  Waits'
  <1>1. \A w \in Workers : worker'[w] = Aged(w)
    BY DEF Tick
  <1>2. ASSUME NEW w \in Workers, Stuck(w)'
        PROVE  Stuck(w) /\ worker'[w].job = Abandoned(worker[w].job)
    <2>1. Aged(w).on # "nobody"
      BY <1>1, <1>2 DEF Stuck
    <2>2. Aged(w) # Free
      BY <2>1 DEF Free
    <2>3. /\ Stuck(w)
          /\ Aged(w) = [job |-> Abandoned(worker[w].job), age |-> worker[w].age + 1,
                        on |-> IF worker[w].on = "redis" THEN "redis" ELSE "overdue"]
      BY <2>2 DEF Aged
    <2>4. Aged(w).job = Abandoned(worker[w].job)
      BY <2>3
    <2> QED
      BY <1>1, <2>3, <2>4
  <1>3. \A w \in Workers : Stuck(w)' => AsksRedis(worker[w].job.path)'
    <2>1. \A w \in Workers : Abandoned(worker[w].job).path = worker[w].job.path
      BY DEF Abandoned
    <2> QED
      BY <1>2, <2>1 DEF Waits, AsksRedis
  <1>4. held' = IF answer["/healthz"] = "ok" THEN AllStuck ELSE held
    BY DEF Tick
  <1>5. AllStuck' => AllStuck
    BY <1>2 DEF AllStuck
  <1>6. AllStuck' => held'
    BY <1>4, <1>5 DEF Waits
  <1>7. ASSUME ~held'
        PROVE  /\ fails'["/healthz"] = 0
               /\ answer'["/healthz"] # "failed"
               /\ answer'["/healthz"] = "waiting" => \E i \in 1..Len(backlog') : backlog'[i] = Probe
    <2>1. ~AllStuck /\ (answer["/healthz"] = "ok" \/ ~held)
      BY <1>4, <1>7 DEF Waits
    <2>2. backlog = <<>>
      BY <2>1, BacklogServed DEF Tick
    <2>3. answer["/healthz"] \in {"not asked", "ok"} /\ (answer["/healthz"] = "ok" \/ fails["/healthz"] = 0)
      <3>1. answer["/healthz"] # "ok" => ~held
        BY <2>1
      <3>2. answer["/healthz"] \in {"not asked", "waiting", "ok", "failed"}
        BY DEF PodTypeOK, Probes
      <3> QED
        <4>1. ~\E i \in 1..Len(backlog) : backlog[i] = Probe
          <5>1. 1..Len(<<>>) = {}
            OBVIOUS
          <5> QED
            BY <2>2, <5>1
        <4>2. answer["/healthz"] # "ok" =>
                 /\ fails["/healthz"] = 0 /\ answer["/healthz"] # "failed" /\ answer["/healthz"] # "waiting"
          BY <3>1, <4>1 DEF Waits
        <4> QED
          BY <3>2, <4>2
    <2>4. fails'["/healthz"] = 0
      BY <2>3 DEF Tick, Count, Probes
    <2>5. answer'["/healthz"] # "failed"
      BY DEF Tick, Asks, NotAsked, Probes
    <2>6. answer'["/healthz"] = "waiting" => \E i \in 1..Len(backlog') : backlog'[i] = Probe
      BY <2>2, ProbeJoins DEF Tick
    <2> QED
      BY <2>4, <2>5, <2>6
  <1> QED
    BY <1>3, <1>6, <1>7 DEF Waits

LEMMA WaitStep == PodTypeOK /\ Waits /\ [PodNext]_podvars => Waits'
  <1> SUFFICES ASSUME PodTypeOK, Waits, [PodNext]_podvars PROVE Waits'
    OBVIOUS
  <1>1. ASSUME NEW w \in Workers, RedisReturns(w) PROVE Waits'
    <2> DEFINE c == worker[w].job
               result == IF redis = "up" THEN "ok" ELSE "failed"
    <2>1. AsksRedis(c.path) /\ c \in Connection \cup {Idle} /\ Stuck(w)
      BY <1>1 DEF RedisReturns, Waits, Stuck, PodTypeOK, Worker
    <2>2. c \in Connection /\ c # Probe
      BY <2>1 DEF AsksRedis, Idle, Probe
    <2>3. GoesOn(w, c, result) /\ result \in {"ok", "failed"} /\ UNCHANGED <<held, fails, backlog>>
      BY <1>1 DEF RedisReturns
    <2> HIDE DEF c, result
    <2>4. /\ \A v \in Workers : Stuck(v)' => AsksRedis(worker[v].job.path)'
          /\ answer'["/healthz"] = answer["/healthz"]
      BY <2>2, <2>3, GoesOnWaits
    <2>5. \A v \in Workers : Stuck(v)' => Stuck(v)
      BY <2>1, <2>3 DEF GoesOn, Holds, Stuck, PodTypeOK
    <2> QED
      BY <2>3, <2>4, <2>5 DEF Waits, AllStuck
  <1>2. CASE Score
    <2>1. "/score" \in Paths /\ backlog \in Seq(Connection) /\ Len(backlog) <= MaxBacklog
      BY DEF Paths, PodTypeOK
    <2>2. \A i \in 1..Len(backlog) : i \in 1..Len(backlog') /\ backlog'[i] = backlog[i]
      BY <1>2, <2>1, JoinsType DEF Score
    <2>3. UNCHANGED <<worker, held, fails, answer>>
      BY <1>2 DEF Score
    <2> QED
      BY <2>2, <2>3 DEF Waits, AllStuck, Stuck, AsksRedis
  <1>3. CASE \/ \E how \in {"refusing", "hanging"} : RedisFails(how)
             \/ RedisRecovers \/ UNCHANGED podvars
    <2>1. UNCHANGED <<worker, backlog, held, fails, answer>>
      BY <1>3 DEF RedisFails, RedisRecovers, podvars
    <2> QED
      BY <2>1 DEF Waits, AllStuck, Stuck, AsksRedis
  <1>4. ASSUME NEW w \in Workers, NotifyReturns(w) PROVE Waits'
    <2>1. worker' = [worker EXCEPT ![w] = Free] /\ UNCHANGED <<backlog, held, fails, answer>>
      BY <1>4 DEF NotifyReturns
    <2>2. \A v \in Workers : Stuck(v)' => Stuck(v) /\ worker'[v] = worker[v]
      BY <2>1 DEF Stuck, Free, PodTypeOK
    <2> QED
      BY <2>1, <2>2 DEF Waits, AllStuck, AsksRedis
  <1>5. CASE KubeletRestarts
    <2>1. \A w \in Workers : ~Stuck(w)'
      BY <1>5 DEF KubeletRestarts, Started, Stuck, Free
    <2>2. ~AllStuck'
      BY <2>1, Bounds DEF AllStuck
    <2> QED
      BY <1>5, <2>1, <2>2 DEF KubeletRestarts, Started, Waits, NotAsked, Probes
  <1> QED
    BY <1>1, <1>2, <1>3, <1>4, <1>5, ServeWaits, GiveUpWaits, TickWaits DEF PodNext

-----------------------------------------------------------------------------
(* While Redis is down *)

\* Only a Redis that is up makes /readyz answer with success.
LEMMA AnswerDrains ==
    ASSUME PodTypeOK, Drains, NEW c, NEW result \in {"ok", "failed"},
           answer' = Answered(c, result),
           c.path = "/readyz" /\ result = "ok" => redis = "up",
           UNCHANGED <<redis, ready, fails, down>>
    PROVE  Drains'
  <1>1. answer \in [Probes -> {"not asked", "waiting", "ok", "failed"}] /\ "/readyz" \in Probes
    BY DEF PodTypeOK, Probes
  <1>2. \/ answer'["/readyz"] = answer["/readyz"]
        \/ answer'["/readyz"] = result /\ c.path = "/readyz"
    BY <1>1 DEF Answered
  <1>3. answer'["/readyz"] = "ok" => answer["/readyz"] = "ok" \/ redis = "up"
    BY <1>2
  <1>4. answer'["/readyz"] = "not asked" => answer["/readyz"] = "not asked"
    BY <1>2
  <1>5. redis' = redis /\ ready' = ready /\ fails' = fails /\ down' = down
    OBVIOUS
  <1>6. redis' = "up" => down' = 0
    BY <1>5 DEF Drains
  <1>7. down' > 0 => answer'["/readyz"] # "ok"
    <2>1. down > 0 => redis # "up" /\ answer["/readyz"] # "ok"
      <3>1. (redis = "up" => down = 0) /\ (down > 0 => answer["/readyz"] # "ok")
        BY DEF Drains
      <3> QED
        BY <3>1
    <2> QED
      BY <1>3, <1>5, <2>1
  <1>8. ready' /\ down' > 0 =>
          /\ answer'["/readyz"] # "not asked"
          /\ fails'["/readyz"] >= down' - 1
          /\ down' <= MaxFails
    <2> SUFFICES ASSUME ready', down' > 0
                 PROVE  /\ answer'["/readyz"] # "not asked"
                        /\ fails'["/readyz"] >= down' - 1
                        /\ down' <= MaxFails
      OBVIOUS
    <2>3. ready
      BY <1>5
    <2>4. down > 0
      BY <1>5
    <2>1. /\ answer["/readyz"] # "not asked"
          /\ fails["/readyz"] >= down - 1
          /\ down <= MaxFails
      BY <2>3, <2>4, Zenon DEF Drains
    <2>2. answer'["/readyz"] # "not asked"
      BY <1>4, <2>1, Zenon
    <2>5. fails'["/readyz"] = fails["/readyz"] /\ down' - 1 = down - 1 /\ down' = down
      BY <1>5
    <2> QED
      BY <2>1, <2>2, <2>5
  <1> QED
    BY <1>6, <1>7, <1>8 DEF Drains

LEMMA TickDrains ==
    ASSUME PodTypeOK, Drains, Tick
    PROVE  Drains'
  <1> DEFINE f == fails["/readyz"]
             g == fails'["/readyz"]
             a == answer["/readyz"]
  <1>1. redis' = redis /\ answer'["/readyz"] = "waiting"
    BY AskTypes DEF Tick
  <1>2. down' = IF redis = "up" THEN 0 ELSE IF down > MaxFails THEN down ELSE down + 1
    BY DEF Tick
  <1>3. ready' => g < MaxFails /\ (ready \/ a = "ok")
    <2>1. ready' = (fails'["/readyz"] < MaxFails /\ (ready \/ answer["/readyz"] = "ok"))
      BY DEF Tick
    <2> QED
      BY <2>1, Zenon
  <1>4. g = IF a = "ok" THEN 0 ELSE IF a = "not asked" \/ f = MaxFails THEN f ELSE f + 1
    <2>1. g = Count("/readyz")
      BY DEF Tick, Probes
    <2> QED
      BY <2>1, Zenon DEF Count
  <1>5. down \in Nat /\ f \in Nat /\ f <= MaxFails /\ MaxFails \in Nat
    <2>1. down \in 0..MaxFails + 1 /\ fails \in [Probes -> 0..MaxFails] /\ "/readyz" \in Probes
      BY DEF PodTypeOK, Probes
    <2>2. f \in 0..MaxFails
      BY <2>1, Zenon
    <2>3. down \in 0..MaxFails + 1
      BY <2>1
    <2> HIDE DEF f
    <2> QED
      BY <2>2, <2>3, Bounds
  <1>6. /\ down > 0 => a # "ok"
        /\ ready /\ down > 0 => a # "not asked" /\ f >= down - 1 /\ down <= MaxFails
    BY Zenon DEF Drains
  <1> HIDE DEF f, g, a
  <1>7. ASSUME ready', down' > 0
        PROVE  g >= down' - 1 /\ down' <= MaxFails
    <2>1. redis # "up"
      BY <1>2, <1>7
    <2>2. g < MaxFails
      BY <1>3, <1>7, Zenon
    <2>3. g \in Nat
      <3>1. g = 0 \/ g = f \/ g = f + 1
        BY <1>4, Zenon
      <3> QED
        BY <1>5, <3>1
    <2>4. CASE down = 0
      <3>1. down' = 1
        <4>1. ~(down > MaxFails)
          BY <1>5, <2>4
        <4> QED
          BY <1>2, <2>1, <2>4, <4>1
      <3> QED
        BY <1>5, <2>2, <2>3, <3>1
    <2>5. CASE down > 0
      <3>1. a # "ok" /\ ready
        BY <1>3, <1>6, <1>7, <2>5, Zenon
      <3>2. a # "not asked" /\ f >= down - 1 /\ down <= MaxFails
        BY <1>6, <2>5, <3>1, Zenon
      <3>3. g = f + 1
        <4>1. f # MaxFails
          <5>1. g = IF a = "ok" THEN 0 ELSE IF a = "not asked" \/ f = MaxFails THEN f ELSE f + 1
            BY <1>4
          <5>2. f = MaxFails => g = f
            BY <3>1, <5>1, Zenon
          <5>3. MaxFails \in Nat /\ g < MaxFails
            BY <1>5, <2>2, Zenon
          <5> QED
            BY <5>2, <5>3
        <4> QED
          BY <1>4, <3>1, <3>2, <4>1
      <3>4. down' = down + 1
        <4>1. ~(down > MaxFails)
          <5>1. down \in Nat /\ MaxFails \in Nat /\ down <= MaxFails
            BY <1>5, <3>2, Zenon
          <5> QED
            BY <5>1
        <4> QED
          BY <1>2, <2>1, <4>1
      <3>5. f >= down - 1
        BY <3>2
      <3> QED
        BY <1>5, <2>2, <3>3, <3>4, <3>5
    <2> QED
      BY <1>5, <2>4, <2>5
  <1>8. redis' = "up" => down' = 0
    BY <1>1, <1>2
  <1>9. /\ down' > 0 => answer'["/readyz"] # "ok"
        /\ ready' /\ down' > 0 => answer'["/readyz"] # "not asked"
    BY <1>1
  <1>10. ready' /\ down' > 0 => fails'["/readyz"] >= down' - 1 /\ down' <= MaxFails
    BY <1>7, Zenon DEF g
  <1> QED
    BY <1>8, <1>9, <1>10, Zenon DEF Drains

LEMMA DrainStep == PodTypeOK /\ Drains /\ [PodNext]_podvars => Drains'
  <1> SUFFICES ASSUME PodTypeOK, Drains, [PodNext]_podvars PROVE Drains'
    OBVIOUS
  <1>1. ASSUME NEW w \in Workers, Serve(w) PROVE Drains'
    <2> DEFINE c == Head(backlog)
               result == IF AsksRedis(c.path) /\ redis = "refusing" THEN "failed" ELSE "ok"
    <2>1. UNCHANGED <<redis, ready, fails, down>>
      BY <1>1 DEF Serve
    <2>2. UNCHANGED answer \/ (answer' = Answered(c, result) /\ ~(AsksRedis(c.path) /\ redis = "hanging"))
      BY <1>1 DEF Serve, GoesOn
    <2>3. CASE UNCHANGED answer
      BY <2>1, <2>3 DEF Drains
    <2>4. CASE answer' = Answered(c, result) /\ ~(AsksRedis(c.path) /\ redis = "hanging")
      <3>1. result \in {"ok", "failed"}
        OBVIOUS
      <3>2. c.path = "/readyz" /\ result = "ok" => redis = "up"
        BY <2>4 DEF AsksRedis, PodTypeOK
      <3> HIDE DEF c, result
      <3> QED
        BY <2>1, <2>4, <3>1, <3>2, AnswerDrains
    <2> QED
      BY <2>2, <2>3, <2>4
  <1>2. ASSUME NEW w \in Workers, RedisReturns(w) PROVE Drains'
    <2> DEFINE c == worker[w].job
               result == IF redis = "up" THEN "ok" ELSE "failed"
    <2>1. UNCHANGED <<redis, ready, fails, down>> /\ (answer' = Answered(c, result) \/ UNCHANGED answer)
      BY <1>2 DEF RedisReturns, GoesOn
    <2>2. result \in {"ok", "failed"} /\ (result = "ok" => redis = "up")
      OBVIOUS
    <2> HIDE DEF c, result
    <2>3. CASE UNCHANGED answer
      BY <2>1, <2>3 DEF Drains
    <2> QED
      BY <2>1, <2>2, <2>3, AnswerDrains
  <1>8. ASSUME NEW w \in Workers, NotifyReturns(w) PROVE Drains'
    BY <1>8 DEF NotifyReturns, Drains
  <1>9. ASSUME NEW p \in Probes, GivesUp(p) PROVE Drains'
    <2>1. answer' = [answer EXCEPT ![p] = "failed"] /\ UNCHANGED <<redis, ready, fails, down>>
      BY <1>9 DEF GivesUp
    <2>2. answer'["/readyz"] = answer["/readyz"] \/ answer'["/readyz"] = "failed"
      BY <2>1 DEF PodTypeOK, Probes
    <2>3. answer'["/readyz"] = "ok" => answer["/readyz"] = "ok"
      BY <2>2
    <2>4. answer'["/readyz"] = "not asked" => answer["/readyz"] = "not asked"
      BY <2>2
    <2> QED
      BY <2>1, <2>3, <2>4 DEF Drains
  <1>3. CASE Score
    BY <1>3 DEF Score, Drains
  <1>4. ASSUME NEW how \in {"refusing", "hanging"}, RedisFails(how) PROVE Drains'
    BY <1>4 DEF RedisFails, Drains
  <1>5. CASE RedisRecovers
    <2>1. down' = 0 /\ ~(down' > 0)
      BY <1>5 DEF RedisRecovers
    <2> QED
      BY <2>1, Zenon DEF Drains
  <1>6. CASE KubeletRestarts
    <2>1. answer'["/readyz"] = "not asked" /\ ready' = FALSE /\ redis' = redis /\ down' = down
      BY <1>6 DEF KubeletRestarts, Started, NotAsked, Probes
    <2> QED
      BY <2>1 DEF Drains
  <1>7. CASE UNCHANGED podvars
    BY <1>7 DEF podvars, Drains
  <1> QED
    BY <1>1, <1>2, <1>3, <1>4, <1>5, <1>6, <1>7, <1>8, <1>9, TickDrains DEF PodNext

-----------------------------------------------------------------------------
LEMMA PodStart == PodInit => PodInv
  <1> SUFFICES ASSUME PodInit PROVE PodInv
    OBVIOUS
  <1>1. worker \in [Workers -> Worker]
    BY FreeType DEF PodInit
  <1>2. backlog \in Seq(Connection) /\ Len(backlog) <= MaxBacklog
    BY Bounds DEF PodInit
  <1>3. /\ answer \in [Probes -> {"not asked", "waiting", "ok", "failed"}]
        /\ fails \in [Probes -> 0..MaxFails] /\ down \in 0..MaxFails + 1
        /\ clock \in 0..LivenessEvery - 1 /\ scores \in 0..MaxScores
    BY Ranges DEF PodInit, NotAsked
  <1>4. PodTypeOK
    BY <1>1, <1>2, <1>3 DEF PodInit, PodTypeOK
  <1>5. Waits
    <2>1. \A w \in Workers : ~Stuck(w)
      BY DEF PodInit, Stuck, Free
    <2>2. ~AllStuck
      BY <2>1, Bounds DEF AllStuck
    <2> QED
      BY <2>1, <2>2 DEF PodInit, Waits, NotAsked, Probes
  <1>6. Drains
    BY DEF PodInit, Drains
  <1> QED
    BY <1>4, <1>5, <1>6 DEF PodInv

(***************************************************************************)
(* The inductive invariant of a pod.                                       *)
(***************************************************************************)
THEOREM PodInvariance == PodSpec => []PodInv
  <1>1. PodInv /\ [PodNext]_podvars => PodInv'
    BY TypeStep, WaitStep, DrainStep DEF PodInv
  <1> QED
    BY <1>1, PodStart, PTL DEF PodSpec

(***************************************************************************)
(* The workers, the backlog and the kubelet's counts keep to their bounds. *)
(***************************************************************************)
THEOREM PodTypes == PodSpec => []PodTypeOK
  BY PodInvariance, PTL DEF PodInv

(***************************************************************************)
(* For any number of workers and calls: a liveness probe fails only after  *)
(* all workers were stuck at once, which a Redis that refuses connections  *)
(* does to none of them.                                                   *)
(***************************************************************************)
THEOREM OneFreeWorkerAnswers == PodSpec => []FailsOnlyWhenAllAreStuck
  <1>1. PodInv => FailsOnlyWhenAllAreStuck
    BY DEF PodInv, Waits, FailsOnlyWhenAllAreStuck
  <1> QED
    BY <1>1, PodInvariance, PTL

(***************************************************************************)
(* A pod whose Redis was down for longer than the threshold is out of the  *)
(* Service, whatever was stuck, answered late or restarted meanwhile.      *)
(***************************************************************************)
THEOREM TrafficStops == PodSpec => []StopsTraffic
  <1>1. PodInv => StopsTraffic
    <2> SUFFICES ASSUME PodInv, down > MaxFails, ready PROVE FALSE
      BY Zenon DEF StopsTraffic
    <2>1. down \in Nat /\ MaxFails \in Nat
      <3>1. down \in 0..MaxFails + 1
        BY Zenon DEF PodInv, PodTypeOK
      <3> QED
        BY <3>1, Bounds
    <2>2. down > 0
      BY <2>1
    <2>3. down <= MaxFails
      BY <2>2, Zenon DEF PodInv, Drains
    <2> QED
      BY <2>1, <2>3
  <1> QED
    BY <1>1, PodInvariance, PTL
=============================================================================
