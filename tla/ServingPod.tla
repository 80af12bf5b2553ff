------------------------------ MODULE ServingPod ------------------------------
(***************************************************************************)
(* One pod of serving: gunicorn's sync workers, which take connections     *)
(* from one backlog, the routes /score, /readyz and /healthz, and the      *)
(* kubelet that probes the last two.  The Redis client has no timeout, so  *)
(* a request that asks a Redis that hangs keeps its worker; a flagged      *)
(* /score keeps its own while review_app is silent, until requests.post    *)
(* gives up.                                                               *)
(*                                                                         *)
(* A tick is the period of the readiness probe.  What waits for nobody     *)
(* takes no time.  A probe times out within the tick (GivesUp), and at its *)
(* end at the latest.                                                      *)
(***************************************************************************)
EXTENDS Naturals, FiniteSets, Sequences

CONSTANTS
    Workers,        \* --workers
    WorkerTimeout,  \* ticks until gunicorn replaces a worker that is stuck
    LivenessEvery,  \* ticks between two liveness probes
    MaxFails,       \* failureThreshold of both probes
    MaxBacklog,     \* connections that the listening socket holds
    MaxScores,      \* calls of /score in one tick
    Webhook         \* is REVIEW_APP_URL set?

Probes == {"/readyz", "/healthz"}
Paths == Probes \cup {"/score"}

ASSUME PodAssumption ==
    /\ Workers # {} /\ MaxScores \in Nat /\ Webhook \in BOOLEAN
    /\ WorkerTimeout \in Nat \ {0} /\ LivenessEvery \in Nat \ {0} /\ MaxFails \in Nat \ {0}
    /\ MaxBacklog \in Nat /\ MaxBacklog >= Cardinality(Probes)

VARIABLES
    redis,      \* "up", "refusing" (it answers with an error at once), or "hanging"
    worker,     \* what each worker is stuck with, on whom, and for how many ticks
    backlog,    \* connections no worker has accepted
    answer,     \* the kubelet's probes of this tick
    ready,      \* is the pod an endpoint of the Service?
    fails,      \* consecutive failures of each probe
    clock,      \* ticks since the last liveness probe
    scores,     \* calls of /score that arrived in this tick
    held,       \* history: were all workers stuck at once since a liveness probe was last answered?
    down        \* history: ticks that ended since Redis was last up

podvars == <<redis, worker, backlog, answer, ready, fails, clock, scores, held, down>>

\* A connection whose client gave up is served all the same; of clients other than
\* the kubelet it makes no difference.
Connection == [path: Paths, abandoned: BOOLEAN]
Idle == [path |-> "idle", abandoned |-> FALSE]

\* "overdue" is the webhook of an earlier tick: its timeouts end it in this one.
Worker == [job: Connection \cup {Idle}, on: {"nobody", "redis", "review", "overdue"},
           age: 0..WorkerTimeout - 1]

PodTypeOK ==
    /\ redis \in {"up", "refusing", "hanging"}
    /\ worker \in [Workers -> Worker]
    /\ backlog \in Seq(Connection) /\ Len(backlog) <= MaxBacklog
    /\ answer \in [Probes -> {"not asked", "waiting", "ok", "failed"}]
    /\ ready \in BOOLEAN
    /\ fails \in [Probes -> 0..MaxFails]
    /\ clock \in 0..LivenessEvery - 1
    /\ scores \in 0..MaxScores
    /\ held \in BOOLEAN
    /\ down \in 0..MaxFails + 1

Free == [job |-> Idle, on |-> "nobody", age |-> 0]
NotAsked == [p \in Probes |-> "not asked"]

\* The container has just started: create_app in every worker, no probe yet.
Started ==
    /\ worker' = [w \in Workers |-> Free]
    /\ backlog' = <<>>
    /\ answer' = NotAsked
    /\ ready' = FALSE
    /\ fails' = [p \in Probes |-> 0]
    /\ clock' = 0
    /\ scores' = 0
    /\ held' = FALSE

PodInit ==
    /\ redis = "up"
    /\ worker = [w \in Workers |-> Free]
    /\ backlog = <<>>
    /\ answer = NotAsked
    /\ ready = FALSE
    /\ fails = [p \in Probes |-> 0]
    /\ clock = 0
    /\ scores = 0
    /\ held = FALSE
    /\ down = 0

-----------------------------------------------------------------------------
(* The workers *)

HealthzPings(path) == TRUE                  \* mutant: /healthz pings Redis too
NoRouteAsks(path) == path = "/score"        \* mutant: /readyz without the ping

\* /score reads the vector and /readyz pings; /healthz does neither.
AsksRedis(path) == path \in {"/score", "/readyz"}

\* The kubelet has a result, unless it stopped waiting before; other clients
\* are not its concern.
Answered(c, result) ==
    IF c.path \in Probes /\ ~c.abandoned THEN [answer EXCEPT ![c.path] = result] ELSE answer

Stuck(w) == worker[w].on # "nobody"
Notifies(w) == worker[w].on \in {"review", "overdue"}
AllStuck == \A w \in Workers : Stuck(w)

Holds(w, c, whom, age) == worker' = [worker EXCEPT ![w] = [job |-> c, on |-> whom, age |-> age]]

\* The handler has what it asked Redis for, or an error.  It answers, unless it is a
\* /score that is flagged and finds review_app silent.
GoesOn(w, c, result) ==
    \/ /\ worker' = [worker EXCEPT ![w] = Free]
       /\ answer' = Answered(c, result)
    \/ /\ c.path = "/score" /\ result = "ok"
       /\ Webhook /\ Holds(w, c, "review", worker[w].age)
       /\ UNCHANGED answer

NotesHeld == held' = (held \/ \A v \in Workers : worker'[v].on # "nobody")

CachesVerdict(w) ==     \* mutant: a failed ping is remembered
    /\ ~Stuck(w) /\ backlog # <<>>
    /\ backlog' = Tail(backlog)
    /\ LET c == Head(backlog)
           asks == AsksRedis(c.path)
       IN  IF asks /\ redis = "hanging"
           THEN Holds(w, c, "redis", 0) /\ UNCHANGED answer
           ELSE GoesOn(w, c, IF asks /\ (redis = "refusing" \/ fails["/readyz"] > 0) THEN "failed" ELSE "ok")
    /\ NotesHeld
    /\ UNCHANGED <<redis, ready, fails, clock, scores, down>>

\* An idle worker accepts the oldest connection.
Serve(w) ==
    /\ ~Stuck(w) /\ backlog # <<>>
    /\ backlog' = Tail(backlog)
    /\ LET c == Head(backlog)
           asks == AsksRedis(c.path)
       IN  IF asks /\ redis = "hanging"
           THEN Holds(w, c, "redis", 0) /\ UNCHANGED answer
           ELSE GoesOn(w, c, IF asks /\ redis = "refusing" THEN "failed" ELSE "ok")
    /\ NotesHeld
    /\ UNCHANGED <<redis, ready, fails, clock, scores, down>>

\* Redis answers a call that was waiting for it.  It may also never do so,
\* even when it is up again: the connection was lost and nobody said so.
RedisReturns(w) ==
    /\ worker[w].on = "redis" /\ redis # "hanging"
    /\ GoesOn(w, worker[w].job, IF redis = "up" THEN "ok" ELSE "failed")
    /\ UNCHANGED <<redis, backlog, ready, fails, clock, scores, held, down>>

\* notify_review_queue returns, with an answer or by its timeout, and so does /score.
NotifyReturns(w) ==
    /\ Notifies(w)
    /\ worker' = [worker EXCEPT ![w] = Free]
    /\ UNCHANGED <<redis, backlog, answer, ready, fails, clock, scores, held, down>>

\* A full backlog refuses the connection.
Joins(conns, path) == IF Len(conns) < MaxBacklog
                      THEN Append(conns, [path |-> path, abandoned |-> FALSE]) ELSE conns

\* The Service sends calls only to a pod that is ready.
Score ==
    /\ ready /\ scores < MaxScores
    /\ backlog' = Joins(backlog, "/score")
    /\ scores' = scores + 1
    /\ UNCHANGED <<redis, worker, answer, ready, fails, clock, held, down>>

(* Redis *)

RedisFails(how) ==
    /\ redis # how
    /\ redis' = how
    /\ UNCHANGED <<worker, backlog, answer, ready, fails, clock, scores, held, down>>

RedisRecovers ==
    /\ redis # "up"
    /\ redis' = "up"
    /\ down' = 0
    /\ UNCHANGED <<worker, backlog, answer, ready, fails, clock, scores, held>>

-----------------------------------------------------------------------------
(* The kubelet and gunicorn's arbiter *)

Served == \A w \in Workers : backlog # <<>> => Stuck(w)
RestartDue == fails["/healthz"] = MaxFails

CountOn(p) ==               \* mutant: no end to the count
    IF answer[p] = "ok" THEN 0 ELSE IF answer[p] = "not asked" THEN fails[p] ELSE fails[p] + 1

\* A success clears the count; the count stops at the threshold.
Count(p) ==
    IF answer[p] = "ok" THEN 0
    ELSE IF answer[p] = "not asked" \/ fails[p] = MaxFails THEN fails[p] ELSE fails[p] + 1

Abandoned(c) == IF c.path \in Probes THEN [c EXCEPT !.abandoned = TRUE] ELSE c

\* The probe's second is over, while a worker that waits has it or no worker is free.
GivesUp(p) ==
    LET left(c) == IF c.path = p THEN Abandoned(c) ELSE c
    IN  /\ answer[p] = "waiting"
        /\ AllStuck \/ \E w \in Workers : Stuck(w) /\ worker[w].job = [path |-> p, abandoned |-> FALSE]
        /\ answer' = [answer EXCEPT ![p] = "failed"]
        /\ backlog' = [i \in DOMAIN backlog |-> left(backlog[i])]
        /\ worker' = [w \in Workers |-> [worker[w] EXCEPT !.job = left(worker[w].job)]]
        /\ UNCHANGED <<redis, ready, fails, clock, scores, held, down>>

\* A worker that was stuck for the whole timeout is killed with its request,
\* and a new one takes its place.
Aged(w) ==
    IF ~Stuck(w) \/ worker[w].age + 1 = WorkerTimeout THEN Free
    ELSE [job |-> Abandoned(worker[w].job), age |-> worker[w].age + 1,
          on |-> IF worker[w].on = "redis" THEN "redis" ELSE "overdue"]

\* The probes that are due now join the backlog, in either order, behind the
\* connections that nobody waits for any more.
Asks ==
    LET old == [i \in DOMAIN backlog |-> Abandoned(backlog[i])]
    IN  IF clock + 1 = LivenessEvery
        THEN /\ answer' = [p \in Probes |-> "waiting"]
             /\ \/ backlog' = Joins(Joins(old, "/readyz"), "/healthz")
                \/ backlog' = Joins(Joins(old, "/healthz"), "/readyz")
        ELSE /\ answer' = [NotAsked EXCEPT !["/readyz"] = "waiting"]
             /\ backlog' = Joins(old, "/readyz")

\* A call that waits for review_app takes less than a tick: one second to connect
\* and one to read.
Tick ==
    /\ Served /\ ~RestartDue
    /\ \A w \in Workers : worker[w].on # "overdue"
    /\ fails' = [p \in Probes |-> Count(p)]
    /\ ready' = (fails'["/readyz"] < MaxFails /\ (ready \/ answer["/readyz"] = "ok"))
    /\ worker' = [w \in Workers |-> Aged(w)]
    /\ clock' = (clock + 1) % LivenessEvery
    /\ scores' = 0
    /\ held' = IF answer["/healthz"] = "ok" THEN AllStuck ELSE held
    /\ down' = IF redis = "up" THEN 0 ELSE IF down > MaxFails THEN down ELSE down + 1
    /\ Asks
    /\ UNCHANGED redis

\* The kubelet replaces the container: what it was doing is lost.
KubeletRestarts ==
    /\ RestartDue
    /\ Started
    /\ UNCHANGED <<redis, down>>

PodNext ==
    \/ \E w \in Workers : Serve(w) \/ RedisReturns(w) \/ NotifyReturns(w)
    \/ Score
    \/ \E how \in {"refusing", "hanging"} : RedisFails(how)
    \/ RedisRecovers
    \/ \E p \in Probes : GivesUp(p)
    \/ Tick
    \/ KubeletRestarts

\* Workers, the kubelet and the arbiter go on, and requests.post has its timeouts;
\* nothing is asked of Redis or of review_app.
PodFairness ==
    /\ \A w \in Workers : WF_podvars(Serve(w)) /\ WF_podvars(NotifyReturns(w))
    /\ WF_podvars(Tick) /\ WF_podvars(KubeletRestarts)

PodSpec == PodInit /\ [][PodNext]_podvars /\ PodFairness

-----------------------------------------------------------------------------
(* Properties *)

(***************************************************************************)
(* /healthz "never touches Redis or the model" (app.py), and one worker is *)
(* enough for it: a liveness probe fails only if all workers were stuck at *)
(* once, on Redis or on review_app, since one was last answered.  A Redis  *)
(* that refuses connections fails none, nor do calls that hang as long as  *)
(* one worker is left.                                                     *)
(***************************************************************************)
FailsOnlyWhenAllAreStuck == fails["/healthz"] > 0 => held

(***************************************************************************)
(* "a pod that can't reach the online store shouldn't receive traffic yet" *)
(* (app.py): once as many readiness probes as the threshold asks for were  *)
(* sent while Redis was not up, the pod is no endpoint, also if a late     *)
(* answer, a worker's replacement or a restart came in between.            *)
(***************************************************************************)
StopsTraffic == down > MaxFails => ~ready

(***************************************************************************)
(* The pod comes back by itself: if Redis stays up from some time on, the  *)
(* pod gets traffic again, as often as a silent review_app takes it away,  *)
(* though a call that Redis lost is never answered: its worker is replaced *)
(* or the container restarted.                                             *)
(***************************************************************************)
ComesBack == <>[](redis = "up") => []<>ready

(***************************************************************************)
(* If no call finds review_app silent from some time on either, the pod    *)
(* keeps its traffic.                                                      *)
(***************************************************************************)
Recovers == <>[](redis = "up" /\ \A w \in Workers : ~Notifies(w)) => <>[]ready

(***************************************************************************)
(* "a Redis blip should mean "wait", not "restart the pod and lose         *)
(* whatever it was doing"" (deployment.yaml): no restart is ever due.      *)
(***************************************************************************)
BlipNeverRestarts == ~RestartDue
=============================================================================
