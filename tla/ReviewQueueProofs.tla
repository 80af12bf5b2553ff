-------------------------- MODULE ReviewQueueProofs --------------------------
(***************************************************************************)
(* Proofs about the review queue, for any sets of transactions, analysts   *)
(* and requests.  The queue's promises are not inductive by themselves:    *)
(* that a COMMIT keeps them rests on what its request did statements ago   *)
(* (Flow) and on no other request having touched the same transaction      *)
(* since (Locks).  What the invariant says of steps and answers follows:   *)
(* an id is created once, a decision is final once no request holds a      *)
(* stale row, pages add up, and the queue implements FlagHistory.  Last,   *)
(* who waits for a lock waits for a request that waits for nobody.         *)
(***************************************************************************)
EXTENDS ReviewQueueProps, TLAPS

-----------------------------------------------------------------------------
\* The lock of a transaction belongs to the one request writing it.
Locks ==
    /\ \A r \in Requests : req[r].stage \in Writing =>
          req[r].txn \in Txns /\ lock[req[r].txn] = r
    /\ \A t \in Txns : lock[t] # None =>
          req[lock[t]].stage \in Writing /\ req[lock[t]].txn = t

\* No entry is stamped later than now.
Stamps == \A e \in audit : e.at <= clock

\* The audit row a request has inserted is later than its flag's committed trail.
EntryReady(r) ==
    \E e \in req[r].entries :
        /\ req[r].entries = {e}
        /\ e.flag = req[r].txn /\ e.action = req[r].action /\ e.actor = req[r].actor
        /\ e.at <= clock /\ req[r].flag.decidedAt < e.at
        /\ \A f \in audit : f.flag = req[r].txn => f.at < e.at

\* What a request has established by the time it reaches a statement.
Ingesting(r) == req[r].action = "FLAGGED" /\ req[r].actor = None
Deciding(r)  == req[r].action \in Decisions /\ req[r].actor \in Analysts
Staged(r) ==
    \/ Ingesting(r) /\ ~Present(req[r].txn) /\ req[r].flag = PendingRow
    \/ /\ Deciding(r) /\ Present(req[r].txn)
       /\ req[r].flag.status = req[r].action /\ req[r].flag.decidedBy = req[r].actor
       /\ req[r].flag.decidedAt <= clock

RequestFlow(r) ==
    /\ req[r].stage = "new" => req[r].actor = None
    /\ req[r].stage \notin {"new", "done"} => req[r].txn \in Txns
    /\ req[r].stage = "insert_txn" => Ingesting(r)
    /\ req[r].stage = "insert_flag" => Ingesting(r) /\ ~Present(req[r].txn)
    /\ req[r].stage = "check" => Deciding(r) /\ Present(req[r].txn)
    /\ req[r].stage \in {"update", "insert_audit", "commit"} => Staged(r)
    /\ req[r].stage = "update" => Deciding(r)
    /\ req[r].stage = "commit" => EntryReady(r)

Flow == \A r \in Requests : RequestFlow(r)

IInv == TypeOK /\ Locks /\ Stamps /\ Flow /\ TrailMatchesFlags /\ TrailReadsAsHistory

-----------------------------------------------------------------------------
(* Types *)

\* A well-formed request in place of another.
LEMMA BecomesType ==
    ASSUME NEW r \in Requests, NEW q \in Request, TypeOK, Becomes(r, q)
    PROVE  req' \in [Requests -> Request]
  BY DEF TypeOK, Becomes

\* Answering keeps the request well formed.
LEMMA AnswerType ==
    ASSUME NEW r \in Requests, NEW code \in Replies, TypeOK, Answer(r, code)
    PROVE  req' \in [Requests -> Request]
  <1> DEFINE q == [req[r] EXCEPT !.stage = "done", !.reply = code, !.entries = {}]
  <1>1. {} \in Entries
    BY DEF Entries
  <1>2. q \in Request
    BY <1>1 DEF TypeOK, Request, Stages
  <1> QED
    BY <1>2, BecomesType DEF Answer

\* Releasing leaves every lock with a request or with nobody.
LEMMA ReleaseType ==
    ASSUME NEW r \in Requests, TypeOK, Release(r)
    PROVE  lock' \in [Txns -> Requests \cup {None}]
  BY DEF TypeOK, Release

\* Committed rows and entries, locks, requests and the clock keep their types
\* (review_app/review/models.py) through every statement of every request.
LEMMA TypeStep ==
    ASSUME TypeOK, Flow, [Next]_vars
    PROVE  TypeOK'
  <1>1. ASSUME NEW r \in Requests, RejectRequest(r) PROVE TypeOK'
    BY <1>1, AnswerType DEF RejectRequest, TypeOK, Replies
  <1>2. ASSUME NEW r \in Requests, NEW t \in Txns, ReceiveFlag(r, t) PROVE TypeOK'
    <2>1. [req[r] EXCEPT !.stage = "insert_txn", !.txn = t, !.action = "FLAGGED"] \in Request
      BY DEF TypeOK, Request, Stages, Actions
    <2> QED
      BY <1>2, <2>1, BecomesType DEF ReceiveFlag, TypeOK
  <1>3. ASSUME NEW r \in Requests, NEW t \in Txns, NEW d \in Decisions, NEW who \in Analysts,
               LoadFlag(r, t, d, who)
        PROVE TypeOK'
    <2>1. [req[r] EXCEPT !.stage = "check", !.txn = t, !.action = d, !.actor = who,
                         !.flag = flags[t]] \in Request
      BY DEF TypeOK, Request, Stages, Actions
    <2> QED
      BY <1>3, <2>1, AnswerType, BecomesType DEF LoadFlag, TypeOK, Replies
  <1>4. ASSUME NEW r \in Requests, NEW t \in Txns, OpenPage(r, t) PROVE TypeOK'
    <2>1. [req[r] EXCEPT !.stage = "page", !.txn = t, !.action = "VIEW", !.flag = flags[t]] \in Request
      BY DEF TypeOK, Request, Stages
    <2> QED
      BY <1>4, <2>1, AnswerType, BecomesType DEF OpenPage, TypeOK, Replies
  <1>5. ASSUME NEW r \in Requests, InsertTransaction(r) PROVE TypeOK'
    <2>1. [req[r] EXCEPT !.stage = "insert_flag"] \in Request
      BY DEF TypeOK, Request, Stages
    <2> QED
      BY <1>5, <2>1, AnswerType, BecomesType DEF InsertTransaction, TypeOK, Replies
  <1>6. ASSUME NEW r \in Requests, InsertFlag(r) PROVE TypeOK'
    <2>1. PendingRow \in Row
      BY DEF PendingRow, Row, Statuses
    <2>2. [req[r] EXCEPT !.stage = "insert_audit", !.flag = PendingRow] \in Request
      BY <2>1 DEF TypeOK, Request, Stages
    <2> QED
      BY <1>6, <2>2, BecomesType DEF InsertFlag, TypeOK
  <1>7. ASSUME NEW r \in Requests, CheckStatus(r) PROVE TypeOK'
    <2>1. DecidedRow(r) \in Row
      BY <1>7 DEF TypeOK, Request, DecidedRow, Row, Statuses, CheckStatus, Flow, RequestFlow, Deciding
    <2>2. [req[r] EXCEPT !.stage = "update", !.flag = DecidedRow(r)] \in Request
      BY <2>1 DEF TypeOK, Request, Stages
    <2> QED
      BY <1>7, <2>2, AnswerType, BecomesType DEF CheckStatus, TypeOK, Replies
  <1>8. ASSUME NEW r \in Requests, UpdateFlag(r) PROVE TypeOK'
    <2>1. [req[r] EXCEPT !.stage = "insert_audit"] \in Request
      BY DEF TypeOK, Request, Stages
    <2> QED
      BY <1>8, <2>1, BecomesType DEF UpdateFlag, TypeOK
  <1>9. ASSUME NEW r \in Requests, InsertAudit(r) PROVE TypeOK'
    <2>0. req[r].txn \in Txns /\ req[r].action \in Actions
      BY <1>9 DEF InsertAudit, Flow, RequestFlow, Staged, Ingesting, Deciding, Actions
    <2>1. AuditRow(r, req[r].action) \in Entry /\ {AuditRow(r, req[r].action)} \in Entries
      BY <2>0 DEF TypeOK, Request, AuditRow, Entry, Entries
    <2>2. [req[r] EXCEPT !.stage = "commit", !.entries = {AuditRow(r, req[r].action)}] \in Request
      BY <2>1 DEF TypeOK, Request, Stages
    <2> QED
      BY <1>9, <2>2, BecomesType DEF InsertAudit, TypeOK
  <1>10. ASSUME NEW r \in Requests, Commit(r) PROVE TypeOK'
    <2>1. req[r].flag \in Row /\ req[r].entries \subseteq Entry
      BY DEF TypeOK, Request, Entries
    <2>2. req' \in [Requests -> Request]
      BY <1>10, AnswerType DEF Commit, Replies, NoReply
    <2> QED
      BY <1>10, <2>1, <2>2, ReleaseType DEF Commit, TypeOK
  <1>11. ASSUME NEW r \in Requests, ShowTrail(r) PROVE TypeOK'
    <2>1. Trail(req[r].txn) \in Entries
      BY DEF TypeOK, Trail, Entries
    <2>2. ASSUME NEW es \in Entries, NEW code \in Replies
          PROVE  [req[r] EXCEPT !.stage = "done", !.reply = code, !.entries = es] \in Request
      BY DEF TypeOK, Request, Stages
    <2>3. 200 \in Replies
      BY DEF Replies
    <2> QED
      BY <1>11, <2>1, <2>2, <2>3, BecomesType DEF ShowTrail, TypeOK
  <1>12. ASSUME NEW r \in Requests, Fail(r) PROVE TypeOK'
    BY <1>12, AnswerType, ReleaseType DEF Fail, TypeOK, Replies, NoReply
  <1>13. CASE UNCHANGED vars
    BY <1>13 DEF vars, TypeOK
  <1> QED
    BY <1>1, <1>2, <1>3, <1>4, <1>5, <1>6, <1>7, <1>8, <1>9, <1>10, <1>11, <1>12, <1>13
    DEF Next, Receive, Proceed, AllServed

-----------------------------------------------------------------------------
(* Locks and the flow of a request *)

Step(r) == Receive(r) \/ Proceed(r) \/ Fail(r)

\* A statement changes its own request only, the clock never runs backwards,
\* and only a COMMIT changes what is stored.
LEMMA Frame ==
    ASSUME TypeOK, NEW r \in Requests, Step(r)
    PROVE  /\ \A s \in Requests \ {r} : req'[s] = req[s]
           /\ clock' \in Nat /\ clock <= clock'
           /\ Commit(r) \/ (flags' = flags /\ audit' = audit)
  <1>1. \A q : Becomes(r, q) => \A s \in Requests \ {r} : req'[s] = req[s]
    BY DEF Becomes, TypeOK
  <1>2. \A code : Answer(r, code) => \A s \in Requests \ {r} : req'[s] = req[s]
    BY <1>1 DEF Answer
  <1>3. CASE Receive(r)
    <2>1. UNCHANGED <<flags, audit, clock>>
      BY <1>3 DEF Receive, RejectRequest, ReceiveFlag, LoadFlag, OpenPage
    <2>2. CASE RejectRequest(r)
      BY <1>2, <2>1, <2>2 DEF RejectRequest, TypeOK
    <2>3. CASE \E t \in Txns : ReceiveFlag(r, t)
      BY <1>1, <2>1, <2>3 DEF ReceiveFlag, TypeOK
    <2>4. CASE \E t \in Txns, d \in Decisions, who \in Analysts : LoadFlag(r, t, d, who)
      BY <1>1, <1>2, <2>1, <2>4 DEF LoadFlag, TypeOK
    <2>5. CASE \E t \in Txns : OpenPage(r, t)
      BY <1>1, <1>2, <2>1, <2>5 DEF OpenPage, TypeOK
    <2> QED
      BY <1>3, <2>2, <2>3, <2>4, <2>5 DEF Receive
  <1>4. CASE InsertTransaction(r) \/ InsertFlag(r) \/ CheckStatus(r)
    BY <1>1, <1>2, <1>4 DEF TypeOK, InsertTransaction, InsertFlag, CheckStatus
  <1>5. CASE UpdateFlag(r) \/ InsertAudit(r) \/ ShowTrail(r)
    BY <1>1, <1>2, <1>5 DEF TypeOK, UpdateFlag, InsertAudit, ShowTrail
  <1>6. CASE Commit(r) \/ Fail(r)
    BY <1>1, <1>2, <1>6 DEF TypeOK, Commit, Fail
  <1> QED
    BY <1>3, <1>4, <1>5, <1>6 DEF Step, Proceed

\* While the lock table stays as it is, its request must go on writing.
LEMMA LocksKept ==
    ASSUME TypeOK, Locks, NEW r \in Requests, NEW q, Becomes(r, q), lock' = lock,
           q.stage \in Writing <=> req[r].stage \in Writing, q.stage \in Writing => q.txn = req[r].txn
    PROVE  Locks'
  <1>1. req'[r] = q /\ \A s \in Requests \ {r} : req'[s] = req[s]
    BY DEF Becomes, TypeOK
  <1> QED
    BY <1>1 DEF Locks, TypeOK

\* A lock is taken only when free, by the request that then writes, and goes
\* back when the request ends.
LEMMA LockStep ==
    ASSUME TypeOK, Locks, Flow, NEW r \in Requests, Step(r)
    PROVE  Locks'
  <1>0. req[r] \in Request
    BY DEF TypeOK
  <1>1. ASSUME NEW code, Answer(r, code), lock' = lock, req[r].stage \notin Writing PROVE Locks'
    <2> DEFINE q == [req[r] EXCEPT !.stage = "done", !.reply = code, !.entries = {}]
    <2>1. q.stage = "done" /\ Becomes(r, q)
      BY <1>0, <1>1 DEF Request, Answer
    <2> QED
      BY <1>1, <2>1, LocksKept DEF Writing
  <1>2. ASSUME NEW q, Becomes(r, q), lock' = lock, req[r].stage \notin Writing, q.stage \notin Writing
        PROVE Locks'
    BY <1>2, LocksKept
  <1>3. CASE Receive(r)
    <2>1. req[r].stage \notin Writing /\ lock' = lock
      BY <1>3 DEF Receive, RejectRequest, ReceiveFlag, LoadFlag, OpenPage, Writing
    <2>2. CASE RejectRequest(r)
      BY <1>1, <2>1, <2>2 DEF RejectRequest
    <2>3. ASSUME NEW t \in Txns, ReceiveFlag(r, t) PROVE Locks'
      <3> DEFINE q == [req[r] EXCEPT !.stage = "insert_txn", !.txn = t, !.action = "FLAGGED"]
      <3>1. q.stage \notin Writing
        BY <1>0 DEF Request, Writing
      <3> QED
        BY <1>2, <2>1, <2>3, <3>1 DEF ReceiveFlag
    <2>4. ASSUME NEW t \in Txns, NEW d, NEW who, LoadFlag(r, t, d, who) PROVE Locks'
      <3> DEFINE q == [req[r] EXCEPT !.stage = "check", !.txn = t, !.action = d, !.actor = who,
                                     !.flag = flags[t]]
      <3>1. q.stage \notin Writing
        BY <1>0 DEF Request, Writing
      <3> QED
        BY <1>1, <1>2, <2>1, <2>4, <3>1 DEF LoadFlag
    <2>5. ASSUME NEW t \in Txns, OpenPage(r, t) PROVE Locks'
      <3> DEFINE q == [req[r] EXCEPT !.stage = "page", !.txn = t, !.action = "VIEW", !.flag = flags[t]]
      <3>1. q.stage \notin Writing
        BY <1>0 DEF Request, Writing
      <3> QED
        BY <1>1, <1>2, <2>1, <2>5, <3>1 DEF OpenPage
    <2> QED
      BY <1>3, <2>2, <2>3, <2>4, <2>5 DEF Receive
  <1>4. ASSUME req[r].txn \in Txns, lock[req[r].txn] = None, lock' = [lock EXCEPT ![req[r].txn] = r],
               NEW q, Becomes(r, q), q.stage \in Writing, q.txn = req[r].txn
        PROVE Locks'
    <2>1. req'[r] = q /\ \A s \in Requests \ {r} : req'[s] = req[s]
      BY <1>4 DEF Becomes, TypeOK
    <2> QED
      BY <1>4, <2>1, NoneAssumption DEF Locks, TypeOK
  <1>5. CASE InsertTransaction(r)
    <2>1. req[r].stage \notin Writing /\ req[r].txn \in Txns
      BY <1>5 DEF InsertTransaction, Flow, RequestFlow, Writing
    <2>2. CASE Present(req[r].txn)
      BY <1>1, <1>5, <2>1, <2>2 DEF InsertTransaction
    <2>3. CASE ~Present(req[r].txn)
      <3> DEFINE q == [req[r] EXCEPT !.stage = "insert_flag"]
      <3>1. q.stage \in Writing /\ q.txn = req[r].txn
        BY <1>0 DEF Request, Writing
      <3> QED
        BY <1>4, <1>5, <2>1, <2>3, <3>1 DEF InsertTransaction
    <2> QED
      BY <2>2, <2>3
  <1>6. CASE InsertFlag(r)
    <2> DEFINE q == [req[r] EXCEPT !.stage = "insert_audit", !.flag = PendingRow]
    <2>1. q.stage \in Writing /\ q.txn = req[r].txn
      BY <1>0 DEF Request, Writing
    <2> QED
      BY <1>6, <2>1, LocksKept DEF InsertFlag, Writing
  <1>7. CASE CheckStatus(r)
    <2> DEFINE q == [req[r] EXCEPT !.stage = "update", !.flag = DecidedRow(r)]
    <2>1. q.stage \notin Writing /\ req[r].stage \notin Writing /\ lock' = lock
      BY <1>0, <1>7 DEF Request, Writing, CheckStatus
    <2> QED
      BY <1>1, <1>2, <1>7, <2>1 DEF CheckStatus
  <1>8. CASE UpdateFlag(r)
    <2> DEFINE q == [req[r] EXCEPT !.stage = "insert_audit"]
    <2>1. q.stage \in Writing /\ q.txn = req[r].txn
      BY <1>0 DEF Request, Writing
    <2>2. req[r].txn \in Txns
      BY <1>8 DEF UpdateFlag, Flow, RequestFlow
    <2> QED
      BY <1>4, <1>8, <2>1, <2>2 DEF UpdateFlag
  <1>9. CASE InsertAudit(r)
    <2> DEFINE q == [req[r] EXCEPT !.stage = "commit", !.entries = {AuditRow(r, req[r].action)}]
    <2>1. q.stage \in Writing /\ q.txn = req[r].txn
      BY <1>0 DEF Request, Writing
    <2> QED
      BY <1>9, <2>1, LocksKept DEF InsertAudit, Writing
  <1>10. ASSUME Release(r), NEW code, Answer(r, code) PROVE Locks'
    <2>1. req'[r].stage = "done" /\ \A s \in Requests \ {r} : req'[s] = req[s]
      BY <1>0, <1>10 DEF Answer, Becomes, TypeOK, Request
    <2> QED
      BY <1>10, <2>1, NoneAssumption DEF Release, Locks, TypeOK, Writing
  <1>11. CASE ShowTrail(r)
    <2> DEFINE q == [req[r] EXCEPT !.stage = "done", !.reply = 200, !.entries = Trail(req[r].txn)]
    <2>1. q.stage \notin Writing
      BY <1>0 DEF Request, Writing
    <2> QED
      BY <1>2, <1>11, <2>1 DEF ShowTrail, Writing
  <1> QED
    BY <1>3, <1>5, <1>6, <1>7, <1>8, <1>9, <1>10, <1>11 DEF Step, Proceed, Commit, Fail

\* Entries are stamped at INSERT and stored later.
LEMMA StampStep ==
    ASSUME TypeOK, Stamps, Flow, NEW r \in Requests, Step(r)
    PROVE  Stamps'
  <1>1. CASE Commit(r)
    BY <1>1 DEF Commit, Stamps, Flow, RequestFlow, EntryReady
  <1>2. CASE flags' = flags /\ audit' = audit
    BY <1>2, Frame DEF Stamps, TypeOK, Entry
  <1> QED
    BY <1>1, <1>2, Frame

\* What another request relies on survives a step that stores nothing.
LEMMA OthersFlow ==
    ASSUME TypeOK, NEW r \in Requests, Step(r), ~Commit(r),
           NEW s \in Requests \ {r}, RequestFlow(s)
    PROVE  RequestFlow(s)'
  <1>1. req'[s] = req[s] /\ flags' = flags /\ audit' = audit /\ clock' \in Nat /\ clock <= clock'
    BY Frame
  <1>2. req[s].flag.decidedAt \in Nat /\ req[s].entries \subseteq Entry
    BY DEF TypeOK, Request, Row, Entries
  <1>3. EntryReady(s) => EntryReady(s)'
    BY <1>1, <1>2 DEF EntryReady, Entry, TypeOK
  <1>4. Staged(s) => Staged(s)'
    BY <1>1, <1>2 DEF Staged, Ingesting, Deciding, Present, TypeOK
  <1> QED
    BY <1>1, <1>3, <1>4 DEF RequestFlow, Ingesting, Deciding, Present

\* A COMMIT leaves what other requests rely on: they write other transactions,
\* or only need the flag to exist.
LEMMA OthersCommit ==
    ASSUME TypeOK, Locks, Flow, NEW r \in Requests, Commit(r), NEW s \in Requests \ {r}
    PROVE  RequestFlow(s)'
  <1> DEFINE t == req[r].txn
  <1>1. /\ req'[s] = req[s] /\ clock' = clock
        /\ flags' = [flags EXCEPT ![t] = req[r].flag] /\ audit' = audit \cup req[r].entries
    BY DEF Commit, Becomes, Answer, TypeOK
  <1>2. t \in Txns /\ req[r].flag.status # "ABSENT" /\ \A e \in req[r].entries : e.flag = t
    BY DEF Commit, Flow, RequestFlow, EntryReady, Staged, PendingRow, Deciding, Decisions
  <1>3. \A u \in Txns : Present(u) => Present(u)'
    BY <1>1, <1>2 DEF Present, TypeOK
  <1>4. req[s].stage \in Writing => req[s].txn # t
    BY DEF Locks, Commit, Writing
  <1>5. \A u \in Txns \ {t} : Present(u)' <=> Present(u)
    BY <1>1 DEF Present, TypeOK
  <1>6. RequestFlow(s)
    BY DEF Flow
  <1>7. req[s].stage = "commit" => EntryReady(s)'
    BY <1>1, <1>2, <1>4, <1>6 DEF RequestFlow, EntryReady, Writing
  <1>8. req[s].stage \in {"update", "insert_audit", "commit"} => Staged(s)'
    <2>1. CASE req[s].stage = "update"
      BY <2>1, <1>1, <1>3, <1>6 DEF RequestFlow, Staged, Ingesting, Deciding, Decisions
    <2>2. CASE req[s].stage \in {"insert_audit", "commit"}
      BY <2>2, <1>1, <1>4, <1>5, <1>6 DEF RequestFlow, Staged, Ingesting, Deciding, Writing
    <2> QED
      BY <2>1, <2>2
  <1> QED
    BY <1>1, <1>3, <1>4, <1>5, <1>6, <1>7, <1>8 DEF RequestFlow, Ingesting, Deciding, Writing

\* What a request goes by holds when it gets to its next statement.
LEMMA OwnFlow ==
    ASSUME TypeOK, Stamps, NEW r \in Requests, RequestFlow(r), Step(r)
    PROVE  RequestFlow(r)'
  <1>0. req[r] \in Request
    BY DEF TypeOK
  <1>1. \A q : Becomes(r, q) => req'[r] = q
    BY DEF Becomes, TypeOK
  <1>2. ASSUME NEW code, Answer(r, code) PROVE RequestFlow(r)'
    <2> DEFINE q == [req[r] EXCEPT !.stage = "done", !.reply = code, !.entries = {}]
    <2>1. q.stage = "done" /\ req'[r] = q
      BY <1>0, <1>1, <1>2 DEF Request, Answer
    <2> QED
      BY <2>1 DEF RequestFlow
  <1>3. ASSUME NEW t \in Txns, ReceiveFlag(r, t) PROVE RequestFlow(r)'
    <2> DEFINE q == [req[r] EXCEPT !.stage = "insert_txn", !.txn = t, !.action = "FLAGGED"]
    <2>1. req'[r] = q /\ q.stage = "insert_txn" /\ q.txn = t /\ q.action = "FLAGGED" /\ q.actor = req[r].actor
      BY <1>0, <1>1, <1>3 DEF Request, ReceiveFlag
    <2> QED
      BY <1>3, <2>1 DEF RequestFlow, ReceiveFlag, Ingesting
  <1>4. ASSUME NEW t \in Txns, NEW d \in Decisions, NEW who \in Analysts, LoadFlag(r, t, d, who)
        PROVE RequestFlow(r)'
    <2> DEFINE q == [req[r] EXCEPT !.stage = "check", !.txn = t, !.action = d, !.actor = who,
                                   !.flag = flags[t]]
    <2>1. CASE Present(t)
      <3>1. req'[r] = q /\ q.stage = "check" /\ q.txn = t /\ q.action = d /\ q.actor = who
        BY <1>0, <1>1, <1>4, <2>1 DEF Request, LoadFlag
      <3> QED
        BY <1>4, <2>1, <3>1 DEF RequestFlow, LoadFlag, Deciding, Present
    <2> QED
      BY <1>2, <1>4, <2>1 DEF LoadFlag
  <1>5. ASSUME NEW t \in Txns, OpenPage(r, t) PROVE RequestFlow(r)'
    <2> DEFINE q == [req[r] EXCEPT !.stage = "page", !.txn = t, !.action = "VIEW", !.flag = flags[t]]
    <2>1. CASE Present(t)
      <3>1. req'[r] = q /\ q.stage = "page" /\ q.txn = t
        BY <1>0, <1>1, <1>5, <2>1 DEF Request, OpenPage
      <3> QED
        BY <3>1 DEF RequestFlow
    <2> QED
      BY <1>2, <1>5, <2>1 DEF OpenPage
  <1>6. CASE InsertTransaction(r)
    <2> DEFINE q == [req[r] EXCEPT !.stage = "insert_flag"]
    <2>1. CASE ~Present(req[r].txn)
      <3>1. req'[r] = q /\ q.stage = "insert_flag" /\ q.txn = req[r].txn
            /\ q.action = req[r].action /\ q.actor = req[r].actor
        BY <1>0, <1>1, <1>6, <2>1 DEF Request, InsertTransaction
      <3> QED
        BY <1>6, <2>1, <3>1 DEF RequestFlow, InsertTransaction, Ingesting, Present
    <2> QED
      BY <1>2, <1>6, <2>1 DEF InsertTransaction
  <1>7. CASE InsertFlag(r)
    <2> DEFINE q == [req[r] EXCEPT !.stage = "insert_audit", !.flag = PendingRow]
    <2>1. req'[r] = q /\ q.stage = "insert_audit" /\ q.txn = req[r].txn /\ q.flag = PendingRow
          /\ q.action = req[r].action /\ q.actor = req[r].actor
      BY <1>0, <1>1, <1>7 DEF Request, InsertFlag
    <2> QED
      BY <1>7, <2>1 DEF RequestFlow, InsertFlag, Staged, Ingesting, Present
  <1>8. CASE CheckStatus(r)
    <2> DEFINE q == [req[r] EXCEPT !.stage = "update", !.flag = DecidedRow(r)]
    <2>1. CASE req[r].flag.status = "PENDING"
      <3>1. req'[r] = q /\ q.stage = "update" /\ q.txn = req[r].txn /\ q.flag = DecidedRow(r)
            /\ q.action = req[r].action /\ q.actor = req[r].actor
        BY <1>0, <1>1, <1>8, <2>1 DEF Request, CheckStatus
      <3>2. /\ q.flag.status = q.action /\ q.flag.decidedBy = q.actor /\ q.flag.decidedAt = clock'
            /\ clock' \in Nat
        BY <1>8, <2>1, <3>1 DEF CheckStatus, DecidedRow, TypeOK
      <3>3. Deciding(r)' /\ Present(req[r].txn) /\ flags' = flags /\ req[r].txn \in Txns
        BY <1>8, <3>1 DEF RequestFlow, CheckStatus, Deciding
      <3>4. Staged(r)'
        BY <3>1, <3>2, <3>3 DEF Staged, Present
      <3> QED
        BY <3>1, <3>3, <3>4 DEF RequestFlow
    <2> QED
      BY <1>2, <1>8, <2>1 DEF CheckStatus
  <1>9. CASE UpdateFlag(r)
    <2> DEFINE q == [req[r] EXCEPT !.stage = "insert_audit"]
    <2>1. req'[r] = q /\ q.stage = "insert_audit" /\ q.txn = req[r].txn /\ q.flag = req[r].flag
          /\ q.action = req[r].action /\ q.actor = req[r].actor
      BY <1>0, <1>1, <1>9 DEF Request, UpdateFlag
    <2> QED
      BY <1>9, <2>1 DEF RequestFlow, UpdateFlag, Staged, Ingesting, Deciding, Present
  <1>10. CASE InsertAudit(r)
    <2> DEFINE e == AuditRow(r, req[r].action)
               q == [req[r] EXCEPT !.stage = "commit", !.entries = {e}]
    <2>1. req'[r] = q /\ q.stage = "commit" /\ q.txn = req[r].txn /\ q.flag = req[r].flag
          /\ q.action = req[r].action /\ q.actor = req[r].actor /\ q.entries = {e}
      BY <1>0, <1>1, <1>10 DEF Request, InsertAudit
    <2>2. e.flag = q.txn /\ e.action = q.action /\ e.actor = q.actor /\ e.at = clock + 1
      BY <2>1 DEF AuditRow
    <2>3. /\ req[r].stage = "insert_audit" /\ flags' = flags /\ audit' = audit /\ clock' = clock + 1
          /\ clock \in Nat /\ req[r].txn \in Txns /\ Staged(r)
      BY <1>10 DEF InsertAudit, RequestFlow, TypeOK
    <2>4. req[r].flag.decidedAt <= clock
      BY <2>3 DEF Staged, PendingRow
    <2>5. req[r].flag.decidedAt \in Nat /\ \A f \in audit : f.at \in Nat
      BY <1>0 DEF Request, Row, TypeOK, Entry
    <2>6. Staged(r)'
      BY <2>1, <2>3, <2>4, <2>5 DEF Staged, Ingesting, Deciding, Present
    <2>7. EntryReady(r)'
      BY <2>1, <2>2, <2>3, <2>4, <2>5 DEF EntryReady, Stamps
    <2> QED
      BY <2>1, <2>3, <2>6, <2>7 DEF RequestFlow
  <1>11. CASE ShowTrail(r)
    <2> DEFINE q == [req[r] EXCEPT !.stage = "done", !.reply = 200, !.entries = Trail(req[r].txn)]
    <2>1. req'[r] = q /\ q.stage = "done"
      BY <1>0, <1>1, <1>11 DEF Request, ShowTrail
    <2> QED
      BY <2>1 DEF RequestFlow
  <1> QED
    BY <1>2, <1>3, <1>4, <1>5, <1>6, <1>7, <1>8, <1>9, <1>10, <1>11
    DEF Step, Receive, Proceed, RejectRequest, Commit, Fail

LEMMA FlowStep ==
    ASSUME TypeOK, Locks, Stamps, Flow, NEW r \in Requests, Step(r)
    PROVE  Flow'
  BY OwnFlow, OthersFlow, OthersCommit DEF Flow

-----------------------------------------------------------------------------
(* The trail *)

\* What a COMMIT stores: the request's row and its one entry, the latest of its trail.
LEMMA CommitEffect ==
    ASSUME TypeOK, Flow, NEW r \in Requests, Commit(r)
    PROVE  \E t \in Txns, e \in Entry :
              /\ e.flag = t /\ e.action = req[r].action /\ e.actor = req[r].actor
              /\ t = req[r].txn /\ Staged(r) /\ req[r].flag.decidedAt < e.at
              /\ \A f \in Trail(t) : f.at < e.at
              /\ e \notin audit /\ audit' = audit \cup {e}
              /\ Trail(t)' = Trail(t) \cup {e} /\ flags'[t] = req[r].flag
              /\ \A u \in Txns \ {t} : Trail(u)' = Trail(u) /\ flags'[u] = flags[u]
  <1>1. PICK e \in req[r].entries :
            /\ req[r].entries = {e}
            /\ e.flag = req[r].txn /\ e.action = req[r].action /\ e.actor = req[r].actor
            /\ e.at <= clock /\ req[r].flag.decidedAt < e.at
            /\ \A f \in audit : f.flag = req[r].txn => f.at < e.at
    BY DEF Commit, Flow, RequestFlow, EntryReady
  <1>2. e \in Entry
    BY DEF TypeOK, Request, Entries
  <1>3. e \notin audit /\ audit' = audit \cup {e}
    BY <1>1, <1>2 DEF Commit, Entry
  <1>4. PICK t \in Txns : t = req[r].txn
    BY DEF Commit, Flow, RequestFlow
  <1>5. Staged(r) /\ flags' = [flags EXCEPT ![t] = req[r].flag]
    BY <1>4 DEF Commit, Flow, RequestFlow
  <1>6. Trail(t)' = Trail(t) \cup {e} /\ \A u \in Txns \ {t} : Trail(u)' = Trail(u)
    BY <1>1, <1>3, <1>4 DEF Trail
  <1>7. \A f \in Trail(t) : f.at < e.at
    BY <1>1, <1>4 DEF Trail
  <1>8. flags'[t] = req[r].flag /\ \A u \in Txns \ {t} : flags'[u] = flags[u]
    BY <1>5 DEF TypeOK
  <1> QED
    BY <1>1, <1>2, <1>3, <1>4, <1>5, <1>6, <1>7, <1>8

\* Steps that store nothing leave every trail and every row alone.
LEMMA NothingStored ==
    ASSUME flags' = flags, audit' = audit, TrailMatchesFlags, TrailReadsAsHistory
    PROVE  TrailMatchesFlags' /\ TrailReadsAsHistory'
  BY DEF TrailMatchesFlags, TrailReadsAsHistory, DecisionsOn, Trail, Present, Decided

\* A row that is absent has no trail, a row that is present has a FLAGGED entry.
LEMMA NoTrail ==
    ASSUME TypeOK, TrailMatchesFlags, NEW t \in Txns, ~Present(t)
    PROVE  Trail(t) = {}
  <1>1. \A e \in Trail(t) : e.action \in Actions
    BY DEF TypeOK, Trail, Entry
  <1>2. ~Decided(t)
    BY DEF Present, Decided, Decisions
  <1> QED
    BY <1>1, <1>2 DEF TrailMatchesFlags, DecisionsOn, Actions

\* A COMMIT stores a row together with the entry that explains it.
LEMMA MatchStep ==
    ASSUME TypeOK, Flow, TrailMatchesFlags, NEW r \in Requests, Commit(r)
    PROVE  TrailMatchesFlags'
  <1>1. PICK t \in Txns, e \in Entry :
              /\ e.flag = t /\ e.action = req[r].action /\ e.actor = req[r].actor
              /\ t = req[r].txn /\ Staged(r) /\ req[r].flag.decidedAt < e.at
              /\ \A f \in Trail(t) : f.at < e.at
              /\ e \notin audit /\ audit' = audit \cup {e}
              /\ Trail(t)' = Trail(t) \cup {e} /\ flags'[t] = req[r].flag
              /\ \A u \in Txns \ {t} : Trail(u)' = Trail(u) /\ flags'[u] = flags[u]
    BY CommitEffect
  <1> DEFINE Matches(u) ==
        /\ Present(u) <=> \E f \in Trail(u) : f.action = "FLAGGED"
        /\ \A f, g \in Trail(u) : f.action = "FLAGGED" /\ g.action = "FLAGGED" => f = g
        /\ Decided(u) <=> \E f \in Trail(u) : f.action \in Decisions
  <1>2. \A u \in Txns : Matches(u)
    BY DEF TrailMatchesFlags, DecisionsOn
  <1>3. ASSUME NEW u \in Txns \ {t} PROVE Matches(u)'
    BY <1>1, <1>2, <1>3 DEF Present, Decided
  <1>4. Matches(t)'
    <2>1. CASE Ingesting(r) /\ ~Present(t) /\ req[r].flag = PendingRow
      <3>1. Trail(t)' = {e}
        BY <1>1, <2>1, NoTrail
      <3> QED
        BY <1>1, <2>1, <3>1 DEF Present, Decided, Ingesting, PendingRow, Decisions
    <2>2. CASE Deciding(r) /\ Present(t) /\ req[r].flag.status = req[r].action
      BY <1>1, <1>2, <2>2 DEF Present, Decided, Deciding, Decisions
    <2> QED
      BY <1>1, <2>1, <2>2 DEF Staged
  <1>5. \A u \in Txns : Matches(u)'
    BY <1>3, <1>4
  <1> QED
    BY <1>5 DEF TrailMatchesFlags, DecisionsOn

\* The entry a COMMIT stores is later than the trail, and says what the row says.
LEMMA HistoryStep ==
    ASSUME TypeOK, Flow, TrailMatchesFlags, TrailReadsAsHistory, NEW r \in Requests, Commit(r)
    PROVE  TrailReadsAsHistory'
  <1>1. PICK t \in Txns, e \in Entry :
              /\ e.flag = t /\ e.action = req[r].action /\ e.actor = req[r].actor
              /\ t = req[r].txn /\ Staged(r) /\ req[r].flag.decidedAt < e.at
              /\ \A f \in Trail(t) : f.at < e.at
              /\ e \notin audit /\ audit' = audit \cup {e}
              /\ Trail(t)' = Trail(t) \cup {e} /\ flags'[t] = req[r].flag
              /\ \A u \in Txns \ {t} : Trail(u)' = Trail(u) /\ flags'[u] = flags[u]
    BY CommitEffect
  <1> DEFINE Begins(u) == \A f, g \in Trail(u) : f.action = "FLAGGED" /\ g # f => f.at < g.at
             Ends(u) == Decided(u) =>
                \E f \in Trail(u) :
                    /\ f.action \in Decisions
                    /\ \A g \in Trail(u) \ {f} : g.at < f.at
                    /\ f.action = flags[u].status
                    /\ f.actor = flags[u].decidedBy
                    /\ flags[u].decidedAt < f.at
  <1>2. \A u \in Txns : Begins(u) /\ Ends(u)
    BY DEF TrailReadsAsHistory, DecisionsOn
  <1>3. ASSUME NEW u \in Txns \ {t} PROVE Begins(u)' /\ Ends(u)'
    BY <1>1, <1>2, <1>3 DEF Decided
  <1>4. Begins(t)' /\ Ends(t)'
    <2>1. CASE Ingesting(r) /\ ~Present(t) /\ req[r].flag = PendingRow
      <3>1. Trail(t)' = {e}
        BY <1>1, <2>1, NoTrail
      <3> QED
        BY <1>1, <2>1, <3>1 DEF Decided, PendingRow, Decisions
    <2>2. CASE /\ Deciding(r) /\ Present(t)
               /\ req[r].flag.status = req[r].action /\ req[r].flag.decidedBy = req[r].actor
      <3>1. Begins(t)'
        BY <1>1, <1>2, <2>2 DEF Deciding, Decisions
      <3>2. Ends(t)'
        BY <1>1, <2>2 DEF Decided, Deciding
      <3> QED
        BY <3>1, <3>2
    <2> QED
      BY <1>1, <2>1, <2>2 DEF Staged
  <1>5. \A u \in Txns : Begins(u)' /\ Ends(u)'
    BY <1>3, <1>4
  <1> QED
    BY <1>5 DEF TrailReadsAsHistory, DecisionsOn

-----------------------------------------------------------------------------
(* Theorems *)

LEMMA IInvInit == Init => IInv
  <1> SUFFICES ASSUME Init PROVE IInv
    OBVIOUS
  <1>1. TypeOK
    <2>1. NoRow \in Row /\ {} \in Entries /\ NoReply \in Replies
      BY DEF NoRow, Row, Statuses, Entries, Replies
    <2>2. NewRequest \in Request
      BY <2>1 DEF NewRequest, Request, Stages, Actions
    <2> QED
      BY <2>1, <2>2 DEF Init, TypeOK
  <1>2. Locks
    BY DEF Init, Locks, Writing, NewRequest
  <1>3. Stamps /\ Flow
    BY DEF Init, Stamps, Flow, RequestFlow, NewRequest
  <1>4. TrailMatchesFlags /\ TrailReadsAsHistory
    BY DEF Init, TrailMatchesFlags, TrailReadsAsHistory, DecisionsOn, Trail, Present, Decided,
           NoRow, Decisions
  <1> QED
    BY <1>1, <1>2, <1>3, <1>4 DEF IInv

LEMMA IInvStep == IInv /\ [Next]_vars => IInv'
  <1> SUFFICES ASSUME IInv, [Next]_vars PROVE IInv'
    OBVIOUS
  <1>1. TypeOK'
    BY TypeStep DEF IInv
  <1>2. ASSUME NEW r \in Requests, Step(r) PROVE IInv'
    <2>1. Locks' /\ Stamps' /\ Flow'
      BY <1>2, LockStep, StampStep, FlowStep DEF IInv
    <2>2. TrailMatchesFlags' /\ TrailReadsAsHistory'
      BY <1>2, Frame, NothingStored, MatchStep, HistoryStep DEF IInv
    <2> QED
      BY <1>1, <2>1, <2>2 DEF IInv
  <1>3. CASE UNCHANGED vars
    <2>1. Locks' /\ Stamps'
      BY <1>3 DEF vars, IInv, Locks, Stamps
    <2>2. Flow'
      BY <1>3 DEF vars, IInv, Flow, RequestFlow, EntryReady, Staged, Ingesting, Deciding, Present
    <2>3. TrailMatchesFlags' /\ TrailReadsAsHistory'
      BY <1>3, NothingStored DEF vars, IInv
    <2> QED
      BY <1>1, <2>1, <2>2, <2>3 DEF IInv
  <1> QED
    BY <1>2, <1>3 DEF Next, Step, AllServed

THEOREM Invariance == Spec => []IInv
  BY IInvInit, IInvStep, PTL DEF Spec

\* Every row, entry, lock and request of review_app keeps its type.
THEOREM TypeCorrect == Spec => []TypeOK
  BY Invariance, PTL DEF IInv

\* create_flag and decide_flag store a flag and the entry explaining it together or not at all.
THEOREM TrailsMatch == Spec => []TrailMatchesFlags
  BY Invariance, PTL DEF IInv

\* In created_at order a trail begins with FLAGGED and ends with what the flag says.
THEOREM TrailsReadAsHistory == Spec => []TrailReadsAsHistory
  BY Invariance, PTL DEF IInv

-----------------------------------------------------------------------------
\* The invariant holds before and after every step of a behaviour.
LEMMA IInvBoth == Spec => [][IInv /\ IInv']_vars
  BY Invariance, PTL

-----------------------------------------------------------------------------
(* The queue implements the abstract history. *)

LEMMA HistoryInit == Init => History!HInit
  BY DEF Init, History!HInit, NoRow

\* A COMMIT is one step of the history, every other statement none.
LEMMA HistoryNext == IInv /\ IInv' /\ [Next]_vars => [History!HNext]_(History!hvars)
  <1> SUFFICES ASSUME IInv, IInv', [Next]_vars PROVE [History!HNext]_(History!hvars)
    OBVIOUS
  <1> DEFINE status == [t \in Txns |-> flags[t].status]
             decider == [t \in Txns |-> flags[t].decidedBy]
  <1>1. CASE flags' = flags /\ audit' = audit
    BY <1>1 DEF History!hvars
  <1>2. ASSUME NEW r \in Requests, Commit(r) PROVE History!HNext
    <2>1. PICK t \in Txns, e \in Entry :
              /\ e.flag = t /\ e.action = req[r].action /\ e.actor = req[r].actor
              /\ t = req[r].txn /\ Staged(r) /\ req[r].flag.decidedAt < e.at
              /\ \A f \in Trail(t) : f.at < e.at
              /\ e \notin audit /\ audit' = audit \cup {e}
              /\ Trail(t)' = Trail(t) \cup {e} /\ flags'[t] = req[r].flag
              /\ \A u \in Txns \ {t} : Trail(u)' = Trail(u) /\ flags'[u] = flags[u]
      BY <1>2, CommitEffect DEF IInv
    <2>2. /\ status' = [status EXCEPT ![t] = req[r].flag.status]
          /\ decider' = [decider EXCEPT ![t] = req[r].flag.decidedBy]
      BY <2>1
    <2>3. ASSUME NEW what, NEW who, what = e.action, who = e.actor PROVE History!Record(t, what, who)
      <3>1. e \in audit' \ audit /\ e.at \in Nat /\ \A f \in audit : f.flag = t => f.at < e.at
        BY <2>1 DEF Trail, Entry
      <3> QED
        BY <2>1, <2>3, <3>1 DEF History!Record
    <2>4. CASE Ingesting(r) /\ ~Present(t) /\ req[r].flag = PendingRow
      <3>1. status[t] = "ABSENT"
        BY <2>4 DEF Present
      <3>2. /\ status' = [status EXCEPT ![t] = "PENDING"]
            /\ decider' = [decider EXCEPT ![t] = None]
        BY <2>2, <2>4 DEF PendingRow
      <3>3. History!Record(t, "FLAGGED", None)
        BY <2>1, <2>3, <2>4 DEF Ingesting
      <3> QED
        BY <3>1, <3>2, <3>3 DEF History!HNext, History!HFlag
    <2>5. CASE /\ Deciding(r) /\ Present(t)
               /\ req[r].flag.status = req[r].action /\ req[r].flag.decidedBy = req[r].actor
      <3>1. PICK d \in Decisions, who \in Analysts : d = req[r].action /\ who = req[r].actor
        BY <2>5 DEF Deciding
      <3>2. status[t] # "ABSENT"
        BY <2>5 DEF Present
      <3>3. status' = [status EXCEPT ![t] = d] /\ decider' = [decider EXCEPT ![t] = who]
        BY <2>2, <2>5, <3>1
      <3>4. History!Record(t, d, who)
        BY <2>1, <2>3, <3>1
      <3>5. History!HDecide(t, d, who)
        BY <3>2, <3>3, <3>4 DEF History!HDecide
      <3> QED
        BY <3>1, <3>5 DEF History!HNext, History!HDecisions, Decisions
    <2> QED
      BY <2>1, <2>4, <2>5 DEF Staged
  <1> QED
    BY <1>1, <1>2, Frame DEF Next, Step, AllServed, vars, IInv

\* Every behaviour of the review queue, at the level of statements, is a
\* behaviour of the ledger its readers are promised.
THEOREM ImplementsHistory == Spec => HistorySpec
  <1>1. [][IInv /\ IInv']_vars /\ [][Next]_vars => [][History!HNext]_(History!hvars)
    <2>1. (IInv /\ IInv' /\ [Next]_vars) => [History!HNext]_(History!hvars)
      BY HistoryNext
    <2>2. UNCHANGED vars => UNCHANGED History!hvars
      BY DEF vars, History!hvars
    <2> QED
      BY <2>1, <2>2, PTL
  <1> QED
    BY <1>1, IInvBoth, HistoryInit, PTL DEF Spec, HistorySpec, History!HSpec

-----------------------------------------------------------------------------
(* How one statement moves its own request *)

Rejects(r)  == /\ req'[r].stage = "done" /\ req'[r].reply \notin {200, 201}
               /\ req'[r].txn = req[r].txn /\ req'[r].action = req[r].action
Commits(r)  == /\ Commit(r) /\ req'[r].stage = "done" /\ req'[r].reply # 200
               /\ req'[r].reply = 201 => req[r].action = "FLAGGED"
               /\ req'[r].txn = req[r].txn /\ req'[r].action = req[r].action
Shows(r)    == /\ req[r].stage = "page" /\ req'[r].stage = "done" /\ req'[r].reply = 200
               /\ req'[r].entries = {e \in audit : e.flag = req[r].txn}
               /\ req'[r].txn = req[r].txn /\ req'[r].action = req[r].action
               /\ req'[r].flag = req[r].flag
Ingests(r)  == req'[r].stage \in {"insert_txn", "insert_flag"} /\ req'[r].action = "FLAGGED"
Loads(r)    == /\ req'[r].stage \in {"check", "page"} /\ req'[r].txn \in Txns
               /\ req'[r].flag = flags[req'[r].txn] /\ Present(req'[r].txn)
               /\ req'[r].stage = "page" => req'[r].action = "VIEW"
Advances(r) == /\ req'[r].stage \in {"update", "insert_audit", "commit"}
               /\ req'[r].txn = req[r].txn /\ req'[r].action = req[r].action
               /\ \/ req[r].stage = "check" /\ req[r].flag.status = "PENDING"
                  \/ req[r].stage \in {"update", "insert_audit"}
                  \/ req[r].action = "FLAGGED"

LEMMA Moves ==
    ASSUME IInv, NEW r \in Requests, Step(r)
    PROVE  \/ Rejects(r) \/ Commits(r) \/ Shows(r)
           \/ /\ req[r].stage # "done" /\ req'[r].reply = req[r].reply
              /\ Ingests(r) \/ Loads(r) \/ Advances(r)
  <1>0. req[r] \in Request /\ RequestFlow(r)
    BY DEF IInv, TypeOK, Flow
  <1>1. \A q : Becomes(r, q) => req'[r] = q
    BY DEF IInv, TypeOK, Becomes
  <1>2. ASSUME NEW code, Answer(r, code)
        PROVE  /\ req'[r].stage = "done" /\ req'[r].reply = code
               /\ req'[r].txn = req[r].txn /\ req'[r].action = req[r].action
    <2> DEFINE q == [req[r] EXCEPT !.stage = "done", !.reply = code, !.entries = {}]
    <2>1. req'[r] = q
      BY <1>1, <1>2 DEF Answer
    <2> QED
      BY <1>0, <2>1 DEF Request
  <1>3. ASSUME NEW code, code \notin {200, 201}, Answer(r, code) PROVE Rejects(r)
    BY <1>2, <1>3 DEF Rejects
  <1>4. CASE RejectRequest(r)
    <2>1. PICK code \in {302, 400, 401, 405, 409, 500} : Answer(r, code)
      BY <1>4 DEF RejectRequest
    <2> QED
      BY <1>3, <2>1
  <1>5. ASSUME NEW t \in Txns, ReceiveFlag(r, t) PROVE req[r].stage # "done" /\ req'[r].reply = req[r].reply /\ Ingests(r)
    <2> DEFINE q == [req[r] EXCEPT !.stage = "insert_txn", !.txn = t, !.action = "FLAGGED"]
    <2>1. req'[r] = q /\ req[r].stage = "new"
      BY <1>1, <1>5 DEF ReceiveFlag
    <2> QED
      BY <1>0, <2>1 DEF Request, Ingests
  <1>6. ASSUME NEW t \in Txns, NEW d \in Decisions, NEW who \in Analysts, LoadFlag(r, t, d, who)
        PROVE Rejects(r) \/ (req[r].stage # "done" /\ req'[r].reply = req[r].reply /\ Loads(r))
    <2> DEFINE q == [req[r] EXCEPT !.stage = "check", !.txn = t, !.action = d, !.actor = who,
                                   !.flag = flags[t]]
    <2>1. CASE Present(t)
      <3>1. req'[r] = q /\ req[r].stage = "new"
        BY <1>1, <1>6, <2>1 DEF LoadFlag
      <3>2. q.stage = "check" /\ q.txn = t /\ q.flag = flags[t] /\ q.reply = req[r].reply
        BY <1>0 DEF Request
      <3> QED
        BY <2>1, <3>1, <3>2 DEF Loads
    <2> QED
      BY <1>3, <1>6, <2>1 DEF LoadFlag
  <1>7. ASSUME NEW t \in Txns, OpenPage(r, t)
        PROVE Rejects(r) \/ (req[r].stage # "done" /\ req'[r].reply = req[r].reply /\ Loads(r))
    <2> DEFINE q == [req[r] EXCEPT !.stage = "page", !.txn = t, !.action = "VIEW", !.flag = flags[t]]
    <2>1. CASE Present(t)
      <3>1. req'[r] = q /\ req[r].stage = "new"
        BY <1>1, <1>7, <2>1 DEF OpenPage
      <3>2. q.stage = "page" /\ q.txn = t /\ q.flag = flags[t] /\ q.reply = req[r].reply /\ q.action = "VIEW"
        BY <1>0 DEF Request
      <3> QED
        BY <2>1, <3>1, <3>2 DEF Loads
    <2> QED
      BY <1>3, <1>7, <2>1 DEF OpenPage
  <1>8. CASE InsertTransaction(r)
    <2> DEFINE q == [req[r] EXCEPT !.stage = "insert_flag"]
    <2>1. CASE ~Present(req[r].txn)
      <3>1. req'[r] = q /\ req[r].stage = "insert_txn"
        BY <1>1, <1>8, <2>1 DEF InsertTransaction
      <3>2. q.stage = "insert_flag" /\ q.action = req[r].action /\ q.reply = req[r].reply
        BY <1>0 DEF Request
      <3> QED
        BY <1>0, <3>1, <3>2 DEF Ingests, RequestFlow, Ingesting
    <2> QED
      BY <1>3, <1>8, <2>1 DEF InsertTransaction
  <1>9. CASE InsertFlag(r)
    <2> DEFINE q == [req[r] EXCEPT !.stage = "insert_audit", !.flag = PendingRow]
    <2>1. req'[r] = q /\ req[r].stage = "insert_flag"
      BY <1>1, <1>9 DEF InsertFlag
    <2>2. q.stage = "insert_audit" /\ q.txn = req[r].txn /\ q.action = req[r].action /\ q.reply = req[r].reply
      BY <1>0 DEF Request
    <2> QED
      BY <1>0, <2>1, <2>2 DEF Advances, RequestFlow, Ingesting
  <1>10. CASE CheckStatus(r)
    <2> DEFINE q == [req[r] EXCEPT !.stage = "update", !.flag = DecidedRow(r)]
    <2>1. CASE req[r].flag.status = "PENDING"
      <3>1. req'[r] = q /\ req[r].stage = "check"
        BY <1>1, <1>10, <2>1 DEF CheckStatus
      <3>2. q.stage = "update" /\ q.txn = req[r].txn /\ q.action = req[r].action /\ q.reply = req[r].reply
        BY <1>0 DEF Request
      <3> QED
        BY <2>1, <3>1, <3>2 DEF Advances
    <2> QED
      BY <1>3, <1>10, <2>1 DEF CheckStatus
  <1>11. CASE UpdateFlag(r)
    <2> DEFINE q == [req[r] EXCEPT !.stage = "insert_audit"]
    <2>1. req'[r] = q /\ req[r].stage = "update"
      BY <1>1, <1>11 DEF UpdateFlag
    <2>2. q.stage = "insert_audit" /\ q.txn = req[r].txn /\ q.action = req[r].action /\ q.reply = req[r].reply
      BY <1>0 DEF Request
    <2> QED
      BY <2>1, <2>2 DEF Advances
  <1>12. CASE InsertAudit(r)
    <2> DEFINE q == [req[r] EXCEPT !.stage = "commit", !.entries = {AuditRow(r, req[r].action)}]
    <2>1. req'[r] = q /\ req[r].stage = "insert_audit"
      BY <1>1, <1>12 DEF InsertAudit
    <2>2. q.stage = "commit" /\ q.txn = req[r].txn /\ q.action = req[r].action /\ q.reply = req[r].reply
      BY <1>0 DEF Request
    <2> QED
      BY <2>1, <2>2 DEF Advances
  <1>13. CASE Commit(r)
    <2>1. PICK code \in {IF req[r].action = "FLAGGED" THEN 201 ELSE 302, NoReply} : Answer(r, code)
      BY <1>13 DEF Commit
    <2>2. code # 200 /\ (code = 201 => req[r].action = "FLAGGED")
      BY <2>1 DEF NoReply
    <2> QED
      BY <1>2, <1>13, <2>1, <2>2 DEF Commits
  <1>14. CASE ShowTrail(r)
    <2> DEFINE es == {e \in audit : e.flag = req[r].txn}
               q == [req[r] EXCEPT !.stage = "done", !.reply = 200, !.entries = es]
    <2>1. req'[r] = q /\ req[r].stage = "page"
      BY <1>1, <1>14 DEF ShowTrail, Trail
    <2>2. /\ q.stage = "done" /\ q.reply = 200 /\ q.entries = es /\ q.txn = req[r].txn
          /\ q.action = req[r].action /\ q.flag = req[r].flag
      BY <1>0 DEF Request
    <2> QED
      BY <2>1, <2>2 DEF Shows
  <1>15. CASE Fail(r)
    <2>1. PICK code \in {500, NoReply} : Answer(r, code)
      BY <1>15 DEF Fail
    <2> QED
      BY <1>3, <2>1 DEF NoReply
  <1> QED
    BY <1>4, <1>5, <1>6, <1>7, <1>8, <1>9, <1>10, <1>11, <1>12, <1>13, <1>14, <1>15
    DEF Step, Receive, Proceed

-----------------------------------------------------------------------------
(* A decision is final. *)

\* Once decided and with no stale reader left, a flag stays as it is.
LEMMA FinalStep ==
    ASSUME IInv, NEW r \in Requests, Step(r), NEW t \in Txns, Decided(t), ~StaleDecider(t)
    PROVE  flags'[t] = flags[t] /\ Trail(t)' = Trail(t) /\ ~StaleDecider(t)'
  <1>1. flags'[t] = flags[t] /\ Trail(t)' = Trail(t)
    <2>1. CASE Commit(r)
      <3>1. PICK u \in Txns, e \in Entry :
              /\ e.flag = u /\ e.action = req[r].action /\ e.actor = req[r].actor
              /\ u = req[r].txn /\ Staged(r) /\ req[r].flag.decidedAt < e.at
              /\ \A f \in Trail(u) : f.at < e.at
              /\ e \notin audit /\ audit' = audit \cup {e}
              /\ Trail(u)' = Trail(u) \cup {e} /\ flags'[u] = req[r].flag
              /\ \A v \in Txns \ {u} : Trail(v)' = Trail(v) /\ flags'[v] = flags[v]
        BY <2>1, CommitEffect DEF IInv
      <3>2. req[r].stage = "commit"
        BY <2>1 DEF Commit
      <3>3. t # u
        BY <3>1, <3>2 DEF Staged, Deciding, StaleDecider, Present, Decided, Decisions
      <3> QED
        BY <3>1, <3>3
    <2>2. CASE flags' = flags /\ audit' = audit
      BY <2>2 DEF Trail
    <2> QED
      BY <2>1, <2>2, Frame DEF IInv
  <1>2. ASSUME NEW s \in Requests, req'[s].txn = t, req'[s].action \in Decisions,
               \/ req'[s].stage = "check" /\ req'[s].flag.status = "PENDING"
               \/ req'[s].stage \in {"update", "insert_audit", "commit"}
        PROVE FALSE
    <2>1. CASE s # r
      BY <1>2, <2>1, Frame DEF IInv, StaleDecider
    <2>2. CASE s = r
      <3>1. ~Rejects(r) /\ ~Commits(r) /\ ~Shows(r) /\ ~Ingests(r)
        BY <1>2, <2>2 DEF Rejects, Commits, Shows, Ingests
      <3>2. CASE Loads(r)
        BY <1>2, <2>2, <3>2 DEF Loads, Decided, Decisions
      <3>3. CASE Advances(r)
        BY <1>2, <2>2, <3>3 DEF Advances, StaleDecider, Decisions
      <3> QED
        BY <3>1, <3>2, <3>3, Moves
    <2> QED
      BY <2>1, <2>2
  <1>3. ~StaleDecider(t)'
    BY <1>2 DEF StaleDecider
  <1> QED
    BY <1>1, <1>3

\* decide_flag refuses a decided flag: once its last stale reader is gone, a
\* decision and its trail never change again.
THEOREM DecisionsAreFinal == Spec => DecisionIsFinal
  <1> DEFINE Final == \A t \in Txns : Decided(t) /\ ~StaleDecider(t) =>
                         flags'[t] = flags[t] /\ Trail(t)' = Trail(t) /\ ~StaleDecider(t)'
  <1>1. IInv /\ [Next]_vars => [Final]_vars
    BY FinalStep DEF Next, Step, AllServed
  <1>2. Spec => [][Final]_vars
    BY <1>1, Invariance, PTL DEF Spec
  <1> QED
    BY <1>2 DEF DecisionIsFinal

-----------------------------------------------------------------------------
(* Answers *)

\* Only a request that is done has an answer.
Answered == \A r \in Requests : req[r].reply # NoReply => req[r].stage = "done"

\* A 201 names a transaction.
Named == \A r \in Requests : req[r].reply = 201 => req[r].txn \in Txns

\* What a page has loaded is explained by the trail it is about to print.
Explains(row, es) ==
    /\ \E e \in es : e.action = "FLAGGED"
    /\ row.status \in Decisions =>
          \E e \in es : e.action = row.status /\ e.actor = row.decidedBy
PageReady ==
    \A r \in Requests : req[r].stage = "page" =>
        req[r].action = "VIEW" /\ Explains(req[r].flag, Trail(req[r].txn))

AInv == Answered /\ Named /\ CreatedOnce /\ PageReady /\ PageAddsUp

LEMMA CreatedStep ==
    ASSUME IInv, Answered, Named, CreatedOnce, NEW r \in Requests, Step(r)
    PROVE  Answered' /\ Named' /\ CreatedOnce'
  <1> DEFINE There(t) == flags'[t].status # "ABSENT"
  <1>1. \A s \in Requests \ {r} : req'[s] = req[s]
    BY Frame DEF IInv
  <1>2. ASSUME NEW t \in Txns, Present(t) PROVE There(t)
    <2>1. CASE Commit(r)
      BY <1>2, <2>1, CommitEffect DEF IInv, Present, Staged, PendingRow, Deciding, Decisions
    <2>2. CASE flags' = flags
      BY <1>2, <2>2 DEF Present
    <2> QED
      BY <2>1, <2>2, Frame DEF IInv
  <1>3. Answered'
    BY <1>1, Moves DEF Answered, Rejects, Commits, Shows
  <1>4. CASE Commits(r) /\ req'[r].reply = 201
    <2>1. PICK t \in Txns : t = req[r].txn /\ ~Present(t) /\ flags'[t] = PendingRow
      BY <1>4, CommitEffect DEF IInv, Commits, Staged, Deciding, Decisions
    <2>2. req'[r].txn = t /\ There(t)
      BY <1>4, <2>1 DEF PendingRow, Commits
    <2>3. ASSUME NEW s \in Requests \ {r}, req'[s].reply = 201
          PROVE  req'[s].txn \in Txns /\ req'[s].txn # t /\ There(req'[s].txn)
      <3>1. req'[s] = req[s] /\ req[s].txn \in Txns /\ Present(req[s].txn)
        BY <1>1, <2>3 DEF CreatedOnce, Named
      <3> QED
        BY <1>2, <2>1, <3>1
    <2>4. ASSUME NEW s \in Requests \ {r}, NEW q \in Requests \ {r}, req'[s].reply = 201,
                 req'[q].reply = 201, req'[q].txn = req'[s].txn
          PROVE  q = s
      BY <1>1, <2>4 DEF CreatedOnce
    <2> QED
      BY <1>3, <2>1, <2>2, <2>3, <2>4 DEF CreatedOnce, Named, Present
  <1>5. CASE req'[r].reply # 201
    <2>1. ASSUME NEW s \in Requests, req'[s].reply = 201
          PROVE  req'[s] = req[s] /\ req[s].txn \in Txns /\ There(req[s].txn)
      BY <1>1, <1>2, <1>5, <2>1 DEF CreatedOnce, Named
    <2> QED
      BY <1>3, <2>1 DEF CreatedOnce, Named, Present
  <1>6. CASE req[r].stage # "done" /\ req'[r].reply = req[r].reply
    <2>1. req'[r].reply # 201
      BY <1>6 DEF Answered, NoReply
    <2> QED
      BY <1>5, <2>1
  <1> QED
    BY <1>4, <1>5, <1>6, Moves DEF Rejects, Commits, Shows

\* Trails only grow.
LEMMA TrailsGrow ==
    ASSUME IInv, NEW r \in Requests, Step(r), NEW t
    PROVE  {e \in audit : e.flag = t} \subseteq {e \in audit' : e.flag = t}
  BY Frame, CommitEffect DEF IInv

\* The row a page loads is explained by the trail committed at that moment.
LEMMA LoadedIsExplained ==
    ASSUME IInv, NEW t \in Txns, Present(t)
    PROVE  Explains(flags[t], Trail(t))
  BY DEF IInv, TrailMatchesFlags, TrailReadsAsHistory, DecisionsOn, Explains, Decided

LEMMA PageStep ==
    ASSUME IInv, Answered, PageReady, PageAddsUp, NEW r \in Requests, Step(r)
    PROVE  PageReady' /\ PageAddsUp'
  <1> DEFINE Held(t) == {e \in audit : e.flag = t}
             HeldNext(t) == {e \in audit' : e.flag = t}
             Ready(s) == req'[s].stage = "page" =>
                            req'[s].action = "VIEW" /\ Explains(req'[s].flag, HeldNext(req'[s].txn))
             AddsUp(s) == req'[s].action = "VIEW" /\ req'[s].reply = 200 =>
                            Explains(req'[s].flag, req'[s].entries)
  <1>1. ASSUME NEW row, NEW es, NEW more, es \subseteq more, Explains(row, es) PROVE Explains(row, more)
    BY <1>1 DEF Explains
  <1>2. \A t : Held(t) \subseteq HeldNext(t)
    BY TrailsGrow
  <1>3. ASSUME NEW s \in Requests \ {r} PROVE Ready(s) /\ AddsUp(s)
    <2>1. req'[s] = req[s]
      BY Frame DEF IInv
    <2>2. AddsUp(s)
      BY <2>1 DEF PageAddsUp, Explains
    <2>3. Ready(s)
      <3>1. SUFFICES ASSUME req[s].stage = "page"
                     PROVE  req[s].action = "VIEW" /\ Explains(req[s].flag, HeldNext(req[s].txn))
        BY <2>1
      <3>2. req[s].action = "VIEW" /\ Explains(req[s].flag, Held(req[s].txn))
        BY <3>1 DEF PageReady, Trail
      <3> QED
        BY <1>1, <1>2, <3>2
    <2> QED
      BY <2>2, <2>3
  <1>4. Ready(r) /\ AddsUp(r)
    <2>1. CASE Rejects(r) \/ Commits(r)
      BY <2>1 DEF Rejects, Commits
    <2>2. CASE Shows(r)
      BY <2>2 DEF Shows, PageReady, Trail
    <2>3. CASE req[r].stage # "done" /\ req'[r].reply = req[r].reply
      <3>1. req'[r].reply # 200
        BY <2>3 DEF Answered, NoReply
      <3>2. CASE Ingests(r) \/ Advances(r)
        BY <3>1, <3>2 DEF Ingests, Advances
      <3>3. CASE Loads(r)
        <4>1. PICK t \in Txns : t = req'[r].txn /\ req'[r].flag = flags[t] /\ Present(t)
          BY <3>3 DEF Loads
        <4>2. Explains(flags[t], Held(t))
          BY <4>1, LoadedIsExplained DEF Trail
        <4>3. Explains(flags[t], HeldNext(t))
          BY <1>1, <1>2, <4>2
        <4> QED
          BY <3>1, <3>3, <4>1, <4>3 DEF Loads
      <3> QED
        BY <2>1, <2>2, <3>2, <3>3, Moves
    <2> QED
      BY <2>1, <2>2, <2>3, Moves
  <1>5. \A s \in Requests : Ready(s) /\ AddsUp(s)
    BY <1>3, <1>4
  <1>6. PageAddsUp'
    BY <1>5 DEF PageAddsUp, Explains
  <1>7. PageReady'
    BY <1>5 DEF PageReady, Trail
  <1> QED
    BY <1>6, <1>7

LEMMA AInvInit == Init => AInv
  BY DEF Init, AInv, Answered, Named, CreatedOnce, PageReady, PageAddsUp, NewRequest, NoReply

LEMMA AInvStep == IInv /\ AInv /\ [Next]_vars => AInv'
  <1> SUFFICES ASSUME IInv, AInv, [Next]_vars PROVE AInv'
    OBVIOUS
  <1>1. ASSUME NEW r \in Requests, Step(r) PROVE AInv'
    BY <1>1, CreatedStep, PageStep DEF AInv
  <1>2. CASE UNCHANGED vars
    <2>1. Answered' /\ Named' /\ CreatedOnce' /\ PageAddsUp'
      BY <1>2 DEF vars, AInv, Answered, Named, CreatedOnce, PageAddsUp, Present
    <2>2. PageReady'
      BY <1>2 DEF vars, AInv, PageReady, Explains, Trail
    <2> QED
      BY <2>1, <2>2 DEF AInv
  <1> QED
    BY <1>1, <1>2 DEF Next, Step, AllServed

LEMMA Answers == Spec => []AInv
  BY AInvInit, AInvStep, Invariance, PTL DEF Spec

\* A transaction id posted any number of times is created once (create_flag).
THEOREM CreatedExactlyOnce == Spec => []CreatedOnce
  BY Answers, PTL DEF AInv

\* The two queries of transaction_detail never print a decision without its entry.
THEOREM PagesAddUp == Spec => []PageAddsUp
  BY Answers, PTL DEF AInv

-----------------------------------------------------------------------------
(* Why EveryRequestEnds needs no more than that a worker goes on: requests *)
(* wait only for requests that wait for nobody, and have few statements.   *)

\* A request that was received and has not been answered.
Open(r) == req[r].stage \notin {"new", "done"}

\* InsertTransaction and UpdateFlag wait for the key or the row.
Waits(r) == req[r].stage \in {"insert_txn", "update"} /\ lock[req[r].txn] # None

WaitsAreShort ==
    \A r \in Requests : Open(r) =>
        \/ ~Waits(r)
        \/ /\ lock[req[r].txn] \in Requests \ {r}
           /\ Open(lock[req[r].txn]) /\ ~Waits(lock[req[r].txn])

\* The statements a request at this stage has left, at most.
Left == [stage \in Stages |->
            CASE stage = "new" -> 5
              [] stage \in {"check", "insert_txn"} -> 4
              [] stage \in {"update", "insert_flag"} -> 3
              [] stage = "insert_audit" -> 2
              [] stage \in {"commit", "page"} -> 1
              [] stage = "done" -> 0]

StatementsRunOut ==
    [][\A r \in Requests : req'[r] = req[r] \/ Left[req'[r].stage] < Left[req[r].stage]]_vars

LEMMA LeftValues ==
    /\ Left["new"] = 5 /\ Left["check"] = 4 /\ Left["insert_txn"] = 4
    /\ Left["update"] = 3 /\ Left["insert_flag"] = 3 /\ Left["insert_audit"] = 2
    /\ Left["commit"] = 1 /\ Left["page"] = 1 /\ Left["done"] = 0
  BY DEF Left, Stages

LEMMA LeftStep ==
    ASSUME TypeOK, NEW r \in Requests, Step(r)
    PROVE  Left[req'[r].stage] < Left[req[r].stage]
  <1>0. req[r] \in Request /\ req[r].stage \in Stages
    BY DEF TypeOK, Request
  <1>1. ASSUME NEW q, Becomes(r, q), Left[q.stage] < Left[req[r].stage]
        PROVE  Left[req'[r].stage] < Left[req[r].stage]
    BY <1>1 DEF TypeOK, Becomes
  <1>2. ASSUME NEW code, Answer(r, code), req[r].stage # "done"
        PROVE  Left[req'[r].stage] < Left[req[r].stage]
    <2> DEFINE q == [req[r] EXCEPT !.stage = "done", !.reply = code, !.entries = {}]
    <2>1. q.stage = "done"
      BY <1>0 DEF Request
    <2>2. Left[q.stage] < Left[req[r].stage]
      BY <1>0, <1>2, <2>1, LeftValues DEF Stages
    <2> QED
      BY <1>1, <1>2, <2>2 DEF Answer
  <1>3. CASE RejectRequest(r)
    BY <1>2, <1>3 DEF RejectRequest
  <1>4. ASSUME NEW t \in Txns, ReceiveFlag(r, t)
        PROVE  Left[req'[r].stage] < Left[req[r].stage]
    <2> DEFINE q == [req[r] EXCEPT !.stage = "insert_txn", !.txn = t, !.action = "FLAGGED"]
    <2>1. q.stage = "insert_txn"
      BY <1>0 DEF Request
    <2>2. Left[q.stage] < Left[req[r].stage]
      BY <1>4, <2>1, LeftValues DEF ReceiveFlag
    <2> QED
      BY <1>1, <1>4, <2>2 DEF ReceiveFlag
  <1>5. ASSUME NEW t \in Txns, NEW d \in Decisions, NEW who \in Analysts, LoadFlag(r, t, d, who)
        PROVE  Left[req'[r].stage] < Left[req[r].stage]
    <2> DEFINE q == [req[r] EXCEPT !.stage = "check", !.txn = t, !.action = d, !.actor = who,
                             !.flag = flags[t]]
    <2>1. q.stage = "check"
      BY <1>0 DEF Request
    <2>2. Left[q.stage] < Left[req[r].stage]
      BY <1>5, <2>1, LeftValues DEF LoadFlag
    <2> QED
      BY <1>1, <1>2, <1>5, <2>2 DEF LoadFlag
  <1>6. ASSUME NEW t \in Txns, OpenPage(r, t)
        PROVE  Left[req'[r].stage] < Left[req[r].stage]
    <2> DEFINE q == [req[r] EXCEPT !.stage = "page", !.txn = t, !.action = "VIEW", !.flag = flags[t]]
    <2>1. q.stage = "page"
      BY <1>0 DEF Request
    <2>2. Left[q.stage] < Left[req[r].stage]
      BY <1>6, <2>1, LeftValues DEF OpenPage
    <2> QED
      BY <1>1, <1>2, <1>6, <2>2 DEF OpenPage
  <1>7. CASE InsertTransaction(r)
    <2> DEFINE q == [req[r] EXCEPT !.stage = "insert_flag"]
    <2>1. q.stage = "insert_flag"
      BY <1>0 DEF Request
    <2>2. Left[q.stage] < Left[req[r].stage]
      BY <1>7, <2>1, LeftValues DEF InsertTransaction
    <2> QED
      BY <1>1, <1>2, <1>7, <2>2 DEF InsertTransaction
  <1>8. CASE InsertFlag(r)
    <2> DEFINE q == [req[r] EXCEPT !.stage = "insert_audit", !.flag = PendingRow]
    <2>1. q.stage = "insert_audit"
      BY <1>0 DEF Request
    <2>2. Left[q.stage] < Left[req[r].stage]
      BY <1>8, <2>1, LeftValues DEF InsertFlag
    <2> QED
      BY <1>1, <1>8, <2>2 DEF InsertFlag
  <1>9. CASE CheckStatus(r)
    <2> DEFINE q == [req[r] EXCEPT !.stage = "update", !.flag = DecidedRow(r)]
    <2>1. q.stage = "update"
      BY <1>0 DEF Request
    <2>2. Left[q.stage] < Left[req[r].stage]
      BY <1>9, <2>1, LeftValues DEF CheckStatus
    <2> QED
      BY <1>1, <1>2, <1>9, <2>2 DEF CheckStatus
  <1>10. CASE UpdateFlag(r)
    <2> DEFINE q == [req[r] EXCEPT !.stage = "insert_audit"]
    <2>1. q.stage = "insert_audit"
      BY <1>0 DEF Request
    <2>2. Left[q.stage] < Left[req[r].stage]
      BY <1>10, <2>1, LeftValues DEF UpdateFlag
    <2> QED
      BY <1>1, <1>10, <2>2 DEF UpdateFlag
  <1>11. CASE InsertAudit(r)
    <2> DEFINE q == [req[r] EXCEPT !.stage = "commit", !.entries = {AuditRow(r, req[r].action)}]
    <2>1. q.stage = "commit"
      BY <1>0 DEF Request
    <2>2. Left[q.stage] < Left[req[r].stage]
      BY <1>11, <2>1, LeftValues DEF InsertAudit
    <2> QED
      BY <1>1, <1>11, <2>2 DEF InsertAudit
  <1>12. CASE Commit(r)
    BY <1>2, <1>12 DEF Commit
  <1>13. CASE ShowTrail(r)
    <2> DEFINE q == [req[r] EXCEPT !.stage = "done", !.reply = 200, !.entries = Trail(req[r].txn)]
    <2>1. q.stage = "done"
      BY <1>0 DEF Request
    <2>2. Left[q.stage] < Left[req[r].stage]
      BY <1>13, <2>1, LeftValues DEF ShowTrail
    <2> QED
      BY <1>1, <1>13, <2>2 DEF ShowTrail
  <1>14. CASE Fail(r)
    BY <1>2, <1>14 DEF Fail
  <1> QED
    BY <1>3, <1>4, <1>5, <1>6, <1>7, <1>8, <1>9, <1>10, <1>11, <1>12, <1>13, <1>14
    DEF Step, Receive, Proceed

\* A request that waits for a key or a row waits for another one that holds it
\* exclusively, is not done, and waits for nobody.  What this leaves to MySQL is the
\* INSERTs that a rollback of the holder finds waiting (see InsertTransaction).
THEOREM HoldersWaitForNobody == Spec => []WaitsAreShort
  <1>1. IInv => WaitsAreShort
    <2> SUFFICES ASSUME IInv, NEW r \in Requests, Open(r), Waits(r)
                 PROVE  /\ lock[req[r].txn] \in Requests \ {r}
                        /\ Open(lock[req[r].txn]) /\ ~Waits(lock[req[r].txn])
      BY DEF WaitsAreShort
    <2>1. req[r].txn \in Txns
      BY DEF IInv, Flow, RequestFlow, Open
    <2>2. PICK s \in Requests : s = lock[req[r].txn]
      BY <2>1 DEF IInv, TypeOK, Waits
    <2>3. req[s].stage \in Writing
      BY <2>1, <2>2 DEF IInv, Locks, Waits
    <2> QED
      BY <2>2, <2>3 DEF Writing, Open, Waits
  <1> QED
    BY <1>1, Invariance, PTL

\* No request returns to an earlier statement or is moved by another's, so it
\* runs five at most.
THEOREM RequestsRunOut == Spec => StatementsRunOut
  <1>1. IInv /\ [Next]_vars =>
            [\A r \in Requests : req'[r] = req[r] \/ Left[req'[r].stage] < Left[req[r].stage]]_vars
    <2> SUFFICES ASSUME IInv, Next
                 PROVE  \A r \in Requests : req'[r] = req[r] \/ Left[req'[r].stage] < Left[req[r].stage]
      OBVIOUS
    <2>1. ASSUME NEW s \in Requests, Step(s), NEW r \in Requests
          PROVE  req'[r] = req[r] \/ Left[req'[r].stage] < Left[req[r].stage]
      BY <2>1, Frame, LeftStep DEF IInv
    <2>2. CASE AllServed
      BY <2>2 DEF AllServed, vars
    <2> QED
      BY <2>1, <2>2 DEF Next, Step
  <1> QED
    BY <1>1, Invariance, PTL DEF Spec, StatementsRunOut
=============================================================================
