-------------------------- MODULE AdminConsoleProofs --------------------------
(***************************************************************************)
(* Proofs about the review queue with its Django admin, for any sets of    *)
(* transactions, users, requests and forms.  What a request goes by (Locks,*)
(* Stamps and Flow of ReviewQueueProofs) survives every admin POST, since  *)
(* a POST writes only rows no open transaction holds and takes a flag away *)
(* only together with the requests that were about to write it.            *)
(***************************************************************************)
EXTENDS AdminConsole, ReviewQueueProofs

-----------------------------------------------------------------------------
\* Who is about to be named by a COMMIT still exists.
Backed == \A r \in Requests : req[r].stage \in {"insert_audit", "commit"} => req[r].actor \in OrNull(users)

\* Nobody is writing a transaction that has no flag.
Unheld == \A t \in bare : lock[t] = None

QueueInv == TypeOK /\ Locks /\ Stamps /\ Flow

\* A deletion is only allowed to start on a transaction without entries.
Aimed == \A f \in Forms : form[f].stage \in Deletions => form[f].txn \in Txns /\ form[f].listed = {}

AdminInv == AdminTypeOK /\ QueueInv /\ Backed /\ Unheld /\ NamedUsersExist

-----------------------------------------------------------------------------
(* Statements of requests *)

\* A request names a transaction whose key nobody holds before it takes a lock.
LEMMA TakesLock ==
    ASSUME QueueInv, NEW r \in Requests, Step(r), NEW t \in Txns, lock[t] = None, lock'[t] # None
    PROVE  /\ t = req[r].txn /\ (InsertTransaction(r) \/ UpdateFlag(r))
           /\ ~Receive(r) /\ ~Fail(r)
  <1>1. CASE Receive(r)
    BY <1>1 DEF Receive, RejectRequest, ReceiveFlag, LoadFlag, OpenPage
  <1>2. CASE InsertFlag(r) \/ CheckStatus(r) \/ InsertAudit(r) \/ ShowTrail(r)
    BY <1>2 DEF InsertFlag, CheckStatus, InsertAudit, ShowTrail
  <1>3. CASE Release(r)
    BY <1>3 DEF Release
  <1>4. ASSUME InsertTransaction(r) \/ UpdateFlag(r) PROVE t = req[r].txn
    BY <1>4 DEF InsertTransaction, UpdateFlag, QueueInv, TypeOK
  <1> QED
    BY <1>1, <1>2, <1>3, <1>4 DEF Step, Proceed, Commit, Fail

\* A request gets to its audit entry from its INSERT of the flag or from its
\* UPDATE, and keeps the actor it came with.
LEMMA TakesActor ==
    ASSUME QueueInv, NEW r \in Requests, Step(r), req'[r].stage \in {"insert_audit", "commit"}
    PROVE  /\ req'[r].actor = req[r].actor
           /\ req[r].stage \in {"insert_flag", "insert_audit", "update"}
           /\ ~Receive(r) /\ ~Fail(r)
  <1>0. req[r] \in Request
    BY DEF QueueInv, TypeOK
  <1>1. \A q : Becomes(r, q) => req'[r] = q
    BY DEF QueueInv, TypeOK, Becomes
  <1>2. \A code : ~Answer(r, code)
    <2> SUFFICES ASSUME NEW code, Answer(r, code) PROVE FALSE
      OBVIOUS
    <2> DEFINE q == [req[r] EXCEPT !.stage = "done", !.reply = code, !.entries = {}]
    <2>1. req'[r] = q /\ q.stage = "done"
      BY <1>0, <1>1 DEF Request, Answer
    <2> QED
      BY <2>1
  <1>3. ~Receive(r)
    <2>1. \A t : ~ReceiveFlag(r, t)
      BY <1>0, <1>1 DEF ReceiveFlag, Request
    <2>2. \A t, d, who : ~LoadFlag(r, t, d, who)
      BY <1>0, <1>1, <1>2 DEF LoadFlag, Request
    <2>3. \A t : ~OpenPage(r, t)
      BY <1>0, <1>1, <1>2 DEF OpenPage, Request
    <2> QED
      BY <1>2, <2>1, <2>2, <2>3 DEF Receive, RejectRequest
  <1>4. ~InsertTransaction(r) /\ ~CheckStatus(r) /\ ~ShowTrail(r)
    BY <1>0, <1>1, <1>2 DEF InsertTransaction, CheckStatus, ShowTrail, Request
  <1>5. ~Commit(r) /\ ~Fail(r)
    BY <1>2 DEF Commit, Fail
  <1>6. CASE InsertFlag(r) \/ UpdateFlag(r) \/ InsertAudit(r)
    <2>1. CASE InsertFlag(r)
      BY <1>0, <1>1, <1>3, <1>5, <2>1 DEF InsertFlag, Request
    <2>2. CASE UpdateFlag(r)
      BY <1>0, <1>1, <1>3, <1>5, <2>2 DEF UpdateFlag, Request
    <2>3. CASE InsertAudit(r)
      BY <1>0, <1>1, <1>3, <1>5, <2>3 DEF InsertAudit, Request
    <2> QED
      BY <1>6, <2>1, <2>2, <2>3
  <1> QED
    BY <1>3, <1>4, <1>5, <1>6 DEF Step, Proceed

\* A statement of a request whose user exists, on a transaction that is not
\* bare when it is about to be inserted.
LEMMA QueueKeeps ==
    ASSUME AdminInv, NEW r \in Requests, QueueStep(r), UNCHANGED <<users, bare, form>>
    PROVE  AdminInv'
  <1>0. TypeOK /\ Locks /\ Stamps /\ Flow /\ QueueInv /\ Step(r)
    BY DEF AdminInv, QueueInv, QueueStep, Step
  <1>1. TypeOK' /\ QueueInv'
    <2>1. TypeOK'
      BY <1>0, TypeStep DEF Step, Next
    <2> QED
      BY <1>0, <2>1, LockStep, StampStep, FlowStep DEF QueueInv
  <1>2. Unheld'
    <2> SUFFICES ASSUME NEW t \in bare, lock'[t] # None PROVE FALSE
      BY DEF Unheld
    <2>1. t \in Txns /\ ~Present(t) /\ lock[t] = None
      BY DEF AdminInv, AdminTypeOK, Unheld
    <2>2. /\ t = req[r].txn /\ (InsertTransaction(r) \/ UpdateFlag(r))
          /\ req[r].stage = "insert_txn" => req[r].txn \notin bare
      BY <1>0, <2>1, TakesLock DEF QueueStep
    <2>3. CASE InsertTransaction(r)
      BY <2>2, <2>3 DEF InsertTransaction
    <2>4. CASE UpdateFlag(r)
      BY <1>0, <2>1, <2>2, <2>4 DEF UpdateFlag, Flow, RequestFlow, Staged, Ingesting, Deciding, Decisions
    <2> QED
      BY <2>2, <2>3, <2>4
  <1>3. AdminTypeOK'
    <2>1. ASSUME NEW t \in bare PROVE ~Present(t)'
      <3>1. t \in Txns /\ ~Present(t) /\ lock[t] = None
        BY DEF AdminInv, AdminTypeOK, Unheld
      <3>2. CASE Commit(r)
        <4>1. req[r].txn # t
          BY <1>0, <3>1, <3>2, NoneAssumption DEF Commit, Locks, Writing
        <4> QED
          BY <1>0, <3>1, <3>2, <4>1 DEF Commit, Present, TypeOK
      <3>3. CASE flags' = flags
        BY <3>1, <3>3 DEF Present
      <3> QED
        BY <1>0, <3>2, <3>3, Frame
    <2> QED
      BY <1>1, <2>1 DEF AdminTypeOK, AdminInv
  <1>4. Backed'
    <2>1. ASSUME NEW s \in Requests, req'[s].stage \in {"insert_audit", "commit"}
          PROVE  req'[s].actor \in OrNull(users)
      <3>1. CASE s # r
        BY <1>0, <2>1, <3>1, Frame DEF AdminInv, Backed
      <3>2. CASE s = r
        <4>1. /\ req'[r].actor = req[r].actor
              /\ req[r].stage \in {"insert_flag", "insert_audit"} \/ req[r].actor \in users
          BY <1>0, <2>1, <3>2, TakesActor DEF QueueStep
        <4>2. req[r].stage = "insert_flag" => req[r].actor = None
          BY <1>0 DEF Flow, RequestFlow, Ingesting
        <4> QED
          BY <3>2, <4>1, <4>2 DEF AdminInv, Backed, OrNull
      <3> QED
        BY <3>1, <3>2
    <2> QED
      BY <2>1 DEF Backed, OrNull
  <1>5. NamedUsersExist'
    <2>1. CASE Commit(r)
      <3>1. PICK t \in Txns, e \in Entry :
              /\ e.flag = t /\ e.action = req[r].action /\ e.actor = req[r].actor
              /\ t = req[r].txn /\ Staged(r) /\ req[r].flag.decidedAt < e.at
              /\ \A f \in Trail(t) : f.at < e.at
              /\ e \notin audit /\ audit' = audit \cup {e}
              /\ Trail(t)' = Trail(t) \cup {e} /\ flags'[t] = req[r].flag
              /\ \A u \in Txns \ {t} : Trail(u)' = Trail(u) /\ flags'[u] = flags[u]
        BY <1>0, <2>1, CommitEffect
      <3>2. req[r].actor \in OrNull(users)
        BY <2>1 DEF Commit, AdminInv, Backed
      <3>3. req[r].flag.decidedBy \in OrNull(users)
        BY <3>1, <3>2 DEF Staged, PendingRow, OrNull
      <3> QED
        BY <3>1, <3>2, <3>3 DEF AdminInv, NamedUsersExist, OrNull
    <2>2. CASE flags' = flags /\ audit' = audit
      BY <2>2 DEF AdminInv, NamedUsersExist, OrNull
    <2> QED
      BY <1>0, <2>1, <2>2, Frame
  <1> QED
    BY <1>1, <1>2, <1>3, <1>4, <1>5 DEF AdminInv

\* The request whose transaction the admin made first is refused.
LEMMA RefuseKeeps ==
    ASSUME AdminInv, NEW r \in Requests, RefuseBare(r), UNCHANGED <<users, bare, form>>
    PROVE  AdminInv'
  <1> DEFINE q == [req[r] EXCEPT !.stage = "done", !.reply = 409, !.entries = {}]
  <1>0. TypeOK /\ Locks /\ Flow /\ req[r] \in Request
    BY DEF AdminInv, QueueInv, TypeOK
  <1>1. q.stage = "done" /\ Becomes(r, q) /\ req' = [req EXCEPT ![r] = q]
    BY <1>0 DEF Request, RefuseBare, Answer, Becomes
  <1>2. req'[r] = q /\ \A s \in Requests \ {r} : req'[s] = req[s]
    BY <1>0, <1>1 DEF TypeOK
  <1>3. TypeOK'
    BY <1>0, AnswerType DEF RefuseBare, TypeOK, Replies
  <1>4. Locks'
    BY <1>0, <1>1, LocksKept DEF RefuseBare, Writing
  <1>5. Flow'
    <2>1. ASSUME NEW s \in Requests \ {r} PROVE RequestFlow(s)'
      BY <1>0, <1>2, <2>1 DEF RefuseBare, Flow, RequestFlow, Staged, Ingesting, Deciding, Present, EntryReady
    <2>2. RequestFlow(r)'
      BY <1>1, <1>2 DEF RequestFlow
    <2> QED
      BY <2>1, <2>2 DEF Flow
  <1>6. AdminTypeOK' /\ Stamps' /\ Unheld' /\ NamedUsersExist'
    BY <1>3 DEF AdminInv, QueueInv, RefuseBare, AdminTypeOK, Stamps, Unheld, NamedUsersExist, OrNull, Present
  <1>7. Backed'
    BY <1>1, <1>2 DEF AdminInv, Backed, OrNull
  <1> QED
    BY <1>3, <1>4, <1>5, <1>6, <1>7 DEF AdminInv, QueueInv

-----------------------------------------------------------------------------
(* The admin's POSTs *)

\* What a POST may do to a request: end it, if it was about to read or change
\* a flag that is gone.
Ended(s) == req[s].stage \in {"check", "update", "page"} /\ req'[s].stage = "done"

\* A POST that creates and deletes no flag another transaction holds, puts no
\* new entry on its trail, and ends the requests of a flag it deletes, disturbs
\* nothing requests go by.
LEMMA PostKeeps ==
    ASSUME QueueInv, TypeOK', lock' = lock, clock <= clock',
           \A t \in Txns : lock[t] # None => (Present(t)' <=> Present(t)),
           \A s \in Requests :
              \/ Ended(s)
              \/ /\ req'[s] = req[s]
                 /\ req[s].stage \in {"check", "update"} => flags'[req[s].txn].status # "ABSENT",
           \A f \in audit' : /\ f.at <= clock'
                             /\ lock[f.flag] # None => \E g \in audit : g.flag = f.flag /\ g.at = f.at
    PROVE  QueueInv'
  <1>0. TypeOK /\ Locks /\ Stamps /\ Flow
    BY DEF QueueInv
  <1>1. Locks'
    <2>1. \A s \in Requests : req'[s].stage \in Writing => req'[s] = req[s]
      BY DEF Ended, Writing
    <2>2. \A s \in Requests : req[s].stage \in Writing => req'[s] = req[s]
      BY DEF Ended, Writing
    <2> QED
      BY <1>0, <2>1, <2>2 DEF Locks, TypeOK
  <1>2. Stamps'
    BY DEF Stamps
  <1>3. ASSUME NEW s \in Requests, req'[s] = req[s], req[s].stage # "done" PROVE RequestFlow(s)'
    <2>0. RequestFlow(s) /\ clock \in Nat /\ clock' \in Nat
      BY <1>0 DEF Flow, TypeOK
    <2>1. req[s].stage \in Writing => req[s].txn \in Txns /\ lock[req[s].txn] # None
      BY <1>0, NoneAssumption DEF Locks
    <2>2. req[s].stage \in Writing => (Present(req[s].txn)' <=> Present(req[s].txn))
      BY <1>3, <2>1 DEF Present
    <2>3. req[s].stage \in {"check", "update"} => Present(req[s].txn)'
      BY <1>3 DEF Present, Ended
    <2>4. req[s].flag.decidedAt \in Nat /\ \A e \in req[s].entries : e.at \in Nat
      BY <1>0 DEF TypeOK, Request, Row, Entries, Entry
    <2>5. req[s].stage = "commit" => EntryReady(s)'
      <3>1. \A f \in audit' : f.flag = req[s].txn /\ req[s].stage = "commit"
                                 => \E g \in audit : g.flag = req[s].txn /\ g.at = f.at
        BY <2>1 DEF Writing
      <3> QED
        BY <1>3, <2>0, <2>4, <3>1 DEF RequestFlow, EntryReady
    <2>6. req[s].stage \in {"update", "insert_audit", "commit"} => Staged(s)'
      <3>1. CASE req[s].stage = "update"
        BY <1>3, <2>0, <2>3, <2>4, <3>1 DEF RequestFlow, Staged, Ingesting, Deciding, Decisions
      <3>2. CASE req[s].stage \in {"insert_audit", "commit"}
        BY <1>3, <2>0, <2>2, <2>4, <3>2 DEF RequestFlow, Staged, Ingesting, Deciding, Writing
      <3> QED
        BY <3>1, <3>2
    <2> QED
      BY <1>3, <2>0, <2>2, <2>3, <2>5, <2>6 DEF RequestFlow, Ingesting, Deciding, Writing
  <1>4. \A s \in Requests : req'[s].stage = "done" => RequestFlow(s)'
    BY DEF RequestFlow
  <1>5. Flow'
    BY <1>3, <1>4 DEF Flow, Ended
  <1> QED
    BY <1>1, <1>2, <1>5 DEF QueueInv

\* Closing a form keeps the forms well formed.
LEMMA SubmittedType ==
    ASSUME form \in [Forms -> Form], NEW f \in Forms, Submitted(f)
    PROVE  form' \in [Forms -> Form]
  BY DEF Form, Submitted

LEMMA OpenFlagFormKeeps ==
    ASSUME AdminInv, NEW f \in Forms, NEW t \in Txns, OpenFlagForm(f, t)
    PROVE  AdminInv'
  <1>1. form' \in [Forms -> Form]
    <2>1. [NewForm EXCEPT !.stage = "open", !.txn = t, !.row = flags[t]] \in Form
      BY DEF AdminInv, AdminTypeOK, TypeOK, Form, NewForm
    <2> QED
      BY <2>1 DEF OpenFlagForm, AdminInv, AdminTypeOK
  <1>2. UNCHANGED <<flags, audit, lock, req, clock, users, bare>>
    BY DEF OpenFlagForm, vars
  <1>3. QueueInv'
    BY <1>2 DEF AdminInv, QueueInv, TypeOK, Locks, Stamps, Flow, RequestFlow, EntryReady, Staged,
                Ingesting, Deciding, Present
  <1> QED
    BY <1>1, <1>2, <1>3 DEF AdminInv, AdminTypeOK, QueueInv, Backed, Unheld, NamedUsersExist, OrNull, Present

LEMMA SaveFlagFormKeeps ==
    ASSUME AdminInv, NEW f \in Forms, NEW status \in Statuses, NEW who \in OrNull(users),
           SaveFlagForm(f, status, who)
    PROVE  AdminInv'
  <1> DEFINE t == form[f].txn
  <1>9. PICK when \in {form[f].row.decidedAt, 0, clock} :
            flags' = [flags EXCEPT ![t] = [status |-> status, decidedBy |-> who, decidedAt |-> when]]
    BY DEF SaveFlagForm
  <1> DEFINE row == [status |-> status, decidedBy |-> who, decidedAt |-> when]
  <1>0. UNCHANGED <<audit, lock, req, clock, users, bare>> /\ flags' = [flags EXCEPT ![t] = row]
    BY <1>9 DEF SaveFlagForm
  <1>1. /\ row \in Row /\ row.status = status /\ row.decidedBy = who
        /\ status # "ABSENT" /\ Present(t) /\ lock[t] = None
    BY DEF SaveFlagForm, AdminInv, AdminTypeOK, TypeOK, Form, Row, OrNull, Statuses, Decisions
  <1>2. TypeOK'
    BY <1>0, <1>1 DEF AdminInv, AdminTypeOK, TypeOK
  <1>3. \A u \in Txns : Present(u)' <=> Present(u)
    BY <1>0, <1>1 DEF Present, AdminInv, AdminTypeOK, TypeOK
  <1>4. QueueInv'
    <2>1. \A s \in Requests : req[s].stage \in {"check", "update"} => req[s].txn \in Txns /\ Present(req[s].txn)
      BY DEF AdminInv, QueueInv, Flow, RequestFlow, Staged, Ingesting, Deciding, Decisions
    <2>2. clock <= clock' /\ \A e \in audit' : e.at <= clock'
      BY <1>0 DEF AdminInv, QueueInv, TypeOK, Stamps
    <2>3. \A s \in Requests :
            req'[s] = req[s] /\ (req[s].stage \in {"check", "update"} => flags'[req[s].txn].status # "ABSENT")
      BY <1>0, <1>3, <2>1 DEF Present
    <2>4. \A e \in audit' : lock[e.flag] # None => \E g \in audit : g.flag = e.flag /\ g.at = e.at
      BY <1>0
    <2>5. QueueInv /\ lock' = lock
      BY <1>0 DEF AdminInv
    <2> QED
      BY <1>2, <1>3, <2>2, <2>3, <2>4, <2>5, PostKeeps
  <1>5. AdminTypeOK'
    BY <1>0, <1>2, <1>3, SubmittedType DEF AdminInv, AdminTypeOK, SaveFlagForm
  <1>6. NamedUsersExist'
    BY <1>0, <1>1 DEF AdminInv, NamedUsersExist, OrNull, AdminTypeOK, TypeOK
  <1> QED
    BY <1>0, <1>4, <1>5, <1>6 DEF AdminInv, Backed, Unheld, OrNull

\* An entry added or changed in the admin, on a flag no open transaction holds
\* or where it already was.
LEMMA EntryKeeps ==
    ASSUME AdminInv, NEW e \in Entry, NEW old, audit' = (audit \ old) \cup {e},
           e.actor \in OrNull(users), clock' \in Nat, clock <= clock', e.at <= clock',
           lock[e.flag] # None => \E g \in audit : g.flag = e.flag /\ g.at = e.at,
           NEW f \in Forms, Submitted(f), UNCHANGED <<flags, lock, req, users, bare>>
    PROVE  AdminInv'
  <1>1. TypeOK'
    BY DEF AdminInv, AdminTypeOK, TypeOK
  <1>2. \A g \in audit' : g.at <= clock' /\ (lock[g.flag] # None => \E h \in audit : h.flag = g.flag /\ h.at = g.at)
    BY DEF AdminInv, QueueInv, Stamps, TypeOK, Entry
  <1>3. QueueInv'
    <2>1. \A s \in Requests : req[s].stage \in {"check", "update"} => flags[req[s].txn].status # "ABSENT"
      BY DEF AdminInv, QueueInv, Flow, RequestFlow, Staged, Ingesting, Deciding, Decisions, Present
    <2> QED
      BY <1>1, <1>2, <2>1, PostKeeps DEF AdminInv, Present
  <1>4. AdminTypeOK'
    BY <1>1, SubmittedType DEF AdminInv, AdminTypeOK, Present
  <1> QED
    BY <1>3, <1>4 DEF AdminInv, Backed, Unheld, NamedUsersExist, OrNull

LEMMA AddEntryKeeps ==
    ASSUME AdminInv, NEW f \in Forms, NEW t \in Txns, NEW what \in Actions, NEW who \in OrNull(users),
           AddEntry(f, t, what, who)
    PROVE  AdminInv'
  <1> DEFINE e == [flag |-> t, action |-> what, actor |-> who, at |-> clock + 1]
  <1>1. e \in Entry /\ clock \in Nat
    BY DEF AdminInv, AdminTypeOK, TypeOK, Entry, OrNull
  <1>2. /\ audit' = (audit \ {}) \cup {e} /\ clock' = clock + 1 /\ Submitted(f) /\ lock[t] = None
        /\ UNCHANGED <<flags, lock, req, users, bare>>
    BY DEF AddEntry
  <1>3. clock' \in Nat /\ clock <= clock' /\ e.at <= clock' /\ lock[e.flag] = None
    BY <1>1, <1>2
  <1> QED
    BY <1>1, <1>2, <1>3, EntryKeeps

LEMMA ChangeEntryKeeps ==
    ASSUME AdminInv, NEW f \in Forms, NEW e \in audit, NEW t \in Txns, NEW what \in Actions,
           NEW who \in OrNull(users), ChangeEntry(f, e, t, what, who)
    PROVE  AdminInv'
  <1> DEFINE new == [e EXCEPT !.flag = t, !.action = what, !.actor = who]
  <1>1. e \in Entry /\ clock \in Nat /\ e.at <= clock
    BY DEF AdminInv, AdminTypeOK, TypeOK, QueueInv, Stamps
  <1>2. new \in Entry /\ new.flag = t /\ new.at = e.at /\ new.actor = who
    BY <1>1 DEF AdminInv, AdminTypeOK, Entry, OrNull
  <1>3. /\ audit' = (audit \ {e}) \cup {new} /\ clock' = clock /\ Submitted(f)
    BY DEF ChangeEntry
  <1>4. UNCHANGED <<flags, lock, req, users, bare>>
    BY DEF ChangeEntry
  <1>5. clock' \in Nat /\ clock <= clock' /\ new.at <= clock'
    BY <1>1, <1>2, <1>3
  <1>6. lock[new.flag] # None => \E g \in audit : g.flag = new.flag /\ g.at = new.at
    BY <1>2 DEF ChangeEntry
  <1> QED
    BY <1>2, <1>3, <1>4, <1>5, <1>6, EntryKeeps


\* Asking for a deletion, or giving it up, moves only the form.
LEMMA CheckDeletionKeeps ==
    ASSUME AdminInv, NEW f \in Forms,
           DeletionFails(f) \/ \E t \in Txns, what \in Deletions : CheckDeletion(f, t, what)
    PROVE  AdminInv'
  <1>1. form' \in [Forms -> Form]
    <2>1. ASSUME Submitted(f) PROVE form' \in [Forms -> Form]
      BY <2>1, SubmittedType DEF AdminInv, AdminTypeOK
    <2>2. ASSUME NEW t \in Txns, NEW what \in Deletions, CheckDeletion(f, t, what)
          PROVE  form' \in [Forms -> Form]
      <3> DEFINE listed == {e.at : e \in Trail(t)}
                 new == [NewForm EXCEPT !.stage = what, !.txn = t, !.listed = listed]
      <3>1. listed \in SUBSET Nat
        BY DEF AdminInv, AdminTypeOK, TypeOK, Trail, Entry
      <3>2. NoRow \in Row
        BY DEF NoRow, Row
      <3> HIDE DEF listed
      <3>3. new \in Form
        BY <3>1, <3>2 DEF Form, NewForm
      <3>4. Submitted(f) \/ form' = [form EXCEPT ![f] = new]
        BY <2>2 DEF CheckDeletion, listed
      <3> HIDE DEF new
      <3> QED
        BY <2>1, <3>3, <3>4 DEF AdminInv, AdminTypeOK
    <2> QED
      BY <2>1, <2>2 DEF DeletionFails
  <1>2. UNCHANGED <<flags, audit, lock, req, clock, users, bare>>
    BY DEF DeletionFails, CheckDeletion, vars
  <1>3. QueueInv'
    BY <1>2 DEF AdminInv, QueueInv, TypeOK, Locks, Stamps, Flow, RequestFlow, EntryReady, Staged,
                Ingesting, Deciding, Present
  <1> QED
    BY <1>1, <1>2, <1>3 DEF AdminInv, AdminTypeOK, QueueInv, Backed, Unheld, NamedUsersExist, OrNull, Present

\* A flag goes together with the requests and the forms that held its row.
LEMMA RowGoneKeeps ==
    ASSUME AdminInv, NEW f \in Forms, NEW t \in Txns, NEW stages, Cascades(t), Orphans(f, t, stages),
           bare' \in {bare \cup {t}, bare \ {t}}
    PROVE  AdminInv'
  <1>10. /\ lock[t] = None /\ flags' = [flags EXCEPT ![t] = NoRow] /\ audit' \subseteq audit
         /\ UNCHANGED <<lock, clock, users>>
    BY DEF Cascades
  <1>0. NoRow \in Row /\ NoRow.status = "ABSENT" /\ NoRow.decidedBy = None
    BY DEF NoRow, Row
  <1>1. \A s \in Requests :
            \/ req'[s] = req[s] /\ ~(req[s].txn = t /\ req[s].stage \in {"check", "update", "page"})
            \/ Ended(s)
    BY DEF Orphans, Ended, AdminInv, AdminTypeOK, TypeOK, Request
  <1>2. TypeOK'
    <2>1. ASSUME NEW s \in Requests, NEW code \in Replies
          PROVE  [req[s] EXCEPT !.stage = "done", !.reply = code] \in Request
      <3>1. req[s] \in Request
        BY DEF AdminInv, AdminTypeOK, TypeOK
      <3> QED
        BY <3>1 DEF Request, Stages
    <2>2. 500 \in Replies /\ 200 \in Replies
      BY DEF Replies
    <2>3. req' \in [Requests -> Request]
      <3> DEFINE hit(s) == req[s].txn = t /\ req[s].stage \in {"check", "update", "page"}
                 code(s) == IF req[s].stage = "page" THEN 200 ELSE 500
                 next(s) == IF hit(s) THEN [req[s] EXCEPT !.stage = "done", !.reply = code(s)] ELSE req[s]
      <3>1. req' = [s \in Requests |-> next(s)]
        BY DEF Orphans
      <3>2. ASSUME NEW s \in Requests PROVE next(s) \in Request
        <4>1. req[s] \in Request
          BY DEF AdminInv, AdminTypeOK, TypeOK
        <4>2. code(s) \in Replies
          BY <2>2
        <4>3. [req[s] EXCEPT !.stage = "done", !.reply = code(s)] \in Request
          BY <2>1, <4>2
        <4> QED
          BY <4>1, <4>3
      <3> HIDE DEF next
      <3> QED
        BY <3>1, <3>2
    <2> QED
      BY <1>0, <1>10, <2>3 DEF AdminInv, AdminTypeOK, TypeOK
  <1>3. ~Present(t)' /\ \A u \in Txns \ {t} : Present(u)' <=> Present(u)
    BY <1>0, <1>10 DEF Present, AdminInv, AdminTypeOK, TypeOK
  <1>4. \A s \in Requests : req[s].stage \in {"check", "update"} => req[s].txn \in Txns /\ Present(req[s].txn)
    BY DEF AdminInv, QueueInv, Flow, RequestFlow, Staged, Ingesting, Deciding, Decisions
  <1>5. \A s \in Requests :
            \/ Ended(s)
            \/ /\ req'[s] = req[s]
               /\ req[s].stage \in {"check", "update"} => flags'[req[s].txn].status # "ABSENT"
    BY <1>1, <1>3, <1>4 DEF Present
  <1>6. QueueInv'
    <2>1. clock <= clock' /\ \A e \in audit' : e.at <= clock'
      BY <1>10 DEF AdminInv, QueueInv, TypeOK, Stamps
    <2>2. \A u \in Txns : lock[u] # None => (Present(u)' <=> Present(u))
      BY <1>3, <1>10
    <2>3. \A e \in audit' : lock[e.flag] # None => \E g \in audit : g.flag = e.flag /\ g.at = e.at
      BY <1>10
    <2>4. QueueInv
      BY DEF AdminInv
    <2> QED
      BY <1>2, <1>5, <1>10, <2>1, <2>2, <2>3, <2>4, PostKeeps
  <1>7. AdminTypeOK'
    <2>1. form' \in [Forms -> Form]
      <3>1. ASSUME NEW g \in Forms PROVE [form[g] EXCEPT !.stage = "done"] \in Form /\ form[g] \in Form
        BY DEF AdminInv, AdminTypeOK, Form
      <3> QED
        BY <3>1 DEF Orphans
    <2>2. bare' \subseteq {u \in Txns : ~Present(u)'}
      BY <1>3 DEF AdminInv, AdminTypeOK
    <2> QED
      BY <1>2, <1>10, <2>1, <2>2 DEF AdminInv, AdminTypeOK, Present
  <1>8. Backed'
    BY <1>1, <1>10 DEF AdminInv, Backed, Ended, OrNull
  <1>9. Unheld' /\ NamedUsersExist'
    BY <1>0, <1>10 DEF AdminInv, Unheld, NamedUsersExist, OrNull, AdminTypeOK, TypeOK
  <1> QED
    BY <1>6, <1>7, <1>8, <1>9 DEF AdminInv

LEMMA AddTransactionKeeps ==
    ASSUME AdminInv, NEW f \in Forms, NEW t \in Txns, AddTransaction(f, t)
    PROVE  AdminInv'
  <1>1. /\ UNCHANGED <<flags, audit, lock, req, clock, users>>
        /\ bare' = bare \cup {t} /\ ~Present(t) /\ lock[t] = None
    BY DEF AddTransaction, vars
  <1>2. QueueInv'
    BY <1>1 DEF AdminInv, QueueInv, TypeOK, Locks, Stamps, Flow, RequestFlow, EntryReady, Staged,
                Ingesting, Deciding, Present
  <1>3. AdminTypeOK'
    BY <1>1, <1>2, SubmittedType DEF AdminInv, AdminTypeOK, QueueInv, Present, AddTransaction
  <1> QED
    BY <1>1, <1>2, <1>3 DEF AdminInv, Backed, Unheld, NamedUsersExist, OrNull

LEMMA AddFlagKeeps ==
    ASSUME AdminInv, NEW f \in Forms, NEW t \in Txns, NEW status \in Statuses, NEW who \in OrNull(users),
           AddFlag(f, t, status, who)
    PROVE  AdminInv'
  <1>1. PICK when \in {0, clock} :
            flags' = [flags EXCEPT ![t] = [status |-> status, decidedBy |-> who, decidedAt |-> when]]
    BY DEF AddFlag
  <1> DEFINE row == [status |-> status, decidedBy |-> who, decidedAt |-> when]
  <1>2. row \in Row /\ row.status # "ABSENT" /\ row.decidedBy = who
    BY DEF AdminInv, AdminTypeOK, TypeOK, Row, OrNull, Statuses, Decisions
  <1>3. /\ UNCHANGED <<audit, lock, req, clock, users>> /\ lock[t] = None
        /\ bare' = bare \ {t}
    BY DEF AddFlag, AdminInv, Unheld
  <1>4. TypeOK'
    BY <1>1, <1>2, <1>3 DEF AdminInv, AdminTypeOK, TypeOK
  <1>5. Present(t)' /\ \A u \in Txns \ {t} : Present(u)' <=> Present(u)
    BY <1>1, <1>2 DEF Present, AdminInv, AdminTypeOK, TypeOK
  <1>6. \A s \in Requests : req[s].stage \in {"check", "update"} => req[s].txn \in Txns /\ Present(req[s].txn)
    BY DEF AdminInv, QueueInv, Flow, RequestFlow, Staged, Ingesting, Deciding, Decisions
  <1>7. QueueInv'
    <2>1. clock <= clock' /\ \A e \in audit' : e.at <= clock'
      BY <1>3 DEF AdminInv, QueueInv, TypeOK, Stamps
    <2>2. \A s \in Requests :
            req'[s] = req[s] /\ (req[s].stage \in {"check", "update"} => flags'[req[s].txn].status # "ABSENT")
      BY <1>3, <1>5, <1>6 DEF Present
    <2>3. \A u \in Txns : lock[u] # None => (Present(u)' <=> Present(u))
      BY <1>3, <1>5
    <2>4. \A e \in audit' : lock[e.flag] # None => \E g \in audit : g.flag = e.flag /\ g.at = e.at
      BY <1>3
    <2>5. QueueInv /\ lock' = lock
      BY <1>3 DEF AdminInv
    <2> QED
      BY <1>4, <2>1, <2>2, <2>3, <2>4, <2>5, PostKeeps
  <1>8. AdminTypeOK'
    BY <1>3, <1>4, <1>5, SubmittedType DEF AdminInv, AdminTypeOK, AddFlag
  <1>9. NamedUsersExist'
    BY <1>1, <1>2, <1>3 DEF AdminInv, NamedUsersExist, OrNull, AdminTypeOK, TypeOK
  <1> QED
    BY <1>3, <1>7, <1>8, <1>9 DEF AdminInv, Backed, Unheld, OrNull

\* A user leaves every row and entry that named them, and no open transaction
\* was about to name them.
LEMMA DeleteUserKeeps ==
    ASSUME AdminInv, NEW f \in Forms, NEW u \in users, DeleteUser(f, u)
    PROVE  AdminInv'
  <1>0. TypeOK /\ users \subseteq Analysts /\ None \notin Analysts
    BY NoneAssumption DEF AdminInv, AdminTypeOK
  <1>1. /\ UNCHANGED <<lock, req, clock, bare>> /\ users' = users \ {u}
    BY DEF DeleteUser
  <1>2. \A t \in Txns : /\ flags'[t] \in Row /\ flags'[t].status = flags[t].status
                        /\ flags'[t].decidedBy \in OrNull(users \ {u})
    BY <1>0 DEF DeleteUser, TypeOK, Row, AdminInv, NamedUsersExist, OrNull
  <1>3. \A e \in audit' : /\ e \in Entry /\ e.actor \in OrNull(users \ {u})
                          /\ \E g \in audit : g.flag = e.flag /\ g.at = e.at
    <2>1. ASSUME NEW g \in audit
          PROVE  /\ g \in Entry /\ g.actor \in OrNull(users)
                 /\ [g EXCEPT !.actor = None] \in Entry /\ [g EXCEPT !.actor = None].actor = None
                 /\ [g EXCEPT !.actor = None].flag = g.flag /\ [g EXCEPT !.actor = None].at = g.at
      BY <1>0 DEF TypeOK, Entry, AdminInv, NamedUsersExist
    <2>2. SUFFICES ASSUME NEW e \in audit'
                   PROVE  /\ e \in Entry /\ e.actor \in OrNull(users \ {u})
                          /\ \E g \in audit : g.flag = e.flag /\ g.at = e.at
      OBVIOUS
    <2>3. PICK g \in audit : e = IF g.actor = u THEN [g EXCEPT !.actor = None] ELSE g
      BY DEF DeleteUser
    <2>4. CASE g.actor = u
      BY <2>1, <2>3, <2>4 DEF OrNull
    <2>5. CASE g.actor # u
      BY <2>1, <2>3, <2>5 DEF OrNull
    <2> QED
      BY <2>4, <2>5
  <1>4. TypeOK'
    <2>1. flags' \in [Txns -> Row]
      BY <1>2 DEF DeleteUser
    <2> QED
      BY <1>0, <1>1, <1>3, <2>1 DEF TypeOK
  <1>5. \A t \in Txns : Present(t)' <=> Present(t)
    BY <1>2 DEF Present
  <1>6. QueueInv'
    <2>1. clock <= clock' /\ \A e \in audit' : e.at <= clock'
      BY <1>1, <1>3 DEF AdminInv, QueueInv, TypeOK, Stamps
    <2>2. \A s \in Requests : req[s].stage \in {"check", "update"} => req[s].txn \in Txns /\ Present(req[s].txn)
      BY DEF AdminInv, QueueInv, Flow, RequestFlow, Staged, Ingesting, Deciding, Decisions
    <2>3. \A s \in Requests :
            req'[s] = req[s] /\ (req[s].stage \in {"check", "update"} => flags'[req[s].txn].status # "ABSENT")
      BY <1>1, <1>2, <2>2 DEF Present
    <2>4. \A e \in audit' : lock[e.flag] # None => \E g \in audit : g.flag = e.flag /\ g.at = e.at
      BY <1>3
    <2>5. QueueInv /\ lock' = lock
      BY <1>1 DEF AdminInv
    <2> QED
      BY <1>4, <1>5, <2>1, <2>3, <2>4, <2>5, PostKeeps
  <1>7. AdminTypeOK'
    BY <1>0, <1>1, <1>4, <1>5, SubmittedType DEF AdminInv, AdminTypeOK, DeleteUser
  <1>8. NamedUsersExist'
    BY <1>1, <1>2, <1>3 DEF NamedUsersExist, OrNull
  <1>9. Backed'
    BY <1>1 DEF DeleteUser, Referenced, AdminInv, Backed, OrNull
  <1> QED
    BY <1>1, <1>6, <1>7, <1>8, <1>9 DEF AdminInv, Unheld

-----------------------------------------------------------------------------
(* Theorems *)

LEMMA AdminInvInit == AdminInit => AdminInv
  <1> SUFFICES ASSUME AdminInit PROVE AdminInv
    OBVIOUS
  <1>1. QueueInv
    BY IInvInit DEF AdminInit, IInv, QueueInv
  <1>2. NoRow \in Row
    BY DEF NoRow, Row
  <1>3. AdminTypeOK
    BY <1>1, <1>2 DEF AdminInit, AdminTypeOK, QueueInv, Form, NewForm
  <1>4. Backed /\ Unheld /\ NamedUsersExist
    BY DEF AdminInit, Init, Backed, Unheld, NamedUsersExist, OrNull, NewRequest, NoRow
  <1> QED
    BY <1>1, <1>3, <1>4 DEF AdminInv

LEMMA AdminInvStep == AdminInv /\ Aimed /\ [AdminNext]_avars => AdminInv'
  <1> SUFFICES ASSUME AdminInv, Aimed, [AdminNext]_avars PROVE AdminInv'
    OBVIOUS
  <1>1. CASE \E r \in Requests : (QueueStep(r) \/ RefuseBare(r)) /\ UNCHANGED <<users, bare, form>>
    BY <1>1, QueueKeeps, RefuseKeeps
  <1>2. ASSUME NEW f \in Forms, AdminStep(f) PROVE AdminInv'
    <2>1. CASE \E t \in Txns : OpenFlagForm(f, t) \/ AddTransaction(f, t)
      BY <2>1, OpenFlagFormKeeps, AddTransactionKeeps
    <2>2. CASE DeleteTransaction(f) \/ DeleteFlag(f)
      BY <2>2, RowGoneKeeps DEF DeleteTransaction, DeleteFlag, Aimed, Deletions
    <2>7. CASE DeletionFails(f) \/ \E t \in Txns, what \in Deletions : CheckDeletion(f, t, what)
      BY <2>7, CheckDeletionKeeps
    <2>3. CASE \E t \in Txns, status \in Statuses, who \in OrNull(users) : AddFlag(f, t, status, who)
      BY <2>3, AddFlagKeeps
    <2>4. CASE \E t \in Txns, what \in Actions, who \in OrNull(users) :
                  \/ AddEntry(f, t, what, who)
                  \/ \E e \in audit : ChangeEntry(f, e, t, what, who)
      BY <2>4, AddEntryKeeps, ChangeEntryKeeps
    <2>5. CASE \E status \in Statuses, who \in OrNull(users) : SaveFlagForm(f, status, who)
      BY <2>5, SaveFlagFormKeeps
    <2>6. CASE \E u \in users : DeleteUser(f, u)
      BY <2>6, DeleteUserKeeps
    <2> QED
      BY <1>2, <2>1, <2>2, <2>3, <2>4, <2>5, <2>6, <2>7 DEF AdminStep
  <1>3. CASE UNCHANGED avars
    <2>1. UNCHANGED <<flags, audit, lock, req, clock, users, bare, form>>
      BY <1>3 DEF avars, vars
    <2> QED
      BY <2>1 DEF AdminInv, AdminTypeOK, QueueInv, TypeOK, Locks, Stamps, Flow, RequestFlow, EntryReady,
                  Staged, Ingesting, Deciding, Present, Backed, Unheld, NamedUsersExist, OrNull
  <1> QED
    BY <1>1, <1>2, <1>3 DEF AdminNext, AllQuiet

\* Only the check starts a deletion, and it refuses a flag that has entries.
LEMMA AimedStep == AdminInv /\ Aimed /\ [AdminNext]_avars => Aimed'
  <1> SUFFICES ASSUME AdminInv, Aimed, [AdminNext]_avars PROVE Aimed'
    OBVIOUS
  <1>0. form \in [Forms -> Form] /\ "open" \notin Deletions /\ "done" \notin Deletions
    BY DEF AdminInv, AdminTypeOK, Deletions
  <1>1. CASE form' = form
    BY <1>1 DEF Aimed
  <1>2. ASSUME NEW f \in Forms, AdminStep(f) PROVE Aimed'
    <2>1. CASE Submitted(f)
      BY <1>0, <2>1 DEF Submitted, Aimed, Form
    <2>2. ASSUME NEW t \in Txns, OpenFlagForm(f, t) PROVE Aimed'
      <3>1. [NewForm EXCEPT !.stage = "open", !.txn = t, !.row = flags[t]].stage = "open"
        BY DEF NewForm
      <3> QED
        BY <1>0, <2>2, <3>1 DEF OpenFlagForm, Aimed
    <2>3. ASSUME NEW t \in Txns, NEW what \in Deletions, CheckDeletion(f, t, what) PROVE Aimed'
      <3> DEFINE new == [NewForm EXCEPT !.stage = what, !.txn = t, !.listed = {e.at : e \in Trail(t)}]
      <3>1. new.txn = t /\ new.listed = {e.at : e \in Trail(t)}
        BY DEF NewForm
      <3>2. Submitted(f) \/ (form' = [form EXCEPT ![f] = new] /\ new.listed = {})
        BY <2>3, <3>1 DEF CheckDeletion
      <3> HIDE DEF new
      <3> QED
        BY <1>0, <2>1, <3>1, <3>2 DEF Aimed
    <2>4. ASSUME NEW t, NEW stages, Orphans(f, t, stages) PROVE Aimed'
      <3>1. \A g \in Forms : form'[g] = form[g] \/ form'[g].stage = "done"
        BY <1>0, <2>4 DEF Orphans, Form
      <3> QED
        BY <1>0, <3>1 DEF Aimed
    <2> QED
      BY <1>2, <2>1, <2>2, <2>3, <2>4 DEF AdminStep, AddTransaction, AddFlag, AddEntry, ChangeEntry, SaveFlagForm,
         DeleteTransaction, DeleteFlag, DeletionFails, DeleteUser
  <1> QED
    BY <1>1, <1>2 DEF AdminNext, AllQuiet, avars

THEOREM AdminInvariance == AdminSpec => [](AdminInv /\ Aimed)
  <1>1. AdminInit => AdminInv /\ Aimed
    <2>1. AdminInit => Aimed
      <3> SUFFICES ASSUME AdminInit, NEW f \in Forms PROVE form[f].stage \notin Deletions
        BY DEF Aimed
      <3>1. form[f] = NewForm /\ NewForm.stage = "new"
        BY DEF AdminInit, NewForm
      <3> QED
        BY <3>1 DEF Deletions
    <2> QED
      BY <2>1, AdminInvInit
  <1>2. AdminInv /\ Aimed /\ [AdminNext]_avars => AdminInv' /\ Aimed'
    BY AdminInvStep, AimedStep
  <1> QED
    BY <1>1, <1>2, PTL DEF AdminSpec

\* Rows, entries, requests and forms keep their types (review_app/review/models.py),
\* and a transaction the admin left without a flag has none.
THEOREM AdminTypeCorrect == AdminSpec => []AdminTypeOK
  BY AdminInvariance, PTL DEF AdminInv

\* decided_by and actor are set to null with the user they name, and no request
\* commits the name of a user who was deleted while it ran.
THEOREM UsersNamedExist == AdminSpec => []NamedUsersExist
  BY AdminInvariance, PTL DEF AdminInv

-----------------------------------------------------------------------------
(* The trail, as far as it is append-only *)

Lost(e) == ~\E g \in audit' : g.at = e.at

LEMMA LossStep ==
    ASSUME AdminInv, Aimed, [AdminNext]_avars, NEW e \in audit, Lost(e)
    PROVE  /\ ~Present(e.flag)'
           /\ \E f \in Forms : /\ form[f].stage \in Deletions /\ form[f].txn = e.flag
                               /\ e.at \notin form[f].listed
  <1>0. /\ \A g \in audit : g \in Entry
        /\ e \in Entry
    BY DEF AdminInv, AdminTypeOK, TypeOK
  <1>1. ~(audit \subseteq audit')
    BY DEF Lost
  <1>2. ASSUME NEW r \in Requests, QueueStep(r) \/ RefuseBare(r) PROVE FALSE
    <2>1. CASE Step(r)
      BY <1>1, <2>1, Frame DEF Commit, AdminInv, QueueInv
    <2>2. CASE RefuseBare(r)
      BY <1>1, <2>2 DEF RefuseBare
    <2> QED
      BY <1>2, <2>1, <2>2 DEF QueueStep, Step
  <1>3. PICK f \in Forms : AdminStep(f)
    <2>1. ~UNCHANGED avars
      BY <1>1 DEF avars, vars
    <2> QED
      BY <1>2, <2>1 DEF AdminNext, AllQuiet
  <1>4. ASSUME NEW t \in Txns, NEW what \in Actions, NEW who \in OrNull(users), NEW old \in audit,
               ChangeEntry(f, old, t, what, who)
        PROVE  FALSE
    <2> DEFINE new == [old EXCEPT !.flag = t, !.action = what, !.actor = who]
    <2>1. new.at = old.at
      BY <1>0 DEF Entry
    <2>2. audit' = (audit \ {old}) \cup {new}
      BY <1>4 DEF ChangeEntry
    <2> QED
      BY <2>1, <2>2 DEF Lost
  <1>5. ASSUME NEW u \in users, DeleteUser(f, u) PROVE FALSE
    <2>1. [e EXCEPT !.actor = None].at = e.at
      BY <1>0 DEF Entry
    <2> QED
      BY <1>5, <2>1 DEF DeleteUser, Lost
  <1>6. form[f].stage \in Deletions /\ Cascades(form[f].txn)
    <2>1. \A t \in Txns : ~OpenFlagForm(f, t) /\ ~AddTransaction(f, t)
      BY <1>1 DEF OpenFlagForm, AddTransaction, vars
    <2>2. \A t \in Txns, what \in Deletions : ~CheckDeletion(f, t, what)
      BY <1>1 DEF CheckDeletion, vars
    <2>3. ~DeletionFails(f)
      BY <1>1 DEF DeletionFails, vars
    <2>4. \A t, what, who : ~AddFlag(f, t, what, who) /\ ~AddEntry(f, t, what, who) /\ ~SaveFlagForm(f, what, who)
      BY <1>1 DEF AddFlag, AddEntry, SaveFlagForm
    <2> QED
      BY <1>3, <1>4, <1>5, <2>1, <2>2, <2>3, <2>4 DEF AdminStep, DeleteTransaction, DeleteFlag, Deletions
  <1>7. e.flag = form[f].txn
    BY <1>6 DEF Lost, Cascades, Trail
  <1>8. form[f].txn \in Txns /\ form[f].listed = {}
    BY <1>6 DEF Aimed
  <1>9. flags'[form[f].txn] = NoRow
    BY <1>6, <1>8 DEF Cascades, AdminInv, AdminTypeOK, TypeOK
  <1> QED
    BY <1>6, <1>7, <1>8, <1>9 DEF Present, NoRow

\* "append-only, even from the admin": whatever sequence of forms is posted while
\* whatever requests run, an entry goes only with its flag, and only by a deletion
\* whose check ran before the entry was there.
THEOREM EntriesGoByRacesOnly == AdminSpec => OnlyRacesTakeEntries
  <1>1. AdminInv /\ Aimed /\ [AdminNext]_avars =>
          [\A e \in audit :
             \/ \E g \in audit' : g.at = e.at
             \/ /\ ~Present(e.flag)'
                /\ \E f \in Forms : /\ form[f].stage \in Deletions /\ form[f].txn = e.flag
                                    /\ e.at \notin form[f].listed]_avars
    BY LossStep DEF Lost
  <1> QED
    BY <1>1, AdminInvariance, PTL DEF AdminSpec, OnlyRacesTakeEntries
=============================================================================
