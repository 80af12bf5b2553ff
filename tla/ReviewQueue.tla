----------------------------- MODULE ReviewQueue -----------------------------
(***************************************************************************)
(* review_app: the analyst review queue, request by request.               *)
(*                                                                         *)
(* `flags` and `audit` are the committed rows of the database.  Every HTTP *)
(* request is an actor that runs one statement per step, so requests       *)
(* interleave between statements as the gunicorn workers' do.  The writes  *)
(* of an open transaction stay in the request's record until it commits;   *)
(* `lock[t]` is the request holding the uncommitted unique key (INSERT) or *)
(* the exclusive row lock (UPDATE) of transaction t, MySQL's READ COMMITTED*)
(* behaviour and, being weaker, a superset of SQLite's single writer.      *)
(***************************************************************************)
EXTENDS Naturals, FiniteSets

CONSTANTS
    Txns,       \* transaction ids (Transaction.transaction_id)
    Analysts,   \* logged-in users
    Requests,   \* HTTP requests; each is received at most once
    None        \* a null: no user, no lock holder, no transaction yet

ASSUME NoneAssumption == None \notin Txns \cup Analysts \cup Requests

VARIABLES
    flags,      \* committed Transaction + Flag rows, one per transaction id
    audit,      \* committed AuditLogEntry rows
    lock,       \* row and unique-key locks of open transactions
    req,        \* the requests
    clock       \* timezone.now(): every reading is later than the one before

vars == <<flags, audit, lock, req, clock>>

-----------------------------------------------------------------------------
Decisions == {"APPROVED", "REJECTED"}
Statuses  == {"PENDING"} \cup Decisions
Actions   == {"FLAGGED"} \cup Decisions

\* A Flag instance; ABSENT stands for a row that does not exist.
Row == [status: Statuses \cup {"ABSENT"}, decidedBy: Analysts \cup {None}, decidedAt: Nat]

NoRow      == [status |-> "ABSENT",  decidedBy |-> None, decidedAt |-> 0]
PendingRow == [status |-> "PENDING", decidedBy |-> None, decidedAt |-> 0]

Entry == [flag: Txns, action: Actions, actor: Analysts \cup {None}, at: Nat]
Entries == SUBSET Entry

Present(t) == flags[t].status # "ABSENT"
Decided(t) == flags[t].status \in Decisions
Trail(t)   == {e \in audit : e.flag = t}

\* Where a request is: the next statement it will run.
Stages  == {"new", "insert_txn", "insert_flag", "check", "update", "insert_audit",
            "commit", "page", "done"}
Writing == {"insert_flag", "insert_audit", "commit"}   \* holds its lock

NoReply == 0    \* also: the worker died and the client saw no answer
Replies == {NoReply, 200, 201, 302, 400, 401, 404, 405, 409, 500}

\* `flag` is the Flag instance the request has in memory, `entries` the audit
\* row it inserted and has not committed (or, for a page, the rows it shows).
Request == [stage: Stages, txn: Txns \cup {None}, action: Actions \cup {"VIEW"},
            actor: Analysts \cup {None}, flag: Row, entries: Entries,
            reply: Replies]

NewRequest == [stage |-> "new", txn |-> None, action |-> "VIEW", actor |-> None,
               flag |-> NoRow, entries |-> {}, reply |-> NoReply]

TypeOK ==
    /\ flags \in [Txns -> Row]
    /\ audit \subseteq Entry
    /\ lock \in [Txns -> Requests \cup {None}]
    /\ req \in [Requests -> Request]
    /\ clock \in Nat

Init ==
    /\ flags = [t \in Txns |-> NoRow]
    /\ audit = {}
    /\ lock = [t \in Txns |-> None]
    /\ req = [r \in Requests |-> NewRequest]
    /\ clock = 0

-----------------------------------------------------------------------------
Becomes(r, q) == req' = [req EXCEPT ![r] = q]

\* The request answers `code` and takes no further step.
Answer(r, code) ==
    Becomes(r, [req[r] EXCEPT !.stage = "done", !.reply = code, !.entries = {}])

\* The lock, if the request holds one, goes back with the end of its transaction.
Release(r) ==
    lock' = [t \in Txns |-> IF lock[t] = r THEN None ELSE lock[t]]

(* POST /api/flags/ ********************************************************)

\* Refused before anything is read or written: wrong API key, a body that is not
\* JSON, a missing field, a value the model fields refuse; for the analysts' views,
\* no session (a redirect to the login page) or the wrong method.
RejectRequest(r) ==
    /\ req[r].stage = "new"
    /\ \E code \in {302, 400, 401, 405, 409, 500} : Answer(r, code)
    /\ UNCHANGED <<flags, audit, lock, clock>>

\* The key and the body are good: create_flag opens its transaction.
ReceiveFlag(r, t) ==
    /\ req[r].stage = "new"
    /\ Becomes(r, [req[r] EXCEPT !.stage = "insert_txn", !.txn = t, !.action = "FLAGGED"])
    /\ UNCHANGED <<flags, audit, lock, clock>>

InsertTransactionNoKey(r) ==    \* mutant: transaction_id without its unique index
    LET t == req[r].txn IN
    /\ req[r].stage = "insert_txn"
    /\ lock[t] = None
    /\ lock' = [lock EXCEPT ![t] = r]
    /\ Becomes(r, [req[r] EXCEPT !.stage = "insert_flag"])
    /\ UNCHANGED <<flags, audit, clock>>

\* INSERT of the Transaction row.  It waits for whoever holds an uncommitted
\* row with the same unique key, and is a 409 if the id is already there.  If that
\* one rolls back, InnoDB lets several waiting INSERTs share the key and aborts all
\* but one as deadlock victims: they Fail.
InsertTransaction(r) ==
    LET t == req[r].txn IN
    /\ req[r].stage = "insert_txn"
    /\ lock[t] = None
    /\ IF Present(t)
       THEN /\ Answer(r, 409)
            /\ UNCHANGED lock
       ELSE /\ lock' = [lock EXCEPT ![t] = r]
            /\ Becomes(r, [req[r] EXCEPT !.stage = "insert_flag"])
    /\ UNCHANGED <<flags, audit, clock>>

\* INSERT of the Flag row, status PENDING by default.
InsertFlag(r) ==
    /\ req[r].stage = "insert_flag"
    /\ Becomes(r, [req[r] EXCEPT !.stage = "insert_audit", !.flag = PendingRow])
    /\ UNCHANGED <<flags, audit, lock, clock>>

(* POST /flags/<id>/decide/ ************************************************)

\* get_object_or_404: a plain read of the committed row, no lock.
LoadFlag(r, t, d, who) ==
    /\ req[r].stage = "new"
    /\ IF Present(t)
       THEN Becomes(r, [req[r] EXCEPT !.stage = "check", !.txn = t, !.action = d, !.actor = who,
                                      !.flag = flags[t]])
       ELSE Answer(r, 404)
    /\ UNCHANGED <<flags, audit, lock, clock>>

\* The row a decision writes, and the audit row that goes with it.
DecidedRow(r) == [status |-> req[r].action, decidedBy |-> req[r].actor, decidedAt |-> clock + 1]

AuditRow(r, what) == [flag |-> req[r].txn, action |-> what, actor |-> req[r].actor, at |-> clock + 1]

CheckStatusOmitted(r) ==        \* mutant: decide_flag without its status check
    /\ req[r].stage = "check"
    /\ clock' = clock + 1
    /\ Becomes(r, [req[r] EXCEPT !.stage = "update", !.flag = DecidedRow(r)])
    /\ UNCHANGED <<flags, audit, lock>>

\* decide_flag looks at the instance the view loaded, then changes it in
\* memory: status, decided_at = now, decided_by.
CheckStatus(r) ==
    /\ req[r].stage = "check"
    /\ IF req[r].flag.status # "PENDING"
       THEN /\ Answer(r, 500)           \* ValueError, which the view lets through
            /\ UNCHANGED clock
       ELSE /\ clock' = clock + 1
            /\ Becomes(r, [req[r] EXCEPT !.stage = "update", !.flag = DecidedRow(r)])
    /\ UNCHANGED <<flags, audit, lock>>

UpdateFlagAutocommit(r) ==      \* mutant: the UPDATE outside the transaction
    LET t == req[r].txn IN
    /\ req[r].stage = "update"
    /\ lock[t] = None
    /\ flags' = [flags EXCEPT ![t] = req[r].flag]
    /\ lock' = [lock EXCEPT ![t] = r]
    /\ Becomes(r, [req[r] EXCEPT !.stage = "insert_audit"])
    /\ UNCHANGED <<audit, clock>>

UpdateFlagUnlocked(r) ==        \* mutant: the audit row written before the UPDATE locks the flag
    /\ req[r].stage = "update"
    /\ Becomes(r, [req[r] EXCEPT !.stage = "insert_audit"])
    /\ UNCHANGED <<flags, audit, lock, clock>>

\* UPDATE ... WHERE pk: waits for the row lock, tests nothing.
UpdateFlag(r) ==
    LET t == req[r].txn IN
    /\ req[r].stage = "update"
    /\ lock[t] = None
    /\ lock' = [lock EXCEPT ![t] = r]
    /\ Becomes(r, [req[r] EXCEPT !.stage = "insert_audit"])
    /\ UNCHANGED <<flags, audit, clock>>

(* What both transactions end with *****************************************)

InsertAuditOfStatus(r) ==       \* mutant: the flag's status logged as the action
    /\ req[r].stage = "insert_audit"
    /\ clock' = clock + 1
    /\ Becomes(r, [req[r] EXCEPT !.stage = "commit", !.entries = {AuditRow(r, req[r].flag.status)}])
    /\ UNCHANGED <<flags, audit, lock>>

\* INSERT of the AuditLogEntry; auto_now_add reads the clock here.
InsertAudit(r) ==
    /\ req[r].stage = "insert_audit"
    /\ clock' = clock + 1
    /\ Becomes(r, [req[r] EXCEPT !.stage = "commit", !.entries = {AuditRow(r, req[r].action)}])
    /\ UNCHANGED <<flags, audit, lock>>

CommitLeftOpen(r) ==            \* mutant: the locks not released at the end
    /\ req[r].stage = "commit"
    /\ flags' = [flags EXCEPT ![req[r].txn] = req[r].flag]
    /\ audit' = audit \cup req[r].entries
    /\ \E code \in {IF req[r].action = "FLAGGED" THEN 201 ELSE 302, NoReply} : Answer(r, code)
    /\ UNCHANGED <<lock, clock>>

\* COMMIT, then the answer, which the client may never receive.
Commit(r) ==
    /\ req[r].stage = "commit"
    /\ flags' = [flags EXCEPT ![req[r].txn] = req[r].flag]
    /\ audit' = audit \cup req[r].entries
    /\ Release(r)
    /\ \E code \in {IF req[r].action = "FLAGGED" THEN 201 ELSE 302, NoReply} : Answer(r, code)
    /\ UNCHANGED clock

\* A statement fails (lock wait timeout, lost connection) or the worker dies:
\* the transaction is rolled back.
Fail(r) ==
    /\ req[r].stage \notin {"new", "done"}
    /\ Release(r)
    /\ \E code \in {500, NoReply} : Answer(r, code)
    /\ UNCHANGED <<flags, audit, clock>>

(* GET /flags/<id>/ ********************************************************)

\* transaction_detail reads the flag first ...
OpenPage(r, t) ==
    /\ req[r].stage = "new"
    /\ IF Present(t)
       THEN Becomes(r, [req[r] EXCEPT !.stage = "page", !.txn = t, !.action = "VIEW", !.flag = flags[t]])
       ELSE Answer(r, 404)
    /\ UNCHANGED <<flags, audit, lock, clock>>

\* ... and its audit entries in a second query.
ShowTrail(r) ==
    /\ req[r].stage = "page"
    /\ Becomes(r, [req[r] EXCEPT !.stage = "done", !.reply = 200, !.entries = Trail(req[r].txn)])
    /\ UNCHANGED <<flags, audit, lock, clock>>

-----------------------------------------------------------------------------
\* Nothing is left to serve.
AllServed ==
    /\ \A r \in Requests : req[r].stage = "done"
    /\ UNCHANGED vars

Receive(r) ==
    \/ RejectRequest(r)
    \/ \E t \in Txns : ReceiveFlag(r, t)
    \/ \E t \in Txns, d \in Decisions, who \in Analysts : LoadFlag(r, t, d, who)
    \/ \E t \in Txns : OpenPage(r, t)

Proceed(r) ==
    \/ InsertTransaction(r)
    \/ InsertFlag(r)
    \/ CheckStatus(r)
    \/ UpdateFlag(r)
    \/ InsertAudit(r)
    \/ Commit(r)
    \/ ShowTrail(r)

Next ==
    \/ \E r \in Requests : Receive(r) \/ Proceed(r) \/ Fail(r)
    \/ AllServed

Spec == Init /\ [][Next]_vars

\* A worker keeps running the request it received; nobody has to send one.
FairSpec == Spec /\ \A r \in Requests : WF_vars(Proceed(r))
=============================================================================
