----------------------------- MODULE AdminConsole -----------------------------
(***************************************************************************)
(* review_app with its Django admin: superusers open and save the forms of *)
(* flags and of audit entries, add and delete transactions and flags, and  *)
(* delete users, while requests of ReviewQueue run.  An admin POST is one  *)
(* transaction with one write to the queue's tables, hence one step; but a *)
(* deletion first asks, without a lock, what it would take along.          *)
(***************************************************************************)
EXTENDS ReviewQueueProps

CONSTANT Forms      \* the admin's POSTs; each is made at most once

VARIABLES
    users,      \* the rows of auth_user that are left
    bare,       \* transactions without a flag, which only the admin makes
    form        \* the admin's open and submitted forms

avars == <<vars, users, bare, form>>

\* A form on a flag holds the row as it was when the page was rendered, a deletion
\* (by the time stamps) the entries that its check found.
Deletions == {"delete transaction", "delete flag"}
Form == [stage: {"new", "open", "done"} \cup Deletions, txn: Txns \cup {None}, row: Row,
         listed: SUBSET Nat]
NewForm == [stage |-> "new", txn |-> None, row |-> NoRow, listed |-> {}]

AdminTypeOK ==
    /\ TypeOK
    /\ users \subseteq Analysts
    /\ bare \subseteq {t \in Txns : ~Present(t)}
    /\ form \in [Forms -> Form]

AdminInit ==
    /\ Init
    /\ users = Analysts
    /\ bare = {}
    /\ form = [f \in Forms |-> NewForm]

Submitted(f) == form' = [form EXCEPT ![f].stage = "done"]
OrNull(set) == set \cup {None}

\* An open transaction holds the foreign keys of what it wrote.
Referenced(u) == \E r \in Requests : req[r].actor = u /\ req[r].stage \in {"insert_audit", "commit"}

-----------------------------------------------------------------------------
(* FlagAdmin: the whole row is editable, except created_at.  decided_at takes *)
(* what the form held, nothing, or what the admin typed.                      *)

OpenFlagForm(f, t) ==
    /\ form[f].stage = "new" /\ Present(t)
    /\ form' = [form EXCEPT ![f] = [NewForm EXCEPT !.stage = "open", !.txn = t, !.row = flags[t]]]
    /\ UNCHANGED <<vars, users, bare>>

\* The form posts every field, touched or not, and save() writes them all.
SaveFlagForm(f, status, who) ==
    LET t == form[f].txn IN
    /\ form[f].stage = "open" /\ Present(t) /\ lock[t] = None
    /\ \E when \in {form[f].row.decidedAt, 0, clock} :
          flags' = [flags EXCEPT ![t] = [status |-> status, decidedBy |-> who, decidedAt |-> when]]
    /\ Submitted(f)
    /\ UNCHANGED <<audit, lock, req, clock, users, bare>>

(* AuditLogEntryAdmin: only deletion is refused *)

AddEntryOfStatus(f, t, what, who) ==    \* mutant: Action.choices taken from Flag.Status
    /\ form[f].stage = "new" /\ Present(t) /\ lock[t] = None
    /\ clock' = clock + 1
    /\ \E s \in Statuses :
          audit' = audit \cup {[flag |-> t, action |-> s, actor |-> who, at |-> clock + 1]}
    /\ Submitted(f)
    /\ UNCHANGED <<flags, lock, req, users, bare>>

AddEntry(f, t, what, who) ==
    /\ form[f].stage = "new" /\ Present(t) /\ lock[t] = None
    /\ clock' = clock + 1
    /\ audit' = audit \cup {[flag |-> t, action |-> what, actor |-> who, at |-> clock + 1]}
    /\ Submitted(f)
    /\ UNCHANGED <<flags, lock, req, users, bare>>

\* created_at is the one field the form does not have.
ChangeEntry(f, e, t, what, who) ==
    /\ form[f].stage = "new" /\ Present(t)
    /\ t = e.flag \/ lock[t] = None
    /\ audit' = (audit \ {e}) \cup {[e EXCEPT !.flag = t, !.action = what, !.actor = who]}
    /\ Submitted(f)
    /\ UNCHANGED <<flags, lock, req, clock, users, bare>>

(* TransactionAdmin and FlagAdmin: deletion.  A row goes with what hangs from *)
(* it, and entries may not be deleted: get_deleted_objects reads them, and    *)
(* delete() collects them anew.                                               *)

CheckAllowsAll(f, t, what) ==       \* mutant: has_delete_permission left at its default
    /\ form[f].stage = "new"
    /\ Present(t) \/ (t \in bare /\ what = "delete transaction")
    /\ form' = [form EXCEPT ![f] = [NewForm EXCEPT !.stage = what, !.txn = t,
                                                   !.listed = {e.at : e \in Trail(t)}]]
    /\ UNCHANGED <<vars, users, bare>>

\* The check, by plain reads of committed rows: entries are refused (403).
CheckDeletion(f, t, what) ==
    /\ form[f].stage = "new"
    /\ Present(t) \/ (t \in bare /\ what = "delete transaction")
    /\ IF Trail(t) # {}
       THEN Submitted(f)
       ELSE form' = [form EXCEPT ![f] = [NewForm EXCEPT !.stage = what, !.txn = t,
                                                        !.listed = {e.at : e \in Trail(t)}]]
    /\ UNCHANGED <<vars, users, bare>>

\* What still holds a row that is gone: an analyst's request answers 404 or 500
\* (an UPDATE of no row raises) or shows an empty trail, a form or a deletion in
\* one of `stages` finds nothing to save or delete.
Orphans(f, t, stages) ==
    /\ req' = [r \in Requests |->
                  IF req[r].txn = t /\ req[r].stage \in {"check", "update", "page"}
                  THEN [req[r] EXCEPT !.stage = "done",
                                      !.reply = IF req[r].stage = "page" THEN 200 ELSE 500]
                  ELSE req[r]]
    /\ form' = [g \in Forms |-> IF g = f \/ (form[g].txn = t /\ form[g].stage \in stages)
                                THEN [form[g] EXCEPT !.stage = "done"] ELSE form[g]]

\* The cascade takes the entries that are committed by now, whatever the check saw.
Cascades(t) ==
    /\ lock[t] = None
    /\ flags' = [flags EXCEPT ![t] = NoRow]
    /\ audit' = audit \ Trail(t)
    /\ UNCHANGED <<lock, clock, users>>

\* The transaction and its flag, if it has one.
DeleteTransaction(f) ==
    LET t == form[f].txn IN
    /\ form[f].stage = "delete transaction"
    /\ Cascades(t)
    /\ bare' = bare \ {t}
    /\ Orphans(f, t, {"open"} \cup Deletions)

\* The flag alone.
DeleteFlag(f) ==
    LET t == form[f].txn IN
    /\ form[f].stage = "delete flag"
    /\ Cascades(t)
    /\ bare' = bare \cup {t}
    /\ Orphans(f, t, {"open", "delete flag"})

\* A foreign key refuses the row, because something was added between two DELETEs,
\* or a lock was not to be had: all of it is rolled back.
DeletionFails(f) ==
    /\ form[f].stage \in Deletions
    /\ Submitted(f)
    /\ UNCHANGED <<vars, users, bare>>

(* The admin's add forms, which make rows without the statements of create_flag *)

AddTransaction(f, t) ==
    /\ form[f].stage = "new" /\ ~Present(t) /\ t \notin bare /\ lock[t] = None
    /\ bare' = bare \cup {t}
    /\ Submitted(f)
    /\ UNCHANGED <<vars, users>>

AddFlag(f, t, status, who) ==
    /\ form[f].stage = "new" /\ t \in bare
    /\ \E when \in {0, clock} :
          flags' = [flags EXCEPT ![t] = [status |-> status, decidedBy |-> who, decidedAt |-> when]]
    /\ bare' = bare \ {t}
    /\ Submitted(f)
    /\ UNCHANGED <<audit, lock, req, clock, users>>

(* UserAdmin: decided_by and actor are SET_NULL *)

DeleteUserDangling(f, u) ==         \* mutant: on_delete=DO_NOTHING without a constraint
    /\ form[f].stage = "new" /\ ~Referenced(u)
    /\ users' = users \ {u}
    /\ Submitted(f)
    /\ UNCHANGED <<vars, bare>>

DeleteUser(f, u) ==
    /\ form[f].stage = "new" /\ ~Referenced(u)
    /\ users' = users \ {u}
    /\ flags' = [t \in Txns |-> IF flags[t].decidedBy = u
                                THEN [flags[t] EXCEPT !.decidedBy = None] ELSE flags[t]]
    /\ audit' = {IF e.actor = u THEN [e EXCEPT !.actor = None] ELSE e : e \in audit}
    /\ Submitted(f)
    /\ UNCHANGED <<lock, req, clock, bare>>

-----------------------------------------------------------------------------
(* The requests of ReviewQueue, on users and rows that may be gone *)

\* A session belongs to a user who still exists.  An UPDATE that names a
\* deleted user breaks its foreign key: the request can only fail.
QueueStep(r) ==
    \/ Receive(r) /\ req'[r].actor \in OrNull(users)
    \/ /\ req[r].stage = "update" => req[r].actor \in users
       /\ req[r].stage = "insert_txn" => req[r].txn \notin bare
       /\ Proceed(r)
    \/ Fail(r)

\* The unique key of a transaction without a flag refuses create_flag for good.
RefuseBare(r) ==
    /\ req[r].stage = "insert_txn" /\ req[r].txn \in bare
    /\ Answer(r, 409)
    /\ UNCHANGED <<flags, audit, lock, clock>>

AdminStep(f) ==
    \/ \E t \in Txns :
          \/ OpenFlagForm(f, t)
          \/ \E what \in Deletions : CheckDeletion(f, t, what)
          \/ AddTransaction(f, t)
          \/ \E status \in Statuses, who \in OrNull(users) : AddFlag(f, t, status, who)
          \/ \E what \in Actions, who \in OrNull(users) :
                \/ AddEntry(f, t, what, who)
                \/ \E e \in audit : ChangeEntry(f, e, t, what, who)
    \/ \E status \in Statuses, who \in OrNull(users) : SaveFlagForm(f, status, who)
    \/ DeleteTransaction(f) \/ DeleteFlag(f) \/ DeletionFails(f)
    \/ \E u \in users : DeleteUser(f, u)

AllQuiet ==
    /\ \A r \in Requests : req[r].stage = "done"
    /\ \A f \in Forms : form[f].stage \in {"open", "done"}
    /\ UNCHANGED avars

AdminNext ==
    \/ \E r \in Requests : (QueueStep(r) \/ RefuseBare(r)) /\ UNCHANGED <<users, bare, form>>
    \/ \E f \in Forms : AdminStep(f)
    \/ AllQuiet

AdminSpec == AdminInit /\ [][AdminNext]_avars

-----------------------------------------------------------------------------
(***************************************************************************)
(* "append-only, even from the admin" (admin.py) is kept by a check that   *)
(* runs before the delete: an entry is only ever lost together with its    *)
(* flag, to a deletion that was under way when the entry came under it.    *)
(***************************************************************************)
OnlyRacesTakeEntries ==
    [][\A e \in audit :
          \/ \E g \in audit' : g.at = e.at
          \/ /\ ~Present(e.flag)'
             /\ \E f \in Forms : /\ form[f].stage \in Deletions /\ form[f].txn = e.flag
                                 /\ e.at \notin form[f].listed]_avars

(***************************************************************************)
(* decided_by and actor never name a user who is gone, also when the user  *)
(* is deleted while a decision of theirs is being written.                 *)
(***************************************************************************)
NamedUsersExist ==
    /\ \A t \in Txns : flags[t].decidedBy \in OrNull(users)
    /\ \A e \in audit : e.actor \in OrNull(users)
=============================================================================
