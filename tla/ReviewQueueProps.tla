-------------------------- MODULE ReviewQueueProps --------------------------
(* What the review queue owes its analysts and its audit trail. *)
EXTENDS ReviewQueue

DecisionsOn(t) == {e \in Trail(t) : e.action \in Decisions}

(***************************************************************************)
(* create_flag and decide_flag are each one transaction: whatever fails in *)
(* between, a flag exists exactly when it has its single FLAGGED entry,    *)
(* and is PENDING exactly when no decision has been recorded for it.       *)
(***************************************************************************)
TrailMatchesFlags ==
    \A t \in Txns :
        /\ Present(t) <=> \E e \in Trail(t) : e.action = "FLAGGED"
        /\ \A e, f \in Trail(t) : e.action = "FLAGGED" /\ f.action = "FLAGGED" => e = f
        /\ Decided(t) <=> DecisionsOn(t) # {}

(***************************************************************************)
(* Read in created_at order, as AuditLogEntry.Meta orders it, a trail      *)
(* begins with FLAGGED and ends with the decision and the analyst the flag *)
(* row shows, also when two decisions raced for the row.                   *)
(***************************************************************************)
TrailReadsAsHistory ==
    \A t \in Txns :
        /\ \A e, f \in Trail(t) : e.action = "FLAGGED" /\ f # e => e.at < f.at
        /\ Decided(t) =>
              \E e \in DecisionsOn(t) :
                  /\ \A f \in Trail(t) \ {e} : f.at < e.at
                  /\ e.action = flags[t].status
                  /\ e.actor = flags[t].decidedBy
                  /\ flags[t].decidedAt < e.at

(***************************************************************************)
(* A transaction id is flagged once however often it is posted: one        *)
(* request at most is told 201, and a 201 is never taken back.             *)
(***************************************************************************)
CreatedOnce ==
    \A r \in Requests : req[r].reply = 201 =>
        /\ Present(req[r].txn)
        /\ \A s \in Requests : req[s].reply = 201 /\ req[s].txn = req[r].txn => s = r

(***************************************************************************)
(* A detail page adds up: a decided status on it is explained by an entry  *)
(* of the trail printed below, although the two come from two queries with *)
(* other requests committing in between.                                   *)
(***************************************************************************)
PageAddsUp ==
    \A r \in Requests : req[r].action = "VIEW" /\ req[r].reply = 200 =>
        /\ \E e \in req[r].entries : e.action = "FLAGGED"
        /\ req[r].flag.status \in Decisions =>
              \E e \in req[r].entries :
                  e.action = req[r].flag.status /\ e.actor = req[r].flag.decidedBy

\* A request that saw the flag PENDING and may still write its decision.
StaleDecider(t) ==
    \E r \in Requests :
        /\ req[r].txn = t /\ req[r].action \in Decisions
        /\ \/ req[r].stage = "check" /\ req[r].flag.status = "PENDING"
           \/ req[r].stage \in {"update", "insert_audit", "commit"}

(***************************************************************************)
(* decide_flag refuses a decided flag: once a decision is committed and no *)
(* request still holds the PENDING row it read before, neither the row nor *)
(* its trail ever changes again.                                           *)
(***************************************************************************)
DecisionIsFinal ==
    [][\A t \in Txns : Decided(t) /\ ~StaleDecider(t) =>
           flags'[t] = flags[t] /\ Trail(t)' = Trail(t) /\ ~StaleDecider(t)']_vars

(***************************************************************************)
(* Every request that was received comes to an end: the only wait is for a *)
(* row or key lock, and its holder never waits for another one.            *)
(***************************************************************************)
EveryRequestEnds ==
    \A r \in Requests : req[r].stage # "new" ~> req[r].stage = "done"

(***************************************************************************)
(* "a double-submitted approve/reject must not produce a second audit      *)
(* entry" (docs/decisions.md): one decision at most per flag.              *)
(***************************************************************************)
AtMostOneDecision ==
    \A t \in Txns : \A e, f \in DecisionsOn(t) : e = f

-----------------------------------------------------------------------------
(***************************************************************************)
(* The queue implements FlagHistory: every committed step of every request *)
(* is one step of the history or none.                                     *)
(***************************************************************************)
History == INSTANCE FlagHistory WITH
               status  <- [t \in Txns |-> flags[t].status],
               decider <- [t \in Txns |-> flags[t].decidedBy],
               ledger  <- audit

HistorySpec == History!HSpec
=============================================================================
