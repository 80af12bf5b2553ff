----------------------------- MODULE FlagHistory -----------------------------
(***************************************************************************)
(* What the review queue promises its readers: a flag appears once, its    *)
(* status only changes together with one new ledger entry that says so,    *)
(* later than every entry the flag already has, and nothing is rewritten.  *)
(***************************************************************************)
EXTENDS Naturals

CONSTANTS Txns, Analysts, None

VARIABLES status, decider, ledger

hvars == <<status, decider, ledger>>

HDecisions == {"APPROVED", "REJECTED"}

HInit ==
    /\ status = [t \in Txns |-> "ABSENT"]
    /\ decider = [t \in Txns |-> None]
    /\ ledger = {}

\* One new entry, at a moment after everything the ledger says about t.
Record(t, what, who) ==
    \E e \in ledger' \ ledger :
        /\ e.flag = t /\ e.action = what /\ e.actor = who /\ e.at \in Nat
        /\ \A f \in ledger : f.flag = t => f.at < e.at
        /\ ledger' = ledger \cup {e}

HFlag(t) ==
    /\ status[t] = "ABSENT"
    /\ status' = [status EXCEPT ![t] = "PENDING"]
    /\ decider' = [decider EXCEPT ![t] = None]
    /\ Record(t, "FLAGGED", None)

HDecide(t, d, who) ==
    /\ status[t] # "ABSENT"
    /\ status' = [status EXCEPT ![t] = d]
    /\ decider' = [decider EXCEPT ![t] = who]
    /\ Record(t, d, who)

HNext ==
    \/ \E t \in Txns : HFlag(t)
    \/ \E t \in Txns, d \in HDecisions, who \in Analysts : HDecide(t, d, who)

HSpec == HInit /\ [][HNext]_hvars
=============================================================================
