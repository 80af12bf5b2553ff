---------------------------- MODULE MCReviewQueue ----------------------------
(* Small instances of ReviewQueue for TLC. *)
EXTENDS ReviewQueueProps

CONSTANTS t1, t2, a1, a2, r1, r2, r3

OneTxn == {t1}
TwoTxns == {t1, t2}
TwoAnalysts == {a1, a2}
ThreeRequests == {r1, r2, r3}
=============================================================================
