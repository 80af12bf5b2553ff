---------------------------- MODULE MCIngestion ----------------------------
(* A small instance of Ingestion: two loads of a four-row file in chunks of *)
(* at most three rows, so the last chunk is short, and one reconciliation.  *)
EXTENDS Ingestion, TLC

CONSTANTS l1, l2, q1

TwoLoads == {l1, l2}
OneRec == {q1}
LoadSymmetry == Permutations(Loads)
=============================================================================
