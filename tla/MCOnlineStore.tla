---------------------------- MODULE MCOnlineStore ----------------------------
(* A small instance of OnlineStore: two entities, one of them with two *)
(* transactions in one second, after one that arrived later.           *)
EXTENDS OnlineStore, TLC

CONSTANTS m1, m2

FourRows ==
    {[id |-> 1, card |-> 100, dt |-> 1], [id |-> 2, card |-> 100, dt |-> 1],
     [id |-> 3, card |-> 100, dt |-> 0], [id |-> 4, card |-> 200, dt |-> 1]}
TwoRuns == {m1, m2}
RunSymmetry == Permutations(Runs)
=============================================================================
