---------------------------- MODULE MCModelRelease ----------------------------
(* Two trainings and one server; three test rows with any labels, their    *)
(* scores all different or two of them the same.                           *)
EXTENDS ModelRelease

CONSTANTS r1, r2, s1

TwoTrainings == {r1, r2}
OneServer == {s1}
Rows(scores) == {[i \in 1..3 |-> [score |-> scores[i], fraud |-> labels[i]]] : labels \in [1..3 -> BOOLEAN]}
SmallHoldouts == Rows(<<1, 2, 3>>) \cup Rows(<<1, 1, 2>>)
=============================================================================
