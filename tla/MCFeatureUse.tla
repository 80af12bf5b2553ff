---------------------------- MODULE MCFeatureUse ----------------------------
(* A small instance of VelocityFeatures and FeatureUse: three transactions *)
(* of two cards at times 0, 1 and 3, with an "hour" of one and a "day" of  *)
(* two, a third of the rows held out for testing.                          *)
EXTENDS FeatureUse, TLC

CONSTANTS k1, k2, e1, j1, j2

TwoCards == {k1, k2}
OneEmail == {e1}
TwoAmounts == {1, 2}
SomeTimes == {0, 1, 3}
SomeEvents == {1, 3, 4}
ThreeIds == 1..3
TwoJobs == {j1, j2}
CardSymmetry == Permutations(Cards) \cup Permutations(Jobs)
=============================================================================
