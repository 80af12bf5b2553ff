--------------------------- MODULE MCFlagPipeline ---------------------------
(* A small instance of FlagPipeline: one payment and three calls, so that it *)
(* is sent again while its first POST is still on the way.                   *)
EXTENDS FlagPipeline

CONSTANTS p1, c1, c2, c3

OnePayment == {p1}
ThreeCalls == {c1, c2, c3}
SomeScores == 0..2
=============================================================================
