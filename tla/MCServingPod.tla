----------------------------- MODULE MCServingPod -----------------------------
(* The pod as deployed: two workers, three failures of a probe, a liveness *)
(* probe at every second readiness probe.                                  *)
EXTENDS ServingPod

CONSTANTS w1, w2

TwoWorkers == {w1, w2}
=============================================================================
