----------------------------- MODULE MCRequeue -----------------------------
(* Small instances of the ingress pipeline for TLC.                        *)
EXTENDS Requeue, TLC

CONSTANTS m1, m2, m3, w1, w2

MCMsgs == {m1, m2, m3}
MCWorkers == {w1, w2}
MCOversized == {m3}

(* Workers are interchangeable; used by the safety-only runs.             *)
WorkerSymmetry == Permutations(MCWorkers)
=============================================================================
