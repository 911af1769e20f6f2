----------------------------- MODULE MCJobQueue -----------------------------
(* JobQueue on small instances, for TLC.                                   *)
EXTENDS JobQueue

CONSTANTS w1, w2

MCWorkers == {w1, w2}
MCOneWorker == {w1}
=============================================================================
