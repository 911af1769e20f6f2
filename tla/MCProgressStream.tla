-------------------------- MODULE MCProgressStream --------------------------
(* ProgressStream, with the queue below it, on small instances, for TLC.   *)
EXTENDS ProgressStream

CONSTANTS w1, w2

MCWorkers == {w1, w2}
=============================================================================
