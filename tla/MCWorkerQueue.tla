--------------------------- MODULE MCWorkerQueue ----------------------------
(* WorkerQueue with interchangeable workers, for the safety run with two.  *)
EXTENDS WorkerQueue, TLC

WorkerSymmetry == Permutations(Workers)
=============================================================================
