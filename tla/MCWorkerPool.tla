---------------------------- MODULE MCWorkerPool ----------------------------
(* Small instances of WorkerPool for TLC.                                  *)
EXTENDS WorkerPool, TLC

\* Worker slots are interchangeable, and no property mentions one.
WorkerSymmetry == Permutations(Workers)
=============================================================================
