---------------------------- MODULE MCOutgoingJob ----------------------------
(* Small instances of OutgoingJob for TLC.                                 *)
EXTENDS OutgoingJob, TLC

\* Worker slots are interchangeable, and no property mentions one.
WorkerSymmetry == Permutations(Workers)
=============================================================================
