------------------------- MODULE MCNerisSubmission -------------------------
(* Small instances of one report and the workers that send it for TLC. *)
EXTENDS NerisSubmission, TLC

\* Invocations of the worker are interchangeable.
WorkerSymmetry == Permutations(Workers)
=============================================================================
