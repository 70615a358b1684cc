---------------------------- MODULE MCJobWorker ----------------------------
(* JobWorker for TLC: the request handlers are interchangeable. *)
EXTENDS JobWorker, TLC

HandlerSymmetry == Permutations(Handlers)
=============================================================================
