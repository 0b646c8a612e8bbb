----------------------------- MODULE MCJobQueue -----------------------------
(* Finite instances of JobQueue for TLC. *)
EXTENDS JobQueue, TLC

CONSTANTS w1, w2

MCNoHandler == {<<w2, 2>>}

(* Processes run the same code and nothing orders them. *)
WorkerSymmetry == Permutations(Workers)
=============================================================================
