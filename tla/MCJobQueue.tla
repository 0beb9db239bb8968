------------------------------ MODULE MCJobQueue ------------------------------
(* Small instances of JobQueue for TLC. *)
EXTENDS JobQueue, TLC

WorkerSymmetry == Permutations(Workers)

===============================================================================
