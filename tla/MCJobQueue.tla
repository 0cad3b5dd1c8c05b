----------------------------- MODULE MCJobQueue -----------------------------
(* Instances of JobQueue for TLC: symmetry for the safety runs. *)
EXTENDS JobQueue, TLC

WorkerSymmetry == Permutations(Workers)

=============================================================================
