------------------------ MODULE MCJobQueueRefinement ------------------------
(* The refinement of AtLeastOnce by JobQueue on a small instance. *)
EXTENDS JobQueueRefinement, TLC

WorkerSymmetry == Permutations(Workers)

=============================================================================
