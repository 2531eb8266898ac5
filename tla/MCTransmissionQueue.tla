------------------------ MODULE MCTransmissionQueue ------------------------
(* TLC instances of the job queue. *)
EXTENDS QueueRefinement, TLC

\* Jobs and claim ids are interchangeable.
Symmetry == Permutations(Jobs) \cup Permutations(ClaimIds)
=============================================================================
