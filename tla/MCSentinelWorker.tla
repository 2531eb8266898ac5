-------------------------- MODULE MCSentinelWorker --------------------------
(* TLC instances of the workers draining the queue. *)
EXTENDS SentinelWorker, TLC

\* Workers and claim ids are interchangeable.
Symmetry == Permutations(Workers) \cup Permutations(ClaimIds)
=============================================================================
