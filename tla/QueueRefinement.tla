-------------------------- MODULE QueueRefinement --------------------------
(***************************************************************************)
(* The queue implements the job lifecycle it promises.  A job is ready     *)
(* while its id waits in the pending list or the scheduled set, and a      *)
(* leased job is held under the claim id stamped on its hash.              *)
(***************************************************************************)
EXTENDS TransmissionQueue

LifeOf(st) ==
  CASE st \in {"pending", "scheduled"} -> "ready"
    [] st = "processing" -> "leased"
    [] OTHER -> st

lifeBar == [j \in Jobs |-> LifeOf(status[j])]

Lifecycle == INSTANCE JobLifecycle
  WITH Holders <- ClaimIds, Limits <- Budgets, None <- Nil,
       life <- lifeBar, holder <- claimId, tries <- attempts, limit <- budget

\* Every script, crash, retry and clock tick of the queue is a step of the job
\* lifecycle that queue_schema.py promises, or changes nothing of it.
ImplementsLifecycle == Lifecycle!LifeSpec
=============================================================================
