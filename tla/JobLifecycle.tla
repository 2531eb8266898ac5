---------------------------- MODULE JobLifecycle ----------------------------
(***************************************************************************)
(* What the job queue promises its callers, without Redis: the life of     *)
(* each job as seen through Outcome, Reason and get_job() in               *)
(* sentinel_os/queue_schema.py.  Structures, scripts, timers, trails and   *)
(* counters are gone; TransmissionQueue is shown to implement this.        *)
(*                                                                         *)
(* A step may move several jobs at once (the reaper works in batches), so  *)
(* the next-state relation lets every job take one of its own steps.       *)
(***************************************************************************)
EXTENDS Naturals

CONSTANTS
  Jobs,     \* job ids
  Holders,  \* identities of claims
  Limits,   \* attempt budgets
  None      \* no holder

VARIABLES
  life,    \* absent | ready | leased | done | dead
  holder,  \* the claim a leased job is held under
  tries,   \* attempts spent since admission or revival
  limit    \* attempts allowed

lifeVars == <<life, holder, tries, limit>>

Lives == {"absent", "ready", "leased", "done", "dead"}

LifeInit ==
  /\ life = [j \in Jobs |-> "absent"]
  /\ holder = [j \in Jobs |-> None]
  /\ tries = [j \in Jobs |-> 0]
  /\ limit = [j \in Jobs |-> 0]

\* One job moves from one life to another; what it owns follows.
Moves(j, from, to) == life[j] = from /\ life'[j] = to

Admit(j) ==
  /\ Moves(j, "absent", "ready")
  /\ tries'[j] = 0 /\ limit'[j] \in Limits /\ holder'[j] = None

\* Leasing spends an attempt, which must be left, on a claim of its own.
Grant(j) ==
  /\ Moves(j, "ready", "leased")
  /\ tries[j] < limit[j] /\ tries'[j] = tries[j] + 1
  /\ limit'[j] = limit[j]
  /\ holder'[j] \in Holders /\ \A i \in Jobs : holder[i] # holder'[j]

\* A leased job is completed, ...
Complete(j) ==
  /\ Moves(j, "leased", "done") \/ Moves(j, "leased", "absent")
  /\ holder'[j] = None /\ tries'[j] = tries[j] /\ limit'[j] = limit[j]

\* ... given back while attempts are left, ...
GiveBack(j) ==
  /\ Moves(j, "leased", "ready")
  /\ tries[j] < limit[j]
  /\ holder'[j] = None /\ tries'[j] = tries[j] /\ limit'[j] = limit[j]

\* ... or dead-lettered.
Bury(j) ==
  /\ Moves(j, "leased", "dead")
  /\ holder'[j] = None /\ tries'[j] = tries[j] /\ limit'[j] = limit[j]

\* Only an operator brings a dead job back, with a fresh budget.
Revive(j) ==
  /\ Moves(j, "dead", "ready")
  /\ tries'[j] = 0 /\ limit'[j] = limit[j] /\ holder'[j] = None

\* The record of a completed job is forgotten.
Forget(j) ==
  /\ Moves(j, "done", "absent")
  /\ tries'[j] = tries[j] /\ limit'[j] = limit[j] /\ holder'[j] = holder[j]

Stay(j) ==
  /\ life'[j] = life[j] /\ holder'[j] = holder[j]
  /\ tries'[j] = tries[j] /\ limit'[j] = limit[j]

JobStep(j) ==
  \/ Admit(j) \/ Grant(j) \/ Complete(j) \/ GiveBack(j)
  \/ Bury(j) \/ Revive(j) \/ Forget(j) \/ Stay(j)

LifeNext == \A j \in Jobs : JobStep(j)

LifeSpec == LifeInit /\ [][LifeNext]_lifeVars
=============================================================================
