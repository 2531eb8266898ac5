----------------------------- MODULE MCProgress -----------------------------
(* What must go on: the workers drain the queue, and the circuit breaker    *)
(* lets calls through again.  They share no state, so a behaviour is about  *)
(* one of them, chosen at the start, and fairness is assumed of that one.   *)
EXTENDS MCSentinelWorker, CircuitBreaker

VARIABLE focus  \* the component that acts in this behaviour

ProgressInit ==
  /\ focus \in {"worker", "breaker"}
  /\ WorkerInit /\ BreakerInit
  /\ focus # "worker" => payload = [j \in Jobs |-> "governed"]

ProgressNext ==
  /\ UNCHANGED focus
  /\ \/ focus = "worker" /\ WorkerNext /\ UNCHANGED breakerVars
     \/ focus = "breaker" /\ BreakerNext /\ UNCHANGED allVars

ProgressSpec ==
  /\ ProgressInit
  /\ [][ProgressNext]_<<focus, allVars, breakerVars>>
  /\ focus = "worker" => Fairness
  /\ focus = "breaker" => BreakerFairness
=============================================================================
