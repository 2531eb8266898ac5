--------------------------- MODULE CircuitBreaker ---------------------------
(***************************************************************************)
(* sentinel_os/circuit_breaker.py: one breaker shared by the threads that   *)
(* call one dependency.  The lock covers admission and the recording of an  *)
(* outcome, each on its own; the protected call runs between the two with   *)
(* the lock released, so an outcome may be recorded in a later state of the *)
(* breaker than the one that admitted the call.                            *)
(*                                                                         *)
(* Time is the number of ticks since opened_at, counted up to the timeout.  *)
(* The lifetime counters (total_calls, ...) gate nothing and are left out;  *)
(* `probes`, `latest` and `fate` are observers: the calls that took the     *)
(* probe slot and are still out, and what became of the last of them.      *)
(***************************************************************************)
EXTENDS Naturals

CONSTANTS
  Callers,           \* threads sharing the breaker
  FailureThreshold,  \* failure_threshold
  SuccessThreshold,  \* half_open_success_threshold
  ResetTimeout,      \* reset_timeout_s, in ticks
  NoCaller           \* nobody

ASSUME BreakerAssumption ==
  /\ FailureThreshold \in Nat \ {0}
  /\ SuccessThreshold \in Nat \ {0}
  /\ ResetTimeout \in Nat \ {0}
  /\ NoCaller \notin Callers

VARIABLES
  circuit,    \* _state
  failures,   \* _failure_count, counted up to the threshold
  successes,  \* _half_open_successes
  openFor,    \* ticks since _opened_at, counted up to ResetTimeout
  probing,    \* _half_open_probe_in_flight
  inCall,     \* the callers whose protected call has not returned
  probes,     \* observer: those of them that were admitted as probes
  latest,     \* observer: the caller that last set the probe flag
  fate        \* observer: out | back | lost, what became of that probe

breakerVars == <<circuit, failures, successes, openFor, probing, inCall,
                 probes, latest, fate>>

BreakerInit ==
  /\ circuit = "closed" /\ failures = 0 /\ successes = 0
  /\ openFor = 0 /\ probing = FALSE
  /\ inCall = {} /\ probes = {} /\ latest = NoCaller /\ fate = "back"

Capped(n, max) == IF n < max THEN n ELSE max

-----------------------------------------------------------------------------
(* _state_locked: an open breaker whose timeout has passed becomes half     *)
(* open the next time anybody looks, with a free probe slot.                *)
HalfOpens == circuit = "open" /\ openFor >= ResetTimeout

State == IF HalfOpens THEN "half_open" ELSE circuit

SettledSuccesses == IF HalfOpens THEN 0 ELSE successes

SlotTaken == IF HalfOpens THEN FALSE ELSE probing

\* What a look at the breaker leaves behind: the state it settled in.
StateLocked ==
  /\ circuit' = State
  /\ successes' = SettledSuccesses
  /\ UNCHANGED <<failures, openFor>>

\* state and snapshot(): reading the breaker settles it too.
Look ==
  /\ HalfOpens
  /\ StateLocked /\ probing' = SlotTaken
  /\ UNCHANGED <<inCall, probes, latest, fate>>

\* Seeded fault: a rejected call restarts the timeout.
RejectCallRestarting(c) ==
  /\ c \notin inCall
  /\ State = "open" \/ (State = "half_open" /\ SlotTaken)
  /\ circuit' = State /\ successes' = SettledSuccesses /\ probing' = SlotTaken
  /\ openFor' = 0
  /\ UNCHANGED <<failures, inCall, probes, latest, fate>>

\* call(), refused: CircuitOpenError without calling the function.
RejectCall(c) ==
  /\ c \notin inCall
  /\ State = "open" \/ (State = "half_open" /\ SlotTaken)
  /\ StateLocked /\ probing' = SlotTaken
  /\ UNCHANGED <<inCall, probes, latest, fate>>

\* call(), admitted: a half-open breaker gives its one probe slot away.
AdmitCall(c) ==
  /\ c \notin inCall
  /\ State = "closed" \/ (State = "half_open" /\ ~SlotTaken)
  /\ StateLocked
  /\ inCall' = inCall \cup {c}
  /\ IF State = "half_open"
     THEN probing' = TRUE /\ probes' = probes \cup {c} /\ latest' = c /\ fate' = "out"
     ELSE UNCHANGED <<probing, probes, latest, fate>>

-----------------------------------------------------------------------------
(* Outcomes are recorded in whatever state the breaker is in when the call  *)
(* returns; only admission settles the timeout.                            *)
Back(c) ==
  /\ c \in inCall
  /\ inCall' = inCall \ {c} /\ probes' = probes \ {c}
  /\ UNCHANGED latest
  /\ fate' = IF latest = c THEN "back" ELSE fate

\* Seeded fault: success in the half-open state keeps the probe flag.
OnSuccessSticky(c) ==
  /\ Back(c)
  /\ \/ /\ circuit = "half_open" /\ successes + 1 < SuccessThreshold
        /\ successes' = successes + 1
        /\ UNCHANGED <<circuit, failures, openFor, probing>>
     \/ /\ circuit = "half_open" /\ successes + 1 >= SuccessThreshold
        /\ circuit' = "closed" /\ successes' = successes + 1
        /\ failures' = 0 /\ openFor' = 0 /\ probing' = FALSE
     \/ /\ circuit = "closed" /\ failures' = 0
        /\ UNCHANGED <<circuit, successes, openFor, probing>>
     \/ /\ circuit = "open"
        /\ UNCHANGED <<circuit, failures, successes, openFor, probing>>

\* _on_success.  An open breaker ignores the success of an older call.
OnSuccess(c) ==
  /\ Back(c)
  /\ \/ /\ circuit = "half_open" /\ successes + 1 < SuccessThreshold
        /\ successes' = successes + 1 /\ probing' = FALSE
        /\ UNCHANGED <<circuit, failures, openFor>>
     \/ /\ circuit = "half_open" /\ successes + 1 >= SuccessThreshold
        /\ circuit' = "closed" /\ successes' = successes + 1
        /\ failures' = 0 /\ openFor' = 0 /\ probing' = FALSE
     \/ /\ circuit = "closed" /\ failures' = 0
        /\ UNCHANGED <<circuit, successes, openFor, probing>>
     \/ /\ circuit = "open"
        /\ UNCHANGED <<circuit, failures, successes, openFor, probing>>

\* _reopen_locked: the timeout starts anew, also when already open.
Reopen == circuit' = "open" /\ openFor' = 0 /\ successes' = 0

\* _on_failure, for an exception and for a result is_failure() rejects.
OnFailure(c) ==
  /\ Back(c)
  /\ \/ /\ circuit = "half_open"
        /\ Reopen /\ probing' = FALSE
        /\ UNCHANGED failures
     \/ /\ circuit # "half_open"
        /\ failures' = Capped(failures + 1, FailureThreshold)
        /\ IF failures + 1 >= FailureThreshold
           THEN Reopen /\ UNCHANGED probing
           ELSE UNCHANGED <<circuit, successes, openFor, probing>>

\* A BaseException (interrupt, exit, cancellation) passes call()'s
\* "except Exception": no outcome is recorded.
Escape(c) ==
  /\ c \in inCall
  /\ inCall' = inCall \ {c} /\ probes' = probes \ {c}
  /\ fate' = IF latest = c THEN "lost" ELSE fate
  /\ UNCHANGED <<circuit, failures, successes, openFor, probing, latest>>

\* reset(): an operator forces the breaker closed.
ResetBreaker ==
  /\ circuit' = "closed" /\ failures' = 0 /\ successes' = 0
  /\ openFor' = 0 /\ probing' = FALSE
  /\ UNCHANGED <<inCall, probes, latest, fate>>

\* The clock.  A closed breaker has no opened_at.
BreakerTick ==
  /\ circuit # "closed"
  /\ openFor' = Capped(openFor + 1, ResetTimeout)
  /\ UNCHANGED <<circuit, failures, successes, probing, inCall, probes, latest, fate>>

BreakerNext ==
  \/ Look \/ ResetBreaker \/ BreakerTick
  \/ \E c \in Callers :
       RejectCall(c) \/ AdmitCall(c) \/ OnSuccess(c) \/ OnFailure(c) \/ Escape(c)

(* The clock runs; somebody keeps looking at the breaker (callers keep     *)
(* arriving, or a health endpoint reads it).  A protected call has its own *)
(* timeout (circuit_breaker.py lines 36-41), so it ends one way or another.*)
BreakerFairness ==
  /\ WF_breakerVars(BreakerTick)
  /\ WF_breakerVars(Look)
  /\ \A c \in Callers :
       WF_breakerVars(OnSuccess(c) \/ OnFailure(c) \/ Escape(c))

BreakerSpec == BreakerInit /\ [][BreakerNext]_breakerVars /\ BreakerFairness

-----------------------------------------------------------------------------
BreakerTypeOK ==
  /\ circuit \in {"closed", "open", "half_open"}
  /\ failures \in 0..FailureThreshold
  /\ successes \in 0..SuccessThreshold
  /\ openFor \in 0..ResetTimeout
  /\ probing \in BOOLEAN
  /\ inCall \subseteq Callers /\ probes \subseteq inCall
  /\ latest \in Callers \cup {NoCaller}
  /\ fate \in {"out", "back", "lost"}

(* A taken probe slot is somebody's: while the breaker refuses callers in   *)
(* the half-open state because "a probe is already in flight", the call     *)
(* that took the slot is still running or was lost to an exception call()   *)
(* does not catch.  Outcomes of older calls, arriving in any state of the   *)
(* breaker, never leave the slot taken by nobody.                           *)
ProbeAccounted ==
  probing => /\ circuit = "half_open"
             /\ fate = "out" => latest \in inCall
             /\ fate # "back"

(* An open breaker does not stay open: calls admitted before it opened may  *)
(* fail late and restart its timeout, but there are only so many of them,   *)
(* and a rejected caller restarts nothing.                                  *)
BreakerRecovers == circuit = "open" ~> circuit # "open"

-----------------------------------------------------------------------------
(* What the repository says and the code does not keep.                     *)

\* "only one probe is outstanding at a time" (call(), lines 194-196).  Any
\* outcome recorded in the half-open state frees the slot, also that of a call
\* that was admitted long before.
OneProbeAtATime == \A c, d \in probes : circuit = "half_open" => c = d
=============================================================================
