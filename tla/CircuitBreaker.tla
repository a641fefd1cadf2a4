--------------------------- MODULE CircuitBreaker ---------------------------
(***************************************************************************)
(* The circuit breaker of src/infrastructure/resilience/circuit_breaker.py *)
(* as the callers that share one breaker use it.  Every method body runs   *)
(* under an asyncio.Lock and holds no await, so each is one atomic step;   *)
(* the protected call itself is awaited outside the lock, so between the   *)
(* admission of a call and the recording of its result any number of steps *)
(* of other callers may happen, and the breaker may change state.          *)
(*                                                                         *)
(* Abstractions.  The clock is reduced to the one comparison the code      *)
(* makes (elapsed >= timeout).  The two counters saturate at CountCap:     *)
(* they are only ever compared with the thresholds, which CountCap bounds. *)
(* total_calls, total_failures, total_successes and rejection_count are    *)
(* read by nothing but get_metrics and are left out.                       *)
(*                                                                         *)
(* The specification's names carry the breaker's, for AdmissionProofs also *)
(* extends another module.                                                 *)
(***************************************************************************)
EXTENDS Naturals

CONSTANTS Callers,             \* the coroutines that call through the breaker
          FailureThreshold,    \* config.failure_threshold
          SuccessThreshold,    \* config.success_threshold
          HalfOpenMaxCalls,    \* config.half_open_max_calls
          CountCap             \* where the modelled counters saturate

ASSUME ConfigAssumption ==
    /\ FailureThreshold \in Nat \ {0}
    /\ SuccessThreshold \in Nat \ {0}
    /\ HalfOpenMaxCalls \in Nat \ {0}
    /\ CountCap \in Nat
    /\ FailureThreshold <= CountCap
    /\ SuccessThreshold <= CountCap
    /\ HalfOpenMaxCalls <= CountCap

VARIABLES
    state,              \* _state
    failure_count,      \* _failure_count
    success_count,      \* _success_count
    last_failure_time,  \* _last_failure_time against now: "none", "recent", "elapsed"
    call,               \* per caller: where it is in async_wrapper
    service,            \* external: whether the protected service answers
    failureRun,         \* history: failures recorded since the last recorded success
    probeRun            \* history: successes recorded since HALF_OPEN was last entered

breaker     == <<state, failure_count, success_count, last_failure_time>>
history     == <<failureRun, probeRun>>
breakerVars == <<breaker, call, service, history>>

BreakerTypeOK ==
    /\ state \in {"closed", "open", "half_open"}
    /\ failure_count \in 0..CountCap
    /\ success_count \in 0..CountCap
    /\ last_failure_time \in {"none", "recent", "elapsed"}
    /\ call \in [Callers -> {"idle", "in_flight", "rejected"}]
    /\ service \in {"up", "down"}
    /\ failureRun \in 0..CountCap
    /\ probeRun \in 0..CountCap

BreakerInit ==
    /\ state = "closed"
    /\ failure_count = 0
    /\ success_count = 0
    /\ last_failure_time = "none"
    /\ call = [c \in Callers |-> "idle"]
    /\ service \in {"up", "down"}
    /\ failureRun = 0
    /\ probeRun = 0

\* n + 1, saturating: every threshold is at most CountCap.
Bump(n) == IF n < CountCap THEN n + 1 ELSE n

-----------------------------------------------------------------------------
(* can_execute, called by async_wrapper before the protected call.         *)

Ready(c) == call[c] # "in_flight"

AdmitClosed(c) ==
    /\ Ready(c)
    /\ state = "closed"
    /\ call' = [call EXCEPT ![c] = "in_flight"]
    /\ UNCHANGED <<breaker, service, history>>

\* Mutants: the success count survives; the state is no member of the enum.
EnterHalfOpen_KeepsSuccesses == state' = "half_open" /\ UNCHANGED success_count
EnterHalfOpen_Misspelt == state' = "half-open" /\ success_count' = 0

EnterHalfOpen == state' = "half_open" /\ success_count' = 0

\* The timeout has elapsed: this call moves the breaker to HALF_OPEN.
AdmitFirstProbe(c) ==
    /\ Ready(c)
    /\ state = "open"
    /\ last_failure_time = "elapsed"
    /\ EnterHalfOpen
    /\ call' = [call EXCEPT ![c] = "in_flight"]
    /\ probeRun' = 0
    /\ UNCHANGED <<failure_count, last_failure_time, service, failureRun>>

\* In HALF_OPEN the code compares recorded successes, not calls in flight.
AdmitProbe(c) ==
    /\ Ready(c)
    /\ state = "half_open"
    /\ success_count < HalfOpenMaxCalls
    /\ call' = [call EXCEPT ![c] = "in_flight"]
    /\ UNCHANGED <<breaker, service, history>>

\* CircuitBreakerOpenError: nothing of the breaker changes.
Reject(c) ==
    /\ Ready(c)
    /\ state # "closed"
    /\ ~(state = "open" /\ last_failure_time = "elapsed")
    /\ ~(state = "half_open" /\ success_count < HalfOpenMaxCalls)
    /\ call' = [call EXCEPT ![c] = "rejected"]
    /\ UNCHANGED <<breaker, service, history>>

CanExecute(c) == AdmitClosed(c) \/ AdmitFirstProbe(c) \/ AdmitProbe(c) \/ Reject(c)

-----------------------------------------------------------------------------
(* The protected call returns, raises or is cancelled.                     *)

\* _close_circuit
CloseCircuit ==
    /\ state' = "closed"
    /\ failure_count' = 0
    /\ success_count' = 0

\* _open_circuit
OpenCircuit ==
    /\ state' = "open"
    /\ success_count' = 0

\* Mutant: one success too many is asked for.
SuccessesSuffice_Strict == Bump(success_count) > SuccessThreshold

\* The comparisons are made after the result has been counted.
SuccessesSuffice == Bump(success_count) >= SuccessThreshold

\* Mutant: the threshold is compared before the failure is counted.
FailuresSuffice_CountedLate == failure_count >= FailureThreshold

FailuresSuffice == Bump(failure_count) >= FailureThreshold

\* record_success: in CLOSED, and in OPEN too, a success clears the failures.
RecordSuccess(c) ==
    /\ call[c] = "in_flight"
    /\ service = "up"
    /\ call' = [call EXCEPT ![c] = "idle"]
    /\ IF state = "half_open"
       THEN IF SuccessesSuffice
            THEN CloseCircuit
            ELSE /\ success_count' = Bump(success_count)
                 /\ UNCHANGED <<state, failure_count>>
       ELSE /\ success_count' = Bump(success_count)
            /\ failure_count' = 0
            /\ UNCHANGED state
    /\ failureRun' = 0
    /\ probeRun' = Bump(probeRun)
    /\ UNCHANGED <<last_failure_time, service>>

\* record_failure: every exception is tracked in every configuration of the
\* repository; in OPEN a late failure only restarts the timeout.
RecordFailure(c) ==
    /\ call[c] = "in_flight"
    /\ service = "down"
    /\ call' = [call EXCEPT ![c] = "idle"]
    /\ failure_count' = Bump(failure_count)
    /\ last_failure_time' = "recent"
    /\ IF \/ state = "closed" /\ FailuresSuffice
          \/ state = "half_open"
       THEN OpenCircuit
       ELSE UNCHANGED <<state, success_count>>
    /\ failureRun' = Bump(failureRun)
    /\ UNCHANGED <<service, probeRun>>

\* asyncio.CancelledError is no Exception: nothing is recorded.
Cancelled(c) ==
    /\ call[c] = "in_flight"
    /\ call' = [call EXCEPT ![c] = "idle"]
    /\ UNCHANGED <<breaker, service, history>>

-----------------------------------------------------------------------------
(* The environment.                                                        *)

\* time.time() - _last_failure_time reaches config.timeout.
TimeoutElapses ==
    /\ last_failure_time = "recent"
    /\ last_failure_time' = "elapsed"
    /\ UNCHANGED <<state, failure_count, success_count, call, service, history>>

\* The protected service fails or recovers.
ServiceChanges ==
    /\ service' = IF service = "up" THEN "down" ELSE "up"
    /\ UNCHANGED <<breaker, call, history>>

BreakerNext ==
    \/ \E c \in Callers :
          CanExecute(c) \/ RecordSuccess(c) \/ RecordFailure(c) \/ Cancelled(c)
    \/ TimeoutElapses
    \/ ServiceChanges

BreakerSpec == BreakerInit /\ [][BreakerNext]_breakerVars

(* Callers keep calling, the clock advances, and a call to a service that  *)
(* answers is not cancelled every single time.                             *)
Fairness ==
    /\ WF_breakerVars(TimeoutElapses)
    /\ \A c \in Callers : WF_breakerVars(CanExecute(c)) /\ SF_breakerVars(RecordSuccess(c))

FairSpec == BreakerSpec /\ Fairness

-----------------------------------------------------------------------------
(* Properties.                                                             *)

\* While CLOSED the breaker has seen exactly the failures recorded since the
\* last success, and fewer of them than failure_threshold: it never stays
\* closed on a full run of failures, and no success is forgotten by the run.
ClosedBelowThreshold ==
    state = "closed" => failure_count = failureRun /\ failureRun < FailureThreshold

\* HALF_OPEN never starves: as long as the breaker stays in it, can_execute
\* still admits a call, so the breaker cannot be stuck rejecting everything
\* with no timeout left to wait for.
HalfOpenAdmits == state = "half_open" => success_count < HalfOpenMaxCalls

\* _close_circuit is reached only after success_threshold successes that were
\* recorded since the breaker entered HALF_OPEN, whatever late results of
\* earlier calls were recorded while it was OPEN.
ClosesAfterProbes ==
    [][state # "closed" /\ state' = "closed" =>
          state = "half_open" /\ probeRun' >= SuccessThreshold]_breakerVars

\* A service that recovers for good is eventually called through a closed
\* breaker again (the "automatic recovery testing" of the deployment guide).
Recovers == <>[](service = "up") => <>[](state = "closed")

=============================================================================
