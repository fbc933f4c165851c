----------------------------- MODULE Resilience -----------------------------
(***************************************************************************)
(* The pure retry and recovery policy (src/harness/resilience.py).  Times  *)
(* are in ticks of the composing module's clock; the four tuning constants *)
(* of the source are parameters, so that a small model keeps their order   *)
(* and their boundaries without their size.                                *)
(***************************************************************************)
EXTENDS Integers

CONSTANTS BASE_BACKOFF_SECONDS, MAX_BACKOFF_SECONDS,
          CIRCUIT_COOLDOWN_SECONDS, CIRCUIT_FAILURE_THRESHOLD

ASSUME ResilienceAssumption ==
  /\ BASE_BACKOFF_SECONDS \in Nat \ {0}
  /\ MAX_BACKOFF_SECONDS \in Nat \ {0}
  /\ CIRCUIT_COOLDOWN_SECONDS \in Nat \ {0}
  /\ CIRCUIT_FAILURE_THRESHOLD \in Nat \ {0}

RETRYABLE_FAILURES == {"transient", "rate_limited", "quality_failure"}

CIRCUIT_FAILURES == {"transient", "rate_limited"}

Lesser(a, b) == IF a <= b THEN a ELSE b
Greater(a, b) == IF a >= b THEN a ELSE b

\* Bounded exponential backoff; an explicit rate limit may exceed the bound.
retry_delay_seconds(class, attempt, retryAfter) ==
  LET exponential ==
        Lesser(BASE_BACKOFF_SECONDS * 2^Greater(attempt - 1, 0),
               MAX_BACKOFF_SECONDS)
  IN  IF class = "rate_limited" THEN Greater(exponential, retryAfter)
                                ELSE exponential

\* Faulty: what the worker says of the side effect is not looked at.
requires_recovery_by_class(class, side) == class = "uncertain_side_effect"

\* An unknown side effect overrides every other class.
requires_recovery(class, side) ==
  class = "uncertain_side_effect" \/ side = "unknown"

=============================================================================
