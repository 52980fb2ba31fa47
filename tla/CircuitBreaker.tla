----------------------------- MODULE CircuitBreaker -----------------------------
(***************************************************************************)
(* The circuit breaker that services put before Redis, MinIO, Milvus and   *)
(* the registry.  Each process has one per dependency; every operation on  *)
(* it is atomic, under its lock.  A breaker is a value here and the        *)
(* operations are functions on it, for the modules whose actions make the  *)
(* calls: whoever asks first and records the outcome later does so in two  *)
(* steps, and other threads record theirs in between.                      *)
(*                                                                         *)
(* The clock is reduced to what is asked of it: whether the recovery       *)
(* timeout has passed since the breaker opened.                            *)
(***************************************************************************)
EXTENDS Naturals

CONSTANTS
  Threshold,    \* dsai_failure_threshold
  Probes        \* dsai_half_open_success_threshold

ASSUME BreakerAssumption == Threshold \in Nat \ {0} /\ Probes \in Nat \ {0}

\* failures counts up to Threshold only: nothing tells larger counts apart.
Breakers == [state : {"closed", "open", "half"}, failures : 0 .. Threshold,
             successes : 0 .. Probes - 1, cool : BOOLEAN]

Closed == [state |-> "closed", failures |-> 0, successes |-> 0, cool |-> FALSE]

Opened(n) == [state |-> "open", failures |-> n, successes |-> 0, cool |-> FALSE]

HalfOpen(n, s) == [state |-> "half", failures |-> n, successes |-> s, cool |-> FALSE]

\* Whether a caller that asks now may go on.
Admits(b) == b.state # "open" \/ b.cool

\* Asking after the recovery timeout lets the caller, and all others, probe.
Asked(b) == IF b.state = "open" /\ b.cool THEN HalfOpen(b.failures, 0) ELSE b

\* A success in half-open counts towards closing, in closed it forgets the failures;
\* one that comes in while the breaker is open belongs to an earlier call.
Succeeded(b) ==
  CASE b.state = "half" /\ b.successes + 1 < Probes -> HalfOpen(b.failures, b.successes + 1)
    [] b.state = "open" -> b
    [] OTHER -> Closed

OneMore(n) == IF n < Threshold THEN n + 1 ELSE n

\* A failure counts in every state.  In half-open it opens the breaker at once; while it
\* is open it does not put off the recovery.
Failed(b) ==
  LET n == OneMore(b.failures) IN
  CASE b.state = "open" -> [state |-> "open", failures |-> n, successes |-> 0, cool |-> b.cool]
    [] b.state = "half" \/ (b.state = "closed" /\ n >= Threshold) -> Opened(n)
    [] OTHER -> [state |-> "closed", failures |-> n, successes |-> 0, cool |-> FALSE]

\* The recovery timeout passes.
Cools(b) == b.state = "open" /\ ~b.cool

Cooled(b) == [state |-> b.state, failures |-> b.failures, successes |-> b.successes,
              cool |-> TRUE]
================================================================================
