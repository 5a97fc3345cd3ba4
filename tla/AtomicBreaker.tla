---------------------------- MODULE AtomicBreaker ----------------------------
(***************************************************************************)
(* What one deployment's circuit breaker promises to the requests that     *)
(* share it, when Allow, ReportSuccess and ReportFailure each take effect  *)
(* at one instant.  Every request asks Allow, calls upstream if it is      *)
(* admitted, and reports the outcome.                                      *)
(***************************************************************************)
EXTENDS BreakerOps

CONSTANT Callers         \* the requests that share the breaker

VARIABLES breaker,       \* the breaker
          phase          \* what each request is doing

vars == <<breaker, phase>>

Phases == {"idle", "calling", "probing"}

TypeOK ==
  /\ breaker \in Breaker
  /\ phase \in [Callers -> Phases]

Init ==
  /\ breaker = NewCircuitBreaker
  /\ phase = [c \in Callers |-> "idle"]

Allow(c) ==
  /\ phase[c] = "idle"
  /\ Allows(breaker)
  /\ breaker' = AfterAllow(breaker)
  /\ phase' = [phase EXCEPT ![c] = IF AllowsAsProbe(breaker) THEN "probing"
                                                             ELSE "calling"]

InFlight(c) == phase[c] \in {"calling", "probing"}

ReportSuccess(c) ==
  /\ InFlight(c)
  /\ breaker' = AfterSuccess(breaker)
  /\ phase' = [phase EXCEPT ![c] = "idle"]

ReportFailure(c) ==
  /\ InFlight(c)
  /\ breaker' = AfterFailure(breaker)
  /\ phase' = [phase EXCEPT ![c] = "idle"]

Tick ==
  /\ breaker' = BreakerTick(breaker)
  /\ UNCHANGED phase

Next ==
  \/ \E c \in Callers : Allow(c) \/ ReportSuccess(c) \/ ReportFailure(c)
  \/ Tick

Spec == Init /\ [][Next]_vars
=============================================================================
