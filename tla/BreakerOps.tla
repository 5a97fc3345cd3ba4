----------------------------- MODULE BreakerOps -----------------------------
(***************************************************************************)
(* What the three operations of router/circuit_breaker.go do when they run *)
(* without interference.  A breaker is the record of its four atomics:     *)
(*                                                                         *)
(*   state     the CircuitState                                            *)
(*   failures  the failure count; only its comparison with the threshold   *)
(*             is ever read, so it saturates there                         *)
(*   openedAt  the AGE of the openedAtUnix stamp, in ticks; only its       *)
(*             comparison with openDuration is ever read, so it saturates  *)
(*             there.  Unset stands for the zero stamp                     *)
(*   probe     probeInFlight                                               *)
(*                                                                         *)
(* CircuitBreaker refines these operations into the single loads, stores   *)
(* and compare-and-swaps of the code; Fallback and Speculative use them as *)
(* atomic steps.                                                           *)
(***************************************************************************)
EXTENDS Integers, FiniteSets

CONSTANTS Threshold,     \* failureThreshold
          OpenDuration   \* openDuration, in ticks

ASSUME ThresholdAssumption == Threshold \in Nat \ {0}
ASSUME OpenDurationAssumption == OpenDuration \in Nat \ {0}

Closed   == "closed"
Open     == "open"
HalfOpen == "halfOpen"

CircuitState == {Closed, Open, HalfOpen}

Unset == -1
Ages  == 0..OpenDuration

Breaker == [state    : CircuitState,
            failures : 0..Threshold,
            openedAt : Ages \cup {Unset},
            probe    : BOOLEAN]

BreakerOf(s, f, o, p) == [state |-> s, failures |-> f, openedAt |-> o, probe |-> p]

NewCircuitBreaker == BreakerOf(Closed, 0, Unset, FALSE)

(* One tick of the clock, and one failure more, both saturating. *)
Aged(age) == IF age \in 0..(OpenDuration - 1) THEN age + 1 ELSE age
Counted(n) == IF n < Threshold THEN n + 1 ELSE n

(* The cooldown test of Allow: a stamp that is set and old enough. *)
CooledDown(age) == age >= OpenDuration

BreakerTick(b) == BreakerOf(b.state, b.failures, Aged(b.openedAt), b.probe)

----------------------------------------------------------------------------
(* Allow: the verdict, and the breaker it leaves. *)
Allows(b) ==
  \/ b.state = Closed
  \/ b.state = Open /\ (b.openedAt = Unset \/ CooledDown(b.openedAt))
  \/ b.state = HalfOpen /\ ~b.probe

(* The caller that Allow admits is the half-open probe. *)
AllowsAsProbe(b) ==
  \/ b.state = Open /\ b.openedAt # Unset /\ CooledDown(b.openedAt)
  \/ b.state = HalfOpen /\ ~b.probe

AfterAllow(b) ==
  IF AllowsAsProbe(b) THEN BreakerOf(HalfOpen, b.failures, b.openedAt, TRUE) ELSE b

AfterSuccess(b) == NewCircuitBreaker

AfterFailure(b) ==
  IF b.state = HalfOpen THEN BreakerOf(Open, b.failures, 0, FALSE)
  ELSE IF Counted(b.failures) = Threshold THEN BreakerOf(Open, Threshold, 0, b.probe)
  ELSE BreakerOf(b.state, Counted(b.failures), b.openedAt, b.probe)
=============================================================================
