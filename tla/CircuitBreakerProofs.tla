------------------------ MODULE CircuitBreakerProofs ------------------------
(***************************************************************************)
(* What holds of the circuit breaker for every number of requests, every   *)
(* threshold and every cooldown.                                           *)
(***************************************************************************)
EXTENDS MCCircuitBreaker, TLAPS

(* The saturating clock and counter stay in their ranges. *)
LEMMA AgedType == \A a \in Ages \cup {Unset} :
                     /\ Aged(a) \in Ages \cup {Unset}
                     /\ a \in Ages => Aged(a) \in Ages
BY OpenDurationAssumption DEF Ages, Unset, Aged

(* A counted number of failures stays below the threshold or at it.        *)
LEMMA CountedType == \A n \in 0..Threshold : Counted(n) \in 0..Threshold
BY ThresholdAssumption DEF Counted

(* Every atomic of the breaker and every register of a request keeps its   *)
(* type: the stamp never leaves the cooldown's range, the count never      *)
(* leaves the threshold's.                                                 *)
THEOREM TypeCorrect == Spec => []TypeOK
<1> USE DEF CircuitState, Closed, Open, HalfOpen, PCs, AllowPCs, SuccessPCs,
            FailurePCs, Upstream
<1>1. Init => TypeOK
  <2> SUFFICES ASSUME Init PROVE TypeOK
    OBVIOUS
  <2>1. state \in CircuitState /\ openedAt \in Ages \cup {Unset}
    BY DEF Init
  <2>2. failures \in 0..Threshold
    BY ThresholdAssumption DEF Init
  <2>3. probe \in BOOLEAN
    BY DEF Init
  <2>4. pc \in [Callers -> PCs] /\ seen \in [Callers -> Ages]
    BY OpenDurationAssumption DEF Init, Ages
  <2> QED  BY <2>1, <2>2, <2>3, <2>4 DEF TypeOK
<1>2. TypeOK /\ [Next]_vars => TypeOK'
  <2> SUFFICES ASSUME TypeOK, [Next]_vars PROVE TypeOK'
    OBVIOUS
  <2> USE DEF TypeOK, Goto, Forget
  <2>1. ASSUME NEW c \in Callers, Allow(c) PROVE TypeOK'
    <3>1. CASE AllowLoadState(c)   BY <3>1 DEF AllowLoadState
    <3>2. CASE AllowLoadStamp(c)
      <4>1. CASE openedAt = Unset
        BY <3>2, <4>1 DEF AllowLoadStamp
      <4>2. CASE openedAt # Unset
        <5>1. openedAt \in Ages  BY <4>2
        <5> QED  BY <3>2, <4>2, <5>1 DEF AllowLoadStamp
      <4> QED  BY <4>1, <4>2
    <3>3. CASE AllowReject(c)
      BY <3>3, OpenDurationAssumption DEF AllowReject, Ages
    <3>4. CASE AllowTryHalfOpen(c)
      BY <3>4, OpenDurationAssumption DEF AllowTryHalfOpen, Ages
    <3>5. CASE AllowSetProbe(c)    BY <3>5 DEF AllowSetProbe
    <3>6. CASE AllowTryProbe(c)    BY <3>6 DEF AllowTryProbe
    <3> QED  BY <2>1, <3>1, <3>2, <3>3, <3>4, <3>5, <3>6 DEF Allow
  <2>2. ASSUME NEW c \in Callers, CallReturns(c) PROVE TypeOK'
    BY <2>2 DEF CallReturns
  <2>3. ASSUME NEW c \in Callers, ReportSuccess(c) PROVE TypeOK'
    <3>1. CASE SuccessZeroFailures(c)
      BY <3>1, ThresholdAssumption DEF SuccessZeroFailures
    <3>2. CASE SuccessStoreClosed(c)   BY <3>2 DEF SuccessStoreClosed
    <3>3. CASE SuccessClearStamp(c)    BY <3>3 DEF SuccessClearStamp
    <3>4. CASE SuccessClearProbe(c)    BY <3>4 DEF SuccessClearProbe
    <3> QED  BY <2>3, <3>1, <3>2, <3>3, <3>4 DEF ReportSuccess
  <2>4. ASSUME NEW c \in Callers, ReportFailure(c) PROVE TypeOK'
    <3> 0 \in Ages  BY OpenDurationAssumption DEF Ages
    <3>1. CASE FailureLoadState(c)     BY <3>1 DEF FailureLoadState
    <3>2. CASE FailureReopen(c)        BY <3>2 DEF FailureReopen
    <3>3. CASE FailureReopenStamp(c)   BY <3>3 DEF FailureReopenStamp
    <3>4. CASE FailureReopenProbe(c)   BY <3>4 DEF FailureReopenProbe
    <3>5. CASE FailureAdd(c)           BY <3>5, CountedType DEF FailureAdd
    <3>6. CASE FailureTrip(c)          BY <3>6 DEF FailureTrip
    <3>7. CASE FailureTripStamp(c)     BY <3>7 DEF FailureTripStamp
    <3> QED  BY <2>4, <3>1, <3>2, <3>3, <3>4, <3>5, <3>6, <3>7 DEF ReportFailure
  <2>5. CASE Tick
    <3>1. \A c \in Callers : seen[c] \in Ages /\ Aged(seen[c]) \in Ages
      BY AgedType
    <3> QED  BY <2>5, <3>1, AgedType DEF Tick
  <2>6. CASE UNCHANGED vars
    BY <2>6 DEF vars
  <2> QED  BY <2>1, <2>2, <2>3, <2>4, <2>5, <2>6 DEF Next, Request
<1> QED  BY <1>1, <1>2, PTL DEF Spec

----------------------------------------------------------------------------
(* A half-open breaker always has an owner.  The property is inductive     *)
(* once the types are known: an owner gives the role up only by storing    *)
(* another state, or on seeing one.                                        *)
THEOREM HalfOpenOwned == Spec => []HalfOpenIsOwned
<1>1. Init => HalfOpenIsOwned
  BY DEF Init, HalfOpenIsOwned, Closed, HalfOpen
<1>2. TypeOK /\ HalfOpenIsOwned /\ [Next]_vars => HalfOpenIsOwned'
  <2> SUFFICES ASSUME TypeOK, HalfOpenIsOwned, [Next]_vars, state' = HalfOpen
               PROVE  \E c \in Callers : pc'[c] \in ProbeOwners
    BY DEF HalfOpenIsOwned, ProbeOwners
  <2> USE DEF Goto, Closed, Open, HalfOpen
  <2>1. ASSUME NEW c \in Callers, Request(c),
               state = HalfOpen, pc[c] \notin ProbeOwners
        PROVE  \E d \in Callers : pc'[d] \in ProbeOwners
    <3>1. PICK d \in Callers : pc[d] \in ProbeOwners
      BY <2>1 DEF HalfOpenIsOwned
    <3>2. d # c
      BY <2>1, <3>1
    <3>3. \E to \in PCs : pc' = [pc EXCEPT ![c] = to]
      BY <2>1 DEF Request, Allow, ReportSuccess, ReportFailure, CallReturns,
           AllowLoadState, AllowLoadStamp, AllowReject, AllowTryHalfOpen,
           AllowSetProbe, AllowTryProbe, SuccessZeroFailures, SuccessStoreClosed,
           SuccessClearStamp, SuccessClearProbe, FailureLoadState, FailureReopen,
           FailureReopenStamp, FailureReopenProbe, FailureAdd, FailureTrip,
           FailureTripStamp, PCs, AllowPCs, SuccessPCs, FailurePCs, Upstream
    <3>4. pc'[d] = pc[d]
      BY <3>2, <3>3 DEF TypeOK
    <3> QED  BY <3>1, <3>4
  <2>2. ASSUME NEW c \in Callers, Request(c),
               state = HalfOpen, pc[c] \in ProbeOwners
        PROVE  pc'[c] \in ProbeOwners
    BY <2>2 DEF Request, Allow, ReportSuccess, ReportFailure, CallReturns,
         AllowLoadState, AllowLoadStamp, AllowReject, AllowTryHalfOpen,
         AllowSetProbe, AllowTryProbe, SuccessZeroFailures, SuccessStoreClosed,
         SuccessClearStamp, SuccessClearProbe, FailureLoadState, FailureReopen,
         FailureReopenStamp, FailureReopenProbe, FailureAdd, FailureTrip,
         FailureTripStamp, ProbeOwners, Upstream, TypeOK
  <2>3. ASSUME NEW c \in Callers, Request(c), state # HalfOpen
        PROVE  pc'[c] \in ProbeOwners
    <3>1. AllowTryHalfOpen(c)
      BY <2>3 DEF Request, Allow, ReportSuccess, ReportFailure, CallReturns,
           AllowLoadState, AllowLoadStamp, AllowReject, AllowSetProbe,
           AllowTryProbe, SuccessZeroFailures, SuccessStoreClosed,
           SuccessClearStamp, SuccessClearProbe, FailureLoadState, FailureReopen,
           FailureReopenStamp, FailureReopenProbe, FailureAdd, FailureTrip,
           FailureTripStamp
    <3>2. pc'[c] = "setProbe"
      BY <2>3, <3>1 DEF AllowTryHalfOpen, TypeOK
    <3> QED  BY <3>2 DEF ProbeOwners
  <2>4. CASE Tick
    BY <2>4 DEF Tick, HalfOpenIsOwned, ProbeOwners
  <2>5. CASE UNCHANGED vars
    BY <2>5 DEF vars, HalfOpenIsOwned, ProbeOwners
  <2> QED  BY <2>1, <2>2, <2>3, <2>4, <2>5 DEF Next
<1> QED  BY <1>1, <1>2, TypeCorrect, PTL DEF Spec

(* An open breaker with nothing left over from before admits nobody until  *)
(* its cooldown is over: a request that arrives loads the present stamp,   *)
(* its copy ages with the shared one, and so the comparison rejects it.    *)
THEOREM ShedsUntilCooledDown == Spec => OpenBreakerSheds
<1>1. TypeOK /\ [Next]_vars => [OpenAndSettled /\ ~CooledDown(openedAt)
                                 => OpenAndSettled' \/ CooledDown(openedAt')]_vars
  <2> SUFFICES ASSUME TypeOK, Next, OpenAndSettled, ~CooledDown(openedAt),
                      ~CooledDown(openedAt')
               PROVE  OpenAndSettled'
    OBVIOUS
  <2> USE DEF Closed, Open, HalfOpen
  <2>1. ASSUME NEW c \in Callers, Request(c) PROVE OpenAndSettled'
    <3>1. AllowLoadState(c) \/ AllowLoadStamp(c) \/ AllowReject(c)
      BY <2>1 DEF OpenAndSettled, Request, Allow, ReportSuccess, ReportFailure, CallReturns,
           Upstream, AllowTryHalfOpen, AllowSetProbe, AllowTryProbe, SuccessZeroFailures,
           SuccessStoreClosed, SuccessClearStamp, SuccessClearProbe, FailureLoadState,
           FailureReopen, FailureReopenStamp, FailureReopenProbe, FailureAdd, FailureTrip,
           FailureTripStamp
    <3>2. /\ UNCHANGED <<state, openedAt>>
          /\ \A d \in Callers \ {c} : pc'[d] = pc[d] /\ seen'[d] = seen[d]
      BY <3>1 DEF AllowLoadState, AllowLoadStamp, AllowReject, Goto, Forget, TypeOK
    <3>3. \/ pc'[c] \in {"idle", "loadStamp"}
          \/ pc'[c] = "tryHalfOpen" /\ seen'[c] = openedAt
      BY <3>1 DEF AllowLoadState, AllowLoadStamp, AllowReject, Goto, OpenAndSettled, TypeOK
    <3> QED  BY <3>2, <3>3 DEF OpenAndSettled
  <2>2. CASE Tick
    <3>1. openedAt \in Ages /\ openedAt' = Aged(openedAt) /\ openedAt' # Unset
      BY <2>2 DEF Tick, OpenAndSettled, TypeOK, Aged, Ages, Unset
    <3>2. \A d \in Callers : pc[d] = "tryHalfOpen" => seen'[d] = Aged(seen[d])
      BY <2>2 DEF Tick
    <3> QED  BY <2>2, <3>1, <3>2 DEF Tick, OpenAndSettled
  <2> QED  BY <2>1, <2>2 DEF Next
<1> QED  BY <1>1, TypeCorrect, PTL DEF Spec, OpenBreakerSheds

----------------------------------------------------------------------------
(* The refinement: operations that do not overlap implement AtomicBreaker. *)
(* While an operation is under way the rest of it is known, for nobody     *)
(* else stores anything.                                                   *)

Known(c) ==
  /\ pc[c] \in {"loadStamp", "tryHalfOpen"}                => state = Open
  /\ pc[c] = "tryHalfOpen"                                 => seen[c] = openedAt
  /\ pc[c] \in {"tryProbe", "setProbe", "reopen"}          => state = HalfOpen
  /\ pc[c] \in {"storeClosed", "clearStamp", "clearProbe"} => failures = 0
  /\ pc[c] \in {"clearStamp", "clearProbe"}                => state = Closed
  /\ pc[c] = "clearProbe"                                  => openedAt = Unset
  /\ pc[c] = "addFailure"                                  => state # HalfOpen
  /\ pc[c] \in {"reopenStamp", "reopenProbe", "tripStamp"} => state = Open
  /\ pc[c] \in {"trip", "tripStamp"}                       => failures = Threshold

SerialInv ==
  /\ \A c, d \in Callers : Quiet(c) \/ Quiet(d) \/ c = d
  /\ \A c \in Callers : Known(c)

PhaseOf(label) ==
  CASE label \in {"setProbe", "probing"} -> "probing"
    [] label = "calling"                 -> "calling"
    [] OTHER                             -> "idle"

(* A request of which the others are quiet decides what the breaker is.    *)
LEMMA OneDecides ==
  ASSUME NEW c \in Callers, Serially(c)
  PROVE  AbstractBreaker = Owed(c)
<1>1. CASE Quiet(c)
  <2>1. \A d \in Callers : Quiet(d)
    BY <1>1 DEF Serially
  <2>2. Owed(c) = Stored
    BY <1>1 DEF Quiet, Owed, Upstream, SuccessPCs
  <2> QED  BY <2>1, <2>2 DEF AbstractBreaker
<1>2. CASE ~Quiet(c)
  <2>1. c = CHOOSE d \in Callers : ~Quiet(d)
    BY <1>2 DEF Serially
  <2> QED  BY <1>2, <2>1 DEF AbstractBreaker
<1> QED  BY <1>1, <1>2

(* When one caller has decided, the breaker is what that caller owes it.   *)
LEMMA OneDecidesNext ==
  ASSUME NEW c \in Callers, Serially(c)'
  PROVE  AbstractBreaker' = Owed(c)'
<1>1. CASE Quiet(c)'
  <2>1. \A d \in Callers : Quiet(d)'
    BY <1>1 DEF Serially
  <2>2. Owed(c)' = Stored'
    BY <1>1 DEF Quiet, Owed, Upstream, SuccessPCs
  <2> QED  BY <2>1, <2>2 DEF AbstractBreaker
<1>2. CASE ~Quiet(c)'
  <2>1. c = CHOOSE d \in Callers : ~Quiet(d)'
    BY <1>2 DEF Serially
  <2> QED  BY <1>2, <2>1 DEF AbstractBreaker
<1> QED  BY <1>1, <1>2

(* The frame of a serial step.                                             *)
LEMMA SerialFrame ==
  ASSUME TypeOK, SerialInv, NEW c \in Callers, Serially(c), NEW to, Goto(c, to)
  PROVE  /\ AbstractBreaker = Owed(c) /\ AbstractBreaker' = Owed(c)'
         /\ AbstractPhase[c] = PhaseOf(pc[c])
         /\ AbstractPhase' = [AbstractPhase EXCEPT ![c] = PhaseOf(to)]
         /\ pc'[c] = to
         /\ Known(c)' => SerialInv'
<1>1. pc'[c] = to /\ \A d \in Callers \ {c} : pc'[d] = pc[d]
  BY DEF TypeOK, Goto
<1>2. Serially(c)'
  BY <1>1 DEF Serially, Quiet
<1>3. AbstractPhase[c] = PhaseOf(pc[c]) /\ AbstractPhase' = [AbstractPhase EXCEPT ![c] = PhaseOf(to)]
  BY <1>1 DEF AbstractPhase, PhaseOf
<1>4. \A d \in Callers \ {c} : Known(d)'
  BY <1>2 DEF Serially, Quiet, Known, Upstream
<1>5. \A d, e \in Callers : Quiet(d)' \/ Quiet(e)' \/ d = e
  BY <1>2 DEF Serially
<1> QED  BY <1>1, <1>2, <1>3, <1>4, <1>5, OneDecides, OneDecidesNext DEF SerialInv

(* Breakers, field by field.                                               *)
LEMMA Fields ==
  ASSUME NEW s, NEW f, NEW o, NEW p
  PROVE  LET b == BreakerOf(s, f, o, p)
         IN  b.state = s /\ b.failures = f /\ b.openedAt = o /\ b.probe = p
BY DEF BreakerOf

(* The operations, field by field.                                         *)
Failed(s, f, o, p) ==
  IF s = HalfOpen THEN BreakerOf(Open, f, 0, FALSE)
  ELSE IF Counted(f) = Threshold THEN BreakerOf(Open, Threshold, 0, p)
  ELSE BreakerOf(s, Counted(f), o, p)

(* The operations of the breaker, field by field.                          *)
LEMMA OperationsByField ==
  ASSUME NEW s, NEW f, NEW o, NEW p
  PROVE  LET b == BreakerOf(s, f, o, p)
         IN  /\ AfterAllow(b) = IF AllowsAsProbe(b) THEN BreakerOf(HalfOpen, f, o, TRUE) ELSE b
             /\ AfterSuccess(b) = NewCircuitBreaker
             /\ AfterFailure(b) = Failed(s, f, o, p)
             /\ BreakerTick(b) = BreakerOf(s, f, Aged(o), p)
<1> DEFINE b == BreakerOf(s, f, o, p)
<1>1. b.state = s /\ b.failures = f /\ b.openedAt = o /\ b.probe = p
  BY Fields
<1> HIDE DEF b
<1>2. AfterAllow(b) = IF AllowsAsProbe(b) THEN BreakerOf(HalfOpen, f, o, TRUE) ELSE b
  BY <1>1 DEF AfterAllow
<1>3. AfterSuccess(b) = NewCircuitBreaker
  BY DEF AfterSuccess
<1>4. AfterFailure(b) = Failed(s, f, o, p)
  BY <1>1 DEF AfterFailure, Failed
<1>5. BreakerTick(b) = BreakerOf(s, f, Aged(o), p)
  BY <1>1 DEF BreakerTick
<1> QED  BY <1>2, <1>3, <1>4, <1>5 DEF b

(* Time only ages a breaker.                                               *)
LEMMA Ticked ==
  ASSUME NEW s, NEW f, NEW o, NEW p
  PROVE  BreakerTick(BreakerOf(s, f, o, p)) = BreakerOf(s, f, Aged(o), p)
BY DEF BreakerTick, BreakerOf

(* What is owed at each atomic.                                            *)
OwedAt(label, s, f, o, p) ==
  CASE label = "setProbe"                             -> BreakerOf(s, f, o, TRUE)
    [] label \in SuccessPCs                           -> NewCircuitBreaker
    [] label \in {"loadState", "reopen", "addFailure"} -> Failed(s, f, o, p)
    [] label = "reopenStamp"                          -> BreakerOf(s, f, 0, FALSE)
    [] label = "reopenProbe"                          -> BreakerOf(s, f, o, FALSE)
    [] label = "trip"                                 -> BreakerOf(Open, f, 0, p)
    [] label = "tripStamp"                            -> BreakerOf(s, f, 0, p)
    [] OTHER                                          -> BreakerOf(s, f, o, p)

(* What is owed depends on the stage of the caller and the fields.         *)
LEMMA OwedIs ==
  ASSUME NEW c
  PROVE  /\ Owed(c)  = OwedAt(pc[c], state, failures, openedAt, probe)
         /\ Owed(c)' = OwedAt(pc'[c], state', failures', openedAt', probe')
<1>1. /\ AfterSuccess(Stored) = NewCircuitBreaker
      /\ AfterFailure(Stored) = Failed(state, failures, openedAt, probe)
  BY OperationsByField DEF Stored
<1>2. /\ AfterSuccess(Stored)' = NewCircuitBreaker
      /\ AfterFailure(Stored)' = Failed(state', failures', openedAt', probe')
  BY OperationsByField DEF Stored
<1>3. Owed(c) = OwedAt(pc[c], state, failures, openedAt, probe)
  BY <1>1 DEF Owed, OwedAt, Stored
<1>4. Owed(c)' = OwedAt(pc'[c], state', failures', openedAt', probe')
  BY <1>2 DEF Owed, OwedAt, Stored
<1> QED  BY <1>3, <1>4

(* What a step has to be for the contract.                                 *)
Implements == Atomic!Next \/ UNCHANGED <<AbstractBreaker, AbstractPhase>>

(* AtomicBreaker has the same operations.                                  *)
LEMMA SameOperations ==
  ASSUME NEW b
  PROVE  /\ Atomic!Allows(b) <=> Allows(b)
         /\ Atomic!AllowsAsProbe(b) <=> AllowsAsProbe(b)
         /\ Atomic!AfterAllow(b) = AfterAllow(b)
         /\ Atomic!AfterSuccess(b) = AfterSuccess(b)
         /\ Atomic!AfterFailure(b) = AfterFailure(b)
         /\ Atomic!BreakerTick(b) = BreakerTick(b)
<1>1. /\ Atomic!Closed = Closed /\ Atomic!Open = Open /\ Atomic!HalfOpen = HalfOpen
      /\ Atomic!Unset = Unset /\ Atomic!NewCircuitBreaker = NewCircuitBreaker
      /\ \A s, f, o, p : Atomic!BreakerOf(s, f, o, p) = BreakerOf(s, f, o, p)
      /\ Atomic!Counted(b.failures) = Counted(b.failures)
      /\ Atomic!Aged(b.openedAt) = Aged(b.openedAt)
      /\ Atomic!CooledDown(b.openedAt) <=> CooledDown(b.openedAt)
  BY DEF Atomic!Closed, Atomic!Open, Atomic!HalfOpen, Atomic!Unset, Atomic!NewCircuitBreaker, Atomic!BreakerOf, Atomic!Counted,
         Atomic!Aged, Atomic!CooledDown, Closed, Open, HalfOpen, Unset, NewCircuitBreaker, BreakerOf, Counted, Aged, CooledDown
<1>2. (Atomic!Allows(b) <=> Allows(b)) /\ (Atomic!AllowsAsProbe(b) <=> AllowsAsProbe(b))
  BY <1>1 DEF Atomic!Allows, Atomic!AllowsAsProbe, Allows, AllowsAsProbe
<1>3. Atomic!AfterAllow(b) = AfterAllow(b) /\ Atomic!AfterSuccess(b) = AfterSuccess(b)
  BY <1>1, <1>2 DEF Atomic!AfterAllow, Atomic!AfterSuccess, AfterAllow, AfterSuccess
<1>4. Atomic!AfterFailure(b) = AfterFailure(b) /\ Atomic!BreakerTick(b) = BreakerTick(b)
  BY <1>1 DEF Atomic!AfterFailure, Atomic!BreakerTick, AfterFailure, BreakerTick
<1> QED  BY <1>2, <1>3, <1>4

(* A step to Allow is one of the atomic breaker.                           *)
LEMMA ImplementsAllow ==
  ASSUME NEW c \in Callers, NEW b, AbstractBreaker = b, AbstractPhase[c] = "idle", Allows(b),
         AbstractBreaker' = AfterAllow(b),
         AbstractPhase' = [AbstractPhase EXCEPT ![c] = IF AllowsAsProbe(b) THEN "probing" ELSE "calling"]
  PROVE  Implements
BY SameOperations DEF Implements, Atomic!Next, Atomic!Allow

(* A step to a report is one of the atomic breaker.                        *)
LEMMA ImplementsReport ==
  ASSUME NEW c \in Callers, NEW b, AbstractBreaker = b, AbstractPhase[c] \in {"calling", "probing"},
         AbstractBreaker' = AfterSuccess(b) \/ AbstractBreaker' = AfterFailure(b),
         AbstractPhase' = [AbstractPhase EXCEPT ![c] = "idle"]
  PROVE  Implements
BY SameOperations DEF Implements, Atomic!Next, Atomic!ReportSuccess, Atomic!ReportFailure, Atomic!InFlight

(* A step that changes neither is a stutter of it.                         *)
LEMMA ImplementsNothing ==
  ASSUME NEW c \in Callers, AbstractBreaker' = AbstractBreaker,
         AbstractPhase' = [AbstractPhase EXCEPT ![c] = AbstractPhase[c]]
  PROVE  Implements
BY DEF Implements, AbstractPhase

(* What one atomic does to the refined state.                              *)
LEMMA OneStep ==
  ASSUME TypeOK, SerialInv, NEW c \in Callers, Serially(c), NEW to, Goto(c, to)
  PROVE  /\ AbstractBreaker = OwedAt(pc[c], state, failures, openedAt, probe)
         /\ AbstractBreaker' = OwedAt(to, state', failures', openedAt', probe')
         /\ AbstractPhase[c] = PhaseOf(pc[c])
         /\ AbstractPhase' = [AbstractPhase EXCEPT ![c] = PhaseOf(to)]
         /\ pc'[c] = to
         /\ Known(c)' => SerialInv'
BY SerialFrame, OwedIs

(* The steps of Allow keep the invariant and implement the atomic breaker. *)
LEMMA AllowSteps ==
  ASSUME TypeOK, SerialInv, NEW c \in Callers, Serially(c), Allow(c)
  PROVE  SerialInv' /\ Implements
<1> USE DEF Closed, Open, HalfOpen
<1> DEFINE b == BreakerOf(state, failures, openedAt, probe)
<1>k. Known(c)
  BY DEF SerialInv
<1>b. b.state = state /\ b.failures = failures /\ b.openedAt = openedAt /\ b.probe = probe
  BY Fields
<1> HIDE DEF b
<1>1. CASE AllowLoadState(c)
  <2>1. PICK to \in {"calling", "loadStamp", "tryProbe"} : Goto(c, to)
    BY <1>1 DEF AllowLoadState
  <2>2. /\ pc[c] = "idle" /\ UNCHANGED <<state, failures, openedAt, probe>>
        /\ to = "calling" => state = Closed
        /\ to = "loadStamp" => state = Open
        /\ to = "tryProbe" => state = HalfOpen
    BY <1>1, <2>1 DEF AllowLoadState, Goto, TypeOK
  <2>3. SerialInv'
    BY OneStep, <2>1, <2>2 DEF Known
  <2>4. AbstractBreaker = b /\ AbstractBreaker' = b
    BY OneStep, <2>1, <2>2 DEF OwedAt, SuccessPCs, b
  <2>5. CASE to = "calling"
    <3>1. Allows(b) /\ ~AllowsAsProbe(b) /\ AfterAllow(b) = b
      BY <1>b, <2>2, <2>5 DEF Allows, AllowsAsProbe, AfterAllow
    <3> QED  BY OneStep, <2>1, <2>2, <2>3, <2>4, <2>5, <3>1, ImplementsAllow DEF PhaseOf
  <2>6. CASE to # "calling"
    BY OneStep, <2>1, <2>2, <2>3, <2>4, <2>6, ImplementsNothing DEF PhaseOf
  <2> QED  BY <2>5, <2>6
<1>2. CASE AllowLoadStamp(c)
  <2>1. PICK to \in {"calling", "tryHalfOpen"} : Goto(c, to)
    BY <1>2 DEF AllowLoadStamp
  <2>2. /\ pc[c] = "loadStamp" /\ UNCHANGED <<state, failures, openedAt, probe>> /\ state = Open
        /\ to = "calling" => openedAt = Unset
        /\ to = "tryHalfOpen" => seen'[c] = openedAt
    BY <1>2, <1>k, <2>1 DEF AllowLoadStamp, Goto, TypeOK, Known
  <2>3. SerialInv'
    BY OneStep, <2>1, <2>2 DEF Known
  <2>4. AbstractBreaker = b /\ AbstractBreaker' = b
    BY OneStep, <2>1, <2>2 DEF OwedAt, SuccessPCs, b
  <2>5. CASE to = "calling"
    <3>1. Allows(b) /\ ~AllowsAsProbe(b) /\ AfterAllow(b) = b
      BY <1>b, <2>2, <2>5 DEF Allows, AllowsAsProbe, AfterAllow
    <3> QED  BY OneStep, <2>1, <2>2, <2>3, <2>4, <2>5, <3>1, ImplementsAllow DEF PhaseOf
  <2>6. CASE to = "tryHalfOpen"
    BY OneStep, <2>1, <2>2, <2>3, <2>4, <2>6, ImplementsNothing DEF PhaseOf
  <2> QED  BY <2>5, <2>6
<1>3. CASE AllowReject(c)
  <2>1. Goto(c, "idle") /\ pc[c] = "tryHalfOpen" /\ UNCHANGED <<state, failures, openedAt, probe>>
    BY <1>3 DEF AllowReject
  <2>2. pc'[c] = "idle" /\ (Known(c)' => SerialInv')
    BY OneStep, <2>1
  <2>3. SerialInv'
    BY <2>2 DEF Known
  <2>4. /\ AbstractBreaker = OwedAt("tryHalfOpen", state, failures, openedAt, probe)
        /\ AbstractBreaker' = OwedAt("idle", state, failures, openedAt, probe)
    BY OneStep, <2>1
  <2>5. AbstractBreaker' = AbstractBreaker
    BY <2>4 DEF OwedAt, SuccessPCs
  <2> QED  BY OneStep, <2>1, <2>3, <2>5, ImplementsNothing DEF PhaseOf
<1>4. CASE AllowTryHalfOpen(c)
  <2>1. /\ pc[c] = "tryHalfOpen" /\ state = Open /\ CooledDown(openedAt) /\ openedAt # Unset
        /\ state' = HalfOpen /\ Goto(c, "setProbe") /\ UNCHANGED <<failures, openedAt, probe>>
    BY <1>4, <1>k DEF AllowTryHalfOpen, Known, TypeOK, Ages, Unset
  <2>2. SerialInv'
    BY OneStep, <2>1 DEF Known
  <2>3. AbstractBreaker = b /\ AbstractBreaker' = BreakerOf(HalfOpen, failures, openedAt, TRUE)
    BY OneStep, <2>1 DEF OwedAt, SuccessPCs, b
  <2>4. Allows(b) /\ AllowsAsProbe(b)
    BY <1>b, <2>1 DEF Allows, AllowsAsProbe
  <2>5. AfterAllow(b) = BreakerOf(HalfOpen, failures, openedAt, TRUE)
    BY <2>4, OperationsByField DEF b
  <2> QED  BY OneStep, <2>1, <2>2, <2>3, <2>4, <2>5, ImplementsAllow DEF PhaseOf
<1>5. CASE AllowSetProbe(c)
  <2>1. /\ pc[c] = "setProbe" /\ probe' = TRUE /\ Goto(c, "probing")
        /\ UNCHANGED <<state, failures, openedAt>>
    BY <1>5 DEF AllowSetProbe
  <2>2. pc'[c] = "probing" /\ (Known(c)' => SerialInv')
    BY OneStep, <2>1
  <2>3. SerialInv'
    BY <2>2 DEF Known
  <2>4. /\ AbstractBreaker = OwedAt("setProbe", state, failures, openedAt, probe)
        /\ AbstractBreaker' = OwedAt("probing", state, failures, openedAt, TRUE)
    BY OneStep, <2>1
  <2>5. AbstractBreaker' = AbstractBreaker
    BY <2>4 DEF OwedAt, SuccessPCs
  <2> QED  BY OneStep, <2>1, <2>3, <2>5, ImplementsNothing DEF PhaseOf
<1>6. CASE AllowTryProbe(c)
  <2>1. PICK to \in {"idle", "probing"} : Goto(c, to) /\ (to = "idle" <=> probe = TRUE)
    BY <1>6 DEF AllowTryProbe, TypeOK
  <2>2. pc[c] = "tryProbe" /\ probe' = TRUE /\ state = HalfOpen /\ UNCHANGED <<state, failures, openedAt>>
    BY <1>6, <1>k DEF AllowTryProbe, Known
  <2>3. SerialInv'
    BY OneStep, <2>1 DEF Known
  <2>4. AbstractBreaker = b /\ AbstractBreaker' = BreakerOf(HalfOpen, failures, openedAt, TRUE)
    BY OneStep, <2>1, <2>2 DEF OwedAt, SuccessPCs, b
  <2>5. CASE to = "idle"
    <3>1. AbstractBreaker' = AbstractBreaker
      BY <2>1, <2>2, <2>4, <2>5 DEF b
    <3> QED  BY OneStep, <2>1, <2>2, <2>3, <2>5, <3>1, ImplementsNothing DEF PhaseOf
  <2>6. CASE to = "probing"
    <3>1. probe = FALSE
      BY <2>1, <2>6 DEF TypeOK
    <3>2. Allows(b) /\ AllowsAsProbe(b)
      BY <1>b, <2>2, <3>1 DEF Allows, AllowsAsProbe
    <3>3. AfterAllow(b) = BreakerOf(HalfOpen, failures, openedAt, TRUE)
      BY <3>2, OperationsByField DEF b
    <3> QED  BY OneStep, <2>1, <2>2, <2>3, <2>4, <2>6, <3>2, <3>3, ImplementsAllow DEF PhaseOf
  <2> QED  BY <2>5, <2>6
<1> QED  BY <1>1, <1>2, <1>3, <1>4, <1>5, <1>6 DEF Allow

(* A report that is under way, and a call that returns.                    *)
LEMMA ReportSteps ==
  ASSUME TypeOK, SerialInv, NEW c \in Callers, Serially(c),
         CallReturns(c) \/ ReportSuccess(c) \/ ReportFailure(c)
  PROVE  SerialInv' /\ Implements
<1> USE DEF Closed, Open, HalfOpen
<1>k. Known(c)
  BY DEF SerialInv
<1>1. CASE CallReturns(c)
  <2> DEFINE b == BreakerOf(state, failures, openedAt, probe)
  <2>1. PICK to \in {"zeroFailures", "loadState"} : Goto(c, to)
    BY <1>1 DEF CallReturns
  <2>2. pc[c] \in Upstream /\ UNCHANGED <<state, failures, openedAt, probe>>
    BY <1>1 DEF CallReturns
  <2>3. SerialInv'
    BY OneStep, <2>1, <2>2 DEF Known
  <2>4. AbstractBreaker = b
    BY OneStep, <2>1, <2>2 DEF OwedAt, SuccessPCs, Upstream
  <2>5. AbstractBreaker' = NewCircuitBreaker \/ AbstractBreaker' = Failed(state, failures, openedAt, probe)
    BY OneStep, <2>1, <2>2 DEF OwedAt, SuccessPCs
  <2>6. AbstractBreaker' = AfterSuccess(b) \/ AbstractBreaker' = AfterFailure(b)
    BY <2>5, OperationsByField
  <2>7. AbstractPhase[c] \in {"calling", "probing"} /\ AbstractPhase' = [AbstractPhase EXCEPT ![c] = "idle"]
    BY OneStep, <2>1, <2>2 DEF PhaseOf, Upstream
  <2> HIDE DEF b
  <2> QED  BY <2>3, <2>4, <2>6, <2>7, ImplementsReport
<1>2. ASSUME pc[c] \notin Upstream, pc[c] # "setProbe", NEW to, Goto(c, to),
             to \notin Upstream, to # "setProbe", Known(c)',
             OwedAt(to, state', failures', openedAt', probe') = OwedAt(pc[c], state, failures, openedAt, probe)
      PROVE  SerialInv' /\ Implements
  <2>1. SerialInv' /\ AbstractBreaker' = AbstractBreaker
    BY <1>2, OneStep
  <2>2. AbstractPhase' = [AbstractPhase EXCEPT ![c] = AbstractPhase[c]]
    BY <1>2, OneStep DEF PhaseOf, Upstream
  <2> QED  BY <2>1, <2>2, ImplementsNothing
<1> DEFINE Stays(from, to) == /\ pc[c] = from /\ Goto(c, to) /\ pc'[c] = to
                              /\ OwedAt(to, state', failures', openedAt', probe')
                                   = OwedAt(from, state, failures, openedAt, probe)
<1>g. \A to : Goto(c, to) => pc'[c] = to
  BY DEF Goto, TypeOK
<1>3. ASSUME NEW from \in SuccessPCs \cup FailurePCs, NEW to \in SuccessPCs \cup FailurePCs \cup {"idle"},
             Stays(from, to), Known(c)'
      PROVE  SerialInv' /\ Implements
  BY <1>2, <1>3 DEF SuccessPCs, FailurePCs, Upstream
<1>4. CASE ReportSuccess(c)
  <2> USE DEF SuccessPCs, OwedAt, Known, NewCircuitBreaker
  <2>1. CASE SuccessZeroFailures(c)
    <3>1. Stays("zeroFailures", "storeClosed") /\ Known(c)'
      BY <1>g, <2>1 DEF SuccessZeroFailures
    <3> QED  BY <1>3, <3>1
  <2>2. CASE SuccessStoreClosed(c)
    <3>1. Stays("storeClosed", "clearStamp") /\ Known(c)'
      BY <1>g, <1>k, <2>2 DEF SuccessStoreClosed
    <3> QED  BY <1>3, <3>1
  <2>3. CASE SuccessClearStamp(c)
    <3>1. Stays("clearStamp", "clearProbe") /\ Known(c)'
      BY <1>g, <1>k, <2>3 DEF SuccessClearStamp
    <3> QED  BY <1>3, <3>1
  <2>4. CASE SuccessClearProbe(c)
    <3>1. Stays("clearProbe", "idle") /\ Known(c)'
      BY <1>g, <1>k, <2>4 DEF SuccessClearProbe
    <3> QED  BY <1>3, <3>1
  <2> QED  BY <1>4, <2>1, <2>2, <2>3, <2>4 DEF ReportSuccess
<1>5. CASE ReportFailure(c)
  <2> USE DEF SuccessPCs, FailurePCs, OwedAt, Known, Failed
  <2>1. CASE FailureLoadState(c)
    <3>1. CASE state = HalfOpen
      <4>1. Stays("loadState", "reopen") /\ Known(c)'
        BY <1>g, <2>1, <3>1 DEF FailureLoadState
      <4> QED  BY <1>3, <4>1
    <3>2. CASE state # HalfOpen
      <4>1. Stays("loadState", "addFailure") /\ Known(c)'
        BY <1>g, <2>1, <3>2 DEF FailureLoadState
      <4> QED  BY <1>3, <4>1
    <3> QED  BY <3>1, <3>2
  <2>2. CASE FailureReopen(c)
    <3>1. Stays("reopen", "reopenStamp") /\ Known(c)'
      BY <1>g, <1>k, <2>2 DEF FailureReopen
    <3> QED  BY <1>3, <3>1
  <2>3. CASE FailureReopenStamp(c)
    <3>1. Stays("reopenStamp", "reopenProbe") /\ Known(c)'
      BY <1>g, <1>k, <2>3 DEF FailureReopenStamp
    <3> QED  BY <1>3, <3>1
  <2>4. CASE FailureReopenProbe(c)
    <3>1. Stays("reopenProbe", "idle") /\ Known(c)'
      BY <1>g, <1>k, <2>4 DEF FailureReopenProbe
    <3> QED  BY <1>3, <3>1
  <2>5. CASE FailureAdd(c)
    <3>1. CASE Counted(failures) = Threshold
      <4>1. Stays("addFailure", "trip") /\ Known(c)'
        BY <1>g, <1>k, <2>5, <3>1 DEF FailureAdd
      <4> QED  BY <1>3, <4>1
    <3>2. CASE Counted(failures) # Threshold
      <4>1. Stays("addFailure", "idle") /\ Known(c)'
        BY <1>g, <1>k, <2>5, <3>2 DEF FailureAdd
      <4> QED  BY <1>3, <4>1
    <3> QED  BY <3>1, <3>2
  <2>6. CASE FailureTrip(c)
    <3>1. Stays("trip", "tripStamp") /\ Known(c)'
      BY <1>g, <1>k, <2>6 DEF FailureTrip
    <3> QED  BY <1>3, <3>1
  <2>7. CASE FailureTripStamp(c)
    <3>1. Stays("tripStamp", "idle") /\ Known(c)'
      BY <1>g, <1>k, <2>7 DEF FailureTripStamp
    <3> QED  BY <1>3, <3>1
  <2> QED  BY <1>5, <2>1, <2>2, <2>3, <2>4, <2>5, <2>6, <2>7 DEF ReportFailure
<1> QED  BY <1>1, <1>4, <1>5

(* What time changes of the breaker, it changes of the refined breaker     *)
(* too, or the stamp is still to be set and nothing changes.               *)
LEMMA OwedInTime ==
  ASSUME NEW label, NEW s, NEW f, NEW o, NEW p
  PROVE  \/ OwedAt(label, s, f, Aged(o), p) = OwedAt(label, s, f, o, p)
         \/ OwedAt(label, s, f, Aged(o), p) = BreakerTick(OwedAt(label, s, f, o, p))
<1>t. /\ BreakerTick(BreakerOf(s, f, o, p))          = BreakerOf(s, f, Aged(o), p)
      /\ BreakerTick(BreakerOf(s, f, o, TRUE))       = BreakerOf(s, f, Aged(o), TRUE)
      /\ BreakerTick(BreakerOf(s, f, o, FALSE))      = BreakerOf(s, f, Aged(o), FALSE)
      /\ BreakerTick(BreakerOf(s, Counted(f), o, p)) = BreakerOf(s, Counted(f), Aged(o), p)
  BY DEF BreakerTick, BreakerOf
<1> USE DEF OwedAt
<1>1. CASE label \in SuccessPCs \cup {"reopenStamp", "trip", "tripStamp"}
  BY <1>1 DEF SuccessPCs
<1>2. CASE label \in {"loadState", "reopen", "addFailure"}
  BY <1>2, <1>t DEF SuccessPCs, Failed
<1>3. CASE label = "setProbe" \/ label = "reopenProbe"
  BY <1>3, <1>t DEF SuccessPCs
<1>4. CASE label \notin SuccessPCs \cup {"reopenStamp", "trip", "tripStamp", "loadState", "reopen",
                                         "addFailure", "setProbe", "reopenProbe"}
  BY <1>4, <1>t
<1> QED  BY <1>1, <1>2, <1>3, <1>4

(* So does time.                                                           *)
LEMMA TickSteps ==
  ASSUME TypeOK, SerialInv, Tick
  PROVE  SerialInv' /\ Implements
<1> USE DEF Closed, Open, HalfOpen
<1>1. /\ UNCHANGED <<state, failures, probe, pc>> /\ openedAt' = Aged(openedAt)
      /\ \A c \in Callers : seen'[c] = IF pc[c] = "tryHalfOpen" THEN Aged(seen[c]) ELSE seen[c]
  BY DEF Tick
<1>2. \A c \in Callers : Quiet(c)' <=> Quiet(c)
  BY <1>1 DEF Quiet
<1>3. \A c \in Callers : Known(c)'
  BY <1>1 DEF Known, SerialInv, Aged, Unset
<1>4. SerialInv'
  BY <1>2, <1>3 DEF SerialInv
<1>5. AbstractPhase' = AbstractPhase
  BY <1>1 DEF AbstractPhase
<1>6. \/ AbstractBreaker' = AbstractBreaker
      \/ AbstractBreaker' = BreakerTick(AbstractBreaker)
  <2>1. CASE \E c \in Callers : ~Quiet(c)
    <3>1. PICK c \in Callers : ~Quiet(c)
      BY <2>1
    <3>2. Serially(c) /\ Serially(c)'
      BY <1>2, <3>1 DEF SerialInv, Serially
    <3>3. /\ AbstractBreaker = OwedAt(pc[c], state, failures, openedAt, probe)
          /\ AbstractBreaker' = OwedAt(pc'[c], state', failures', openedAt', probe')
      BY <3>2, OneDecides, OneDecidesNext, OwedIs
    <3> QED  BY <1>1, <3>3, OwedInTime
  <2>2. CASE \A c \in Callers : Quiet(c)
    <3>1. AbstractBreaker = Stored /\ AbstractBreaker' = Stored'
      BY <1>2, <2>2 DEF AbstractBreaker
    <3> QED  BY <1>1, <3>1, Ticked DEF Stored
  <2> QED  BY <2>1, <2>2
<1> QED  BY <1>4, <1>5, <1>6, SameOperations DEF Implements, Atomic!Next, Atomic!Tick

(* Before anything happens nothing is owed.                                *)
LEMMA SerialBegins ==
  ASSUME Init PROVE SerialInv /\ Atomic!Init
<1>1. SerialInv /\ \A c \in Callers : Quiet(c)
  BY DEF Init, SerialInv, Known, Quiet
<1>2. AbstractBreaker = NewCircuitBreaker
  BY <1>1 DEF AbstractBreaker, Stored, Init, NewCircuitBreaker
<1>3. Atomic!NewCircuitBreaker = NewCircuitBreaker
  BY DEF Atomic!NewCircuitBreaker, Atomic!BreakerOf, Atomic!Closed, Atomic!Unset,
         NewCircuitBreaker, BreakerOf, Closed, Unset
<1>4. AbstractPhase = [c \in Callers |-> "idle"]
  BY DEF Init, AbstractPhase
<1> QED  BY <1>1, <1>2, <1>3, <1>4 DEF Atomic!Init

(* Where nothing changes nothing does in the contract.                     *)
LEMMA StillSteps ==
  ASSUME SerialInv, UNCHANGED vars PROVE SerialInv' /\ Implements
<1>1. UNCHANGED <<state, failures, openedAt, probe, pc, seen>>
  BY DEF vars
<1>2. SerialInv'
  BY <1>1 DEF SerialInv, Known, Quiet
<1>3. UNCHANGED <<AbstractBreaker, AbstractPhase>>
  BY <1>1 DEF AbstractBreaker, AbstractPhase, Owed, Stored, Quiet
<1> QED  BY <1>2, <1>3 DEF Implements

(* Every step of operations that do not overlap is one of the contract, or *)
(* none.                                                                   *)
LEMMA SerialSteps ==
  ASSUME TypeOK, SerialInv, [SerialNext]_vars PROVE SerialInv' /\ Implements
<1>1. ASSUME NEW c \in Callers, Serially(c), Request(c) PROVE SerialInv' /\ Implements
  BY <1>1, AllowSteps, ReportSteps DEF Request
<1>2. CASE Tick
  BY <1>2, TickSteps
<1>3. CASE UNCHANGED vars
  BY <1>3, StillSteps
<1> QED  BY <1>1, <1>2, <1>3 DEF SerialNext

(* Operations that do not overlap implement AtomicBreaker: each admission  *)
(* and each report of the code (circuit_breaker.go:66-122) is one step of  *)
(* the contract, for any number of requests.                               *)
THEOREM SerialImplements == SerialSpec => Atomic!Spec
<1>1. Init => SerialInv /\ Atomic!Init
  BY SerialBegins
<1>2. TypeOK /\ SerialInv /\ [SerialNext]_vars => SerialInv' /\ [Atomic!Next]_(Atomic!vars)
  BY SerialSteps DEF Implements, Atomic!vars
<1>3. [SerialNext]_vars => [Next]_vars
  BY DEF SerialNext, Next
<1>4. SerialSpec => Spec
  BY <1>3, PTL DEF SerialSpec, Spec
<1> QED  BY <1>1, <1>2, <1>4, TypeCorrect, PTL DEF SerialSpec, Atomic!Spec

(* Its invariant, where a behaviour may be serial or not.                  *)
MaybeSerialInv == serial => SerialInv

(* The same of the specification of the runs: whenever operations do not   *)
(* overlap, a step of the atomics (circuit_breaker.go:66-122) is one of    *)
(* the contract, for any requests, threshold and cooldown.                 *)
THEOREM ContractIsKept == MCSpec => ImplementsAtomicBreaker
<1>1. MCInit => MaybeSerialInv /\ Atomic!Init
  BY SerialBegins DEF MCInit, MaybeSerialInv
<1>2. MCInit => Init
  BY DEF MCInit
<1>3. [MCNext]_MCVars => [Next]_vars
  BY DEF MCNext, SerialNext, Next, MCVars
<1>4. MCSpec => Spec
  BY <1>2, <1>3, PTL DEF MCSpec, Spec
<1>5. TypeOK /\ MaybeSerialInv /\ [MCNext]_MCVars =>
        /\ MaybeSerialInv'
        /\ [serial => Atomic!Next \/ UNCHANGED Atomic!vars]_MCVars
  <2> SUFFICES ASSUME TypeOK, MaybeSerialInv, [MCNext]_MCVars
               PROVE  /\ MaybeSerialInv'
                      /\ serial => Atomic!Next \/ UNCHANGED Atomic!vars
    OBVIOUS
  <2>1. serial' = serial /\ (serial => [SerialNext]_vars)
    BY DEF MCNext, MCVars
  <2>2. serial => SerialInv' /\ Implements
    BY <2>1, SerialSteps DEF MaybeSerialInv
  <2> QED  BY <2>1, <2>2 DEF MaybeSerialInv, Implements, Atomic!vars
<1> QED  BY <1>1, <1>4, <1>5, TypeCorrect, PTL DEF MCSpec, ImplementsAtomicBreaker
=============================================================================
