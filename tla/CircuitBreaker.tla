--------------------------- MODULE CircuitBreaker ---------------------------
(***************************************************************************)
(* router/circuit_breaker.go at the grain of its atomics.  The breaker has *)
(* no lock: every Load, Store, Add and CompareAndSwap is a step of its     *)
(* own, and requests interleave between any two of them.                   *)
(*                                                                         *)
(* A request's pc names the atomic it is about to execute, or, between     *)
(* Allow and Report, that its upstream call is running: "calling", or      *)
(* "probing" when it was admitted as the half-open probe.  The clock is    *)
(* the ages of the stamps: the shared one and the one a request has        *)
(* loaded (see BreakerOps).                                                *)
(***************************************************************************)
EXTENDS BreakerOps

CONSTANT Callers         \* the requests that share the breaker

VARIABLES state, failures, openedAt, probe,   \* the four atomics
          pc,                                 \* the next atomic of each request
          seen                                \* the stamp Allow has loaded

vars == <<state, failures, openedAt, probe, pc, seen>>

AllowPCs   == {"loadStamp", "tryHalfOpen", "setProbe", "tryProbe"}
SuccessPCs == {"zeroFailures", "storeClosed", "clearStamp", "clearProbe"}
FailurePCs == {"loadState", "reopen", "reopenStamp", "reopenProbe",
               "addFailure", "trip", "tripStamp"}
Upstream   == {"calling", "probing"}
PCs        == {"idle"} \cup AllowPCs \cup Upstream \cup SuccessPCs \cup FailurePCs

TypeOK ==
  /\ state \in CircuitState
  /\ failures \in 0..Threshold
  /\ openedAt \in Ages \cup {Unset}
  /\ probe \in BOOLEAN
  /\ pc \in [Callers -> PCs]
  /\ seen \in [Callers -> Ages]

Init ==
  /\ state = Closed
  /\ failures = 0
  /\ openedAt = Unset
  /\ probe = FALSE
  /\ pc = [c \in Callers |-> "idle"]
  /\ seen = [c \in Callers |-> 0]

Goto(c, to) == pc' = [pc EXCEPT ![c] = to]

(* Local registers are dropped when a request is done with them. *)
Forget(c) == seen' = [seen EXCEPT ![c] = 0]

----------------------------------------------------------------------------
(* Allow *)

AllowLoadState(c) ==
  /\ pc[c] = "idle"
  /\ \/ state = Closed   /\ Goto(c, "calling")
     \/ state = Open     /\ Goto(c, "loadStamp")
     \/ state = HalfOpen /\ Goto(c, "tryProbe")
  /\ UNCHANGED <<state, failures, openedAt, probe, seen>>

(* Fault: an open breaker without a stamp rejects. *)
AllowOnlyStamped(c) ==
  /\ pc[c] = "loadStamp"
  /\ IF openedAt = Unset
     THEN Goto(c, "idle") /\ UNCHANGED seen
     ELSE Goto(c, "tryHalfOpen") /\ seen' = [seen EXCEPT ![c] = openedAt]
  /\ UNCHANGED <<state, failures, openedAt, probe>>

(* An unset stamp admits the request although the breaker is open. *)
AllowLoadStamp(c) ==
  /\ pc[c] = "loadStamp"
  /\ IF openedAt = Unset
     THEN Goto(c, "calling") /\ UNCHANGED seen
     ELSE Goto(c, "tryHalfOpen") /\ seen' = [seen EXCEPT ![c] = openedAt]
  /\ UNCHANGED <<state, failures, openedAt, probe>>

AllowReject(c) ==
  /\ pc[c] = "tryHalfOpen"
  /\ ~CooledDown(seen[c])
  /\ Goto(c, "idle")
  /\ Forget(c)
  /\ UNCHANGED <<state, failures, openedAt, probe>>

(* Fault: the cooldown is over one tick early. *)
AllowTryEarly(c) ==
  /\ pc[c] = "tryHalfOpen"
  /\ CooledDown(seen[c] + 1)
  /\ IF state = Open
     THEN state' = HalfOpen /\ Goto(c, "setProbe")
     ELSE UNCHANGED state /\ Goto(c, "tryProbe")
  /\ Forget(c)
  /\ UNCHANGED <<failures, openedAt, probe>>

AllowTryHalfOpen(c) ==
  /\ pc[c] = "tryHalfOpen"
  /\ CooledDown(seen[c])
  /\ IF state = Open
     THEN state' = HalfOpen /\ Goto(c, "setProbe")
     ELSE UNCHANGED state /\ Goto(c, "tryProbe")
  /\ Forget(c)
  /\ UNCHANGED <<failures, openedAt, probe>>

AllowSetProbe(c) ==
  /\ pc[c] = "setProbe"
  /\ probe' = TRUE
  /\ Goto(c, "probing")
  /\ UNCHANGED <<state, failures, openedAt, seen>>

AllowTryProbe(c) ==
  /\ pc[c] = "tryProbe"
  /\ probe' = TRUE
  /\ Goto(c, IF probe THEN "idle" ELSE "probing")
  /\ UNCHANGED <<state, failures, openedAt, seen>>

----------------------------------------------------------------------------
(* The upstream call between Allow and Report ends, well or badly. *)
CallReturns(c) ==
  /\ pc[c] \in Upstream
  /\ Goto(c, "zeroFailures") \/ Goto(c, "loadState")
  /\ UNCHANGED <<state, failures, openedAt, probe, seen>>

----------------------------------------------------------------------------
(* ReportSuccess: four stores *)

(* Fault: a success takes one failure back instead of all. *)
SuccessUncountsFailure(c) ==
  /\ pc[c] = "zeroFailures"
  /\ failures' = failures - 1
  /\ Goto(c, "storeClosed")
  /\ UNCHANGED <<state, openedAt, probe, seen>>

SuccessZeroFailures(c) ==
  /\ pc[c] = "zeroFailures"
  /\ failures' = 0
  /\ Goto(c, "storeClosed")
  /\ UNCHANGED <<state, openedAt, probe, seen>>

(* Fault: a success does not close the breaker. *)
SuccessKeepsState(c) ==
  /\ pc[c] = "storeClosed"
  /\ Goto(c, "clearStamp")
  /\ UNCHANGED <<state, failures, openedAt, probe, seen>>

SuccessStoreClosed(c) ==
  /\ pc[c] = "storeClosed"
  /\ state' = Closed
  /\ Goto(c, "clearStamp")
  /\ UNCHANGED <<failures, openedAt, probe, seen>>

SuccessClearStamp(c) ==
  /\ pc[c] = "clearStamp"
  /\ openedAt' = Unset
  /\ Goto(c, "clearProbe")
  /\ UNCHANGED <<state, failures, probe, seen>>

SuccessClearProbe(c) ==
  /\ pc[c] = "clearProbe"
  /\ probe' = FALSE
  /\ Goto(c, "idle")
  /\ UNCHANGED <<state, failures, openedAt, seen>>

----------------------------------------------------------------------------
(* ReportFailure: reopen a half-open breaker, else count *)

(* Fault: the failure of the probe is counted like any other. *)
FailureOfProbeCounted(c) ==
  /\ pc[c] = "loadState"
  /\ Goto(c, "addFailure")
  /\ UNCHANGED <<state, failures, openedAt, probe, seen>>

FailureLoadState(c) ==
  /\ pc[c] = "loadState"
  /\ Goto(c, IF state = HalfOpen THEN "reopen" ELSE "addFailure")
  /\ UNCHANGED <<state, failures, openedAt, probe, seen>>

FailureReopen(c) ==
  /\ pc[c] = "reopen"
  /\ state' = Open
  /\ Goto(c, "reopenStamp")
  /\ UNCHANGED <<failures, openedAt, probe, seen>>

FailureReopenStamp(c) ==
  /\ pc[c] = "reopenStamp"
  /\ openedAt' = 0
  /\ Goto(c, "reopenProbe")
  /\ UNCHANGED <<state, failures, probe, seen>>

(* Fault: the probe flag stays up when the breaker reopens. *)
FailureKeepsProbe(c) ==
  /\ pc[c] = "reopenProbe"
  /\ Goto(c, "idle")
  /\ UNCHANGED <<state, failures, openedAt, probe, seen>>

FailureReopenProbe(c) ==
  /\ pc[c] = "reopenProbe"
  /\ probe' = FALSE
  /\ Goto(c, "idle")
  /\ UNCHANGED <<state, failures, openedAt, seen>>

FailureAdd(c) ==
  /\ pc[c] = "addFailure"
  /\ failures' = Counted(failures)
  /\ Goto(c, IF Counted(failures) = Threshold THEN "trip" ELSE "idle")
  /\ UNCHANGED <<state, openedAt, probe, seen>>

FailureTrip(c) ==
  /\ pc[c] = "trip"
  /\ state' = Open
  /\ Goto(c, "tripStamp")
  /\ UNCHANGED <<failures, openedAt, probe, seen>>

FailureTripStamp(c) ==
  /\ pc[c] = "tripStamp"
  /\ openedAt' = 0
  /\ Goto(c, "idle")
  /\ UNCHANGED <<state, failures, probe, seen>>

----------------------------------------------------------------------------
Allow(c) ==
  \/ AllowLoadState(c)
  \/ AllowLoadStamp(c)
  \/ AllowReject(c)
  \/ AllowTryHalfOpen(c)
  \/ AllowSetProbe(c)
  \/ AllowTryProbe(c)

ReportSuccess(c) ==
  \/ SuccessZeroFailures(c)
  \/ SuccessStoreClosed(c)
  \/ SuccessClearStamp(c)
  \/ SuccessClearProbe(c)

ReportFailure(c) ==
  \/ FailureLoadState(c)
  \/ FailureReopen(c)
  \/ FailureReopenStamp(c)
  \/ FailureReopenProbe(c)
  \/ FailureAdd(c)
  \/ FailureTrip(c)
  \/ FailureTripStamp(c)

Request(c) == Allow(c) \/ CallReturns(c) \/ ReportSuccess(c) \/ ReportFailure(c)

(* Time passes for the shared stamp and for the loaded ones alike. *)
Tick ==
  /\ openedAt' = Aged(openedAt)
  /\ seen' = [c \in Callers |-> IF pc[c] = "tryHalfOpen" THEN Aged(seen[c]) ELSE seen[c]]
  /\ UNCHANGED <<state, failures, probe, pc>>

Next == (\E c \in Callers : Request(c)) \/ Tick

Spec == Init /\ [][Next]_vars

(* A request that has begun goes on. *)
InProgress(c) == pc[c] # "idle" /\ Request(c)

(* The same breaker when no two operations overlap: an operation starts    *)
(* only when no other is half done.  Upstream calls still overlap.         *)
Quiet(c) == pc[c] \in {"idle"} \cup Upstream
Serially(c) == \A d \in Callers \ {c} : Quiet(d)
SerialNext == (\E c \in Callers : Serially(c) /\ Request(c)) \/ Tick

SerialSpec == Init /\ [][SerialNext]_vars

----------------------------------------------------------------------------
(* The refinement of AtomicBreaker by the serial breaker.  An admission    *)
(* takes effect at its compare-and-swap and a report when the call         *)
(* returns; the stores the operation still owes are applied ahead.         *)
Stored == BreakerOf(state, failures, openedAt, probe)

Owed(c) ==
  CASE pc[c] = "setProbe"                             -> BreakerOf(state, failures, openedAt, TRUE)
    [] pc[c] \in SuccessPCs                           -> AfterSuccess(Stored)
    [] pc[c] \in {"loadState", "reopen", "addFailure"} -> AfterFailure(Stored)
    [] pc[c] = "reopenStamp"                          -> BreakerOf(state, failures, 0, FALSE)
    [] pc[c] = "reopenProbe"                          -> BreakerOf(state, failures, openedAt, FALSE)
    [] pc[c] = "trip"                                 -> BreakerOf(Open, failures, 0, probe)
    [] pc[c] = "tripStamp"                            -> BreakerOf(state, failures, 0, probe)
    [] OTHER                                          -> Stored

AbstractBreaker ==
  IF \E c \in Callers : ~Quiet(c)
  THEN Owed(CHOOSE c \in Callers : ~Quiet(c))
  ELSE Stored

AbstractPhase ==
  [c \in Callers |-> CASE pc[c] \in {"setProbe", "probing"} -> "probing"
                       [] pc[c] = "calling"                -> "calling"
                       [] OTHER                            -> "idle"]

Atomic == INSTANCE AtomicBreaker WITH breaker <- AbstractBreaker, phase <- AbstractPhase

----------------------------------------------------------------------------
(* A half-open breaker is never abandoned: some request is on its way to   *)
(* the store that moves it on.  Without this the deployment would stay     *)
(* offline for ever, because a half-open breaker admits nobody while its   *)
(* probe flag is up (circuit_breaker.go:87-88).                            *)
ProbeOwners == {"setProbe", "probing", "zeroFailures", "storeClosed", "loadState", "reopen"}
HalfOpenIsOwned == state = HalfOpen => \E c \in Callers : pc[c] \in ProbeOwners

(* The breaker is open and nothing that began earlier can move it: no      *)
(* report and no upstream call is under way, and a request that is about   *)
(* to compare a stamp has loaded the present one.                          *)
OpenAndSettled ==
  /\ state = Open
  /\ openedAt # Unset
  /\ \A c \in Callers : \/ pc[c] \in {"idle", "loadStamp"}
                        \/ pc[c] = "tryHalfOpen" /\ seen[c] = openedAt

(* The open breaker does what it is for (circuit_breaker.go:34-36): until  *)
(* its cooldown is over it admits nobody, however many requests arrive and *)
(* wherever time finds them inside Allow.  The last conjunct above is      *)
(* needed: with the stamp of an earlier outage in hand a request           *)
(* half-opens a breaker that has just been reopened (lines 73-82).         *)
OpenBreakerSheds ==
  [][OpenAndSettled /\ ~CooledDown(openedAt)
       => OpenAndSettled' \/ CooledDown(openedAt')]_vars

(* What the field comment at lines 45-46 says: only one request at a time  *)
(* is used as the half-open probe.                                         *)
AtMostOneProbe ==
  \A c, d \in Callers : pc[c] = "probing" /\ pc[d] = "probing" => c = d
=============================================================================
