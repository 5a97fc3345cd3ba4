-------------------------- MODULE MCCircuitBreaker --------------------------
(***************************************************************************)
(* CircuitBreaker with a few requests, a threshold small enough to be      *)
(* reached by them and a cooldown of a few ticks.  A behaviour is either   *)
(* any interleaving of the atomics, with fairness, or a serial one, of     *)
(* which the contract of AtomicBreaker is asked.                           *)
(***************************************************************************)
EXTENDS CircuitBreaker

CONSTANTS c1, c2, c3

TwoCallers   == {c1, c2}
ThreeCallers == {c1, c2, c3}

VARIABLE serial          \* operations do not overlap in this behaviour

MCVars == <<vars, serial>>
MCInit == Init /\ serial \in BOOLEAN
MCNext ==
  /\ IF serial THEN SerialNext ELSE Next
  /\ UNCHANGED serial

MCSpec == MCInit /\ [][MCNext]_MCVars

(* Go runs every runnable goroutine.  An upstream call returns: the        *)
(* handlers' client has no timeout (chat.go:405), so this asks of upstream *)
(* to answer or to break, or of the waiting client to hang up.  Requests   *)
(* for the deployment keep arriving, and time passes.                      *)
MCLiveSpec ==
  /\ MCSpec
  /\ \A c \in Callers : WF_MCVars(~serial /\ InProgress(c) /\ UNCHANGED serial)
  /\ \A c \in Callers : WF_MCVars(~serial /\ AllowLoadState(c) /\ UNCHANGED serial)
  /\ WF_MCVars(~serial /\ Tick /\ UNCHANGED serial)

----------------------------------------------------------------------------
(* Operations that do not overlap implement the contract: the order of the *)
(* stores inside ReportSuccess and ReportFailure (lines 98-101, 111-113    *)
(* and 119-120) is invisible to them.                                      *)
ImplementsAtomicBreaker ==
  /\ Atomic!Init
  /\ [][serial => Atomic!Next \/ UNCHANGED Atomic!vars]_MCVars

(* The probe always comes to an end, whatever else happens: every          *)
(* half-open period is left once the running requests finish.              *)
HalfOpenResolves == (~serial /\ state = HalfOpen) ~> state # HalfOpen

(* An open breaker gives its deployment another chance, even when          *)
(* overlapping stores have erased its stamp, as long as requests for it    *)
(* arrive and time passes.                                                 *)
OpenGetsAnotherChance == (~serial /\ state = Open) ~> state # Open
=============================================================================
