------------------------------ MODULE MCRecords ------------------------------
(***************************************************************************)
(* What requests leave behind, in four parts that share no state:          *)
(*   "savings" and "receipts"  the two signed chains (Ledger), with two    *)
(*             writers in one process and a third in another;              *)
(*   "sinks"   the recorder, the audit log and the end of the process      *)
(*             (Sinks), with two handlers and two workers;                 *)
(*   "replay"  a run over three recordings, two at a time, that saves its  *)
(*             progress after each (ReplayRun).                            *)
(* A behaviour exercises one of them, chosen at the start; the variables   *)
(* of the others stay as they started, or where that says nothing to a     *)
(* property at Idle.                                                       *)
(***************************************************************************)
EXTENDS Ledger

CONSTANTS one, two, w1, w2, w3, o1, o2,
          Handlers, Workers, QueueSize, AuditSize,                     \* Sinks
          Recorded, Filter, Limit, MaxPage, PageSize, Parallel, Every, \* ReplayRun
          Reasons, Scorers, Replies, Original, Patterns, RequiredKeys, TypeHints, Empty, Error

TwoReplicas  == {one, two}
ThreeWriters == {w1, w2, w3}
TwoOrgs      == {o1, o2}
Placement    == [w \in ThreeWriters |-> IF w = w3 THEN two ELSE one]

(* Three of the six recordings match the filter.  The reply scored differs *)
(* from the original in a word and in the type of its key.                 *)
SixRecordings == [org : TwoOrgs, n : 1..3]
OfOneOrg      == [org |-> o1, n |-> None]
Recording     == [words |-> [yes |-> 1, no |-> 0], object |-> [k |-> "string"]]
Differing     == [words |-> [yes |-> 1, no |-> 2], object |-> [k |-> "number"]]
OneReply      == {Differing}
Types         == Recording.object

VARIABLES part,
          main, forced, handler, queue, stopped, queueClosed, worker, timedOut,
          audit, auditClosed, roller, stopRoller, panicked,
          reason, scorer, row, engine, spawned, replayer, result, stored, mu, counts, draft, overdue

Sinks == INSTANCE Sinks

Run == INSTANCE ReplayRun WITH worker <- replayer

ASSUME SinkAssumption == Sinks!ConstantsOK
ASSUME RunAssumption == Run!ConstantsOK

sinkVars == <<main, forced, handler, queue, stopped, queueClosed, worker, timedOut,
              audit, auditClosed, roller, stopRoller, panicked>>
runVars  == <<reason, scorer, row, engine, spawned, replayer, result, stored, mu, counts, draft, overdue>>
MCVars   == <<vars, part, sinkVars, runVars>>

----------------------------------------------------------------------------
Chains == {"savings", "receipts"}
Idle   == "idle"

ChainsIdle ==
  /\ rows = {} /\ adrift = {} /\ receipts = {}
  /\ chainMu = Idle /\ write = Idle /\ tail = Idle /\ signed = Idle
SinksIdle ==
  /\ main = Idle /\ forced = Idle /\ handler = Idle /\ queue = Idle
  /\ stopped = Idle /\ queueClosed = Idle /\ worker = Idle /\ timedOut = Idle
  /\ audit = Idle /\ auditClosed = Idle /\ roller = Idle /\ stopRoller = Idle
  /\ panicked = FALSE
RunIdle == Run!RunInit /\ scorer = Empty /\ reason = [i \in Run!Recs |-> Empty]

MCInit ==
  \/ part \in Chains /\ Init /\ SinksIdle /\ RunIdle
  \/ part = "sinks" /\ ChainsIdle /\ Sinks!Init /\ RunIdle
  \/ part = "replay" /\ ChainsIdle /\ SinksIdle /\ Run!RunInit

(* Idle writers of a process are interchangeable, and so are orgs without  *)
(* a row: of two the first goes.  (Symmetry sets are for safety only.)     *)
Known == {x.org : x \in rows \cup adrift} \cup {write[w].org : w \in ThreeWriters}

FirstGoes ==
  \A w \in ThreeWriters : write[w].pc = "idle" /\ write'[w].pc = "read" =>
    /\ w = w2 => write[w1].pc # "idle"
    /\ write'[w].org = o2 => Known \cap TwoOrgs # {}

(* The two chains have only the number of turns in common.                 *)
ChainStep ==
  /\ part \in Chains /\ Next /\ FirstGoes
  /\ IF part = "savings" THEN UNCHANGED receipts ELSE UNCHANGED savingsVars
  /\ UNCHANGED <<part, sinkVars, runVars>>
SinkStep(Step) == part = "sinks" /\ Step /\ UNCHANGED <<part, vars, runVars>>
RunStep(Step)  == part = "replay" /\ Step /\ UNCHANGED <<part, vars, sinkVars>>

MCNext == ChainStep \/ SinkStep(Sinks!Next) \/ RunStep(Run!RunNext)

(* Sinks: once told to stop, main goes on; the statements of the roller    *)
(* return, and a select with two channels ready picks each sometimes.      *)
(* ReplayRun: goroutines go on, and of those that wait for a mutex each    *)
(* gets it (sync.Mutex lets nobody starve).                                *)
MCSpec ==
  /\ MCInit /\ [][MCNext]_MCVars
  /\ WF_MCVars(SinkStep(Sinks!Shutdown \/ Sinks!Close))
  /\ WF_MCVars(SinkStep(Sinks!Rolled))
  /\ SF_MCVars(SinkStep(Sinks!RollerStops))
  /\ WF_MCVars(RunStep(Run!Main))
  /\ \A i \in Run!Recs : /\ WF_MCVars(RunStep(Run!Replayed(i) \/ Run!Count(i) \/ Run!Save(i)))
                         /\ SF_MCVars(RunStep(Run!InsertReplayResult(i)))

----------------------------------------------------------------------------
(* The types of the part that is exercised. *)
PartTypeOK ==
  /\ part \in Chains => TypeOK
  /\ part = "sinks" => Sinks!TypeOK
  /\ part = "replay" => Run!RunTypeOK

(* Of Sinks: nobody sends on a closed channel, unless handlers were still  *)
(* running when the grace period was over (server.go:850-861); and a       *)
(* recorder that stopped in time has written its whole queue               *)
(* (recorder.go:80-98).                                                    *)
ShutdownIsClean == Sinks!OnlyForcedShutdownPanics /\ Sinks!StoppedIsDrained

(* Of ReplayRun: the progress a client polls never goes back, though       *)
(* goroutines that end in any order save it; and a run that says completed *)
(* has a replay of each recording behind it, and an average score that is  *)
(* a fraction (replay/engine.go, scorer.go).                               *)
ProgressIsTrue == Run!ProgressNeverGoesBack /\ []Run!CompletedIsComplete

(* After a signal the process ends (main.go:72-81), and a replay run that  *)
(* was started ends, unless its process dies (replay/engine.go).           *)
EverythingEnds == (main = "shutdown" \/ engine = "starting") ~> (Sinks!Ended \/ Run!Ended)

(* Of ReplayRun: what the comment on Start promises, that it creates a run *)
(* and kicks off its workers (engine.go:61-62).                            *)
EveryRunStarts == Run!EveryRunStarts
=============================================================================
