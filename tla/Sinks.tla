------------------------------- MODULE Sinks -------------------------------
(***************************************************************************)
(* What requests leave behind when they end, and how the process ends: the *)
(* recorder with its workers (replay/recorder.go), the audit log           *)
(* (audit/audit.go, server/middleware/audit.go), the savings roller        *)
(* (savings/roller.go), Server.Close (server/server.go) and the shutdown   *)
(* of main.  A send on a closed channel panics.                            *)
(***************************************************************************)
EXTENDS Integers

CONSTANTS Handlers, Workers,
          QueueSize,       \* capacity of the recorder's queue
          AuditSize        \* capacity of the audit buffer

ConstantsOK == Workers # {} /\ QueueSize \in Nat /\ AuditSize \in Nat

VARIABLES
  main,         \* how far the process is in shutting down
  forced,       \* Shutdown gave up on running handlers
  handler,      \* handler -> its pc
  queue,        \* recordings waiting
  stopped,      \* the recorder's flag
  queueClosed,
  worker,       \* worker -> "waiting", "writing" or "gone"
  timedOut,     \* Stop gave up on the workers
  audit,        \* audit events waiting
  auditClosed,
  roller,       \* "waiting", "rolling" or "gone"
  stopRoller,   \* its stopCh is closed
  panicked      \* somebody sent on a closed channel

vars == <<main, forced, handler, queue, stopped, queueClosed, worker, timedOut,
          audit, auditClosed, roller, stopRoller, panicked>>

Stages == {"serving", "shutdown", "audit", "recorder", "close queue", "drain",
           "roller", "await roller", "db", "exited"}

TypeOK ==
  /\ main \in Stages
  /\ handler \in [Handlers -> {"idle", "enqueue", "send", "record"}]
  /\ queue \in 0..QueueSize
  /\ audit \in 0..AuditSize
  /\ worker \in [Workers -> {"waiting", "writing", "gone"}]
  /\ roller \in {"waiting", "rolling", "gone"}
  /\ {forced, stopped, queueClosed, timedOut, auditClosed, stopRoller, panicked}
       \subseteq BOOLEAN

Init ==
  /\ main = "serving"
  /\ handler = [h \in Handlers |-> "idle"]
  /\ queue = 0 /\ audit = 0
  /\ worker = [w \in Workers |-> "waiting"]
  /\ roller = "waiting"
  /\ forced = FALSE /\ stopped = FALSE /\ queueClosed = FALSE /\ timedOut = FALSE
  /\ auditClosed = FALSE /\ stopRoller = FALSE /\ panicked = FALSE

Alive == main # "exited"

----------------------------------------------------------------------------
Becomes(h, label) == handler' = [handler EXCEPT ![h] = label]

(* The listener accepts until Shutdown closes it. *)
Accept(h) ==
  /\ main = "serving" /\ handler[h] = "idle"
  /\ Becomes(h, "enqueue")
  /\ UNCHANGED <<main, forced, queue, stopped, queueClosed, worker, timedOut, audit,
                 auditClosed, roller, stopRoller, panicked>>

(* Enqueue tests the flag; a request that is not recorded skips it. *)
Enqueue(h) ==
  /\ Alive /\ handler[h] = "enqueue"
  /\ \/ ~stopped /\ Becomes(h, "send")
     \/ Becomes(h, "record")
  /\ UNCHANGED <<main, forced, queue, stopped, queueClosed, worker, timedOut, audit,
                 auditClosed, roller, stopRoller, panicked>>

(* Then it sends, or drops the recording if the queue is full.  A panic    *)
(* ends the handler.                                                       *)
Send(h) ==
  /\ Alive /\ handler[h] = "send"
  /\ panicked' = (panicked \/ queueClosed)
  /\ queue' = IF queueClosed \/ queue = QueueSize THEN queue ELSE queue + 1
  /\ Becomes(h, IF queueClosed THEN "idle" ELSE "record")
  /\ UNCHANGED <<main, forced, stopped, queueClosed, worker, timedOut, audit,
                 auditClosed, roller, stopRoller>>

(* Fault: the event is sent without a default case. *)
RecordAnyway(h) ==
  /\ Alive /\ handler[h] = "record"
  /\ panicked' = (panicked \/ auditClosed)
  /\ audit' = IF auditClosed THEN audit ELSE audit + 1
  /\ Becomes(h, "idle")
  /\ UNCHANGED <<main, forced, queue, stopped, queueClosed, worker, timedOut,
                 auditClosed, roller, stopRoller>>

(* The audit middleware records the request after its handler; a full      *)
(* buffer drops the event.                                                 *)
Record(h) ==
  /\ Alive /\ handler[h] = "record"
  /\ panicked' = (panicked \/ auditClosed)
  /\ audit' = IF auditClosed \/ audit = AuditSize THEN audit ELSE audit + 1
  /\ Becomes(h, "idle")
  /\ UNCHANGED <<main, forced, queue, stopped, queueClosed, worker, timedOut,
                 auditClosed, roller, stopRoller>>

(* Fault: a worker ends as soon as the queue is closed. *)
TakeUnlessClosed(w) ==
  /\ Alive /\ worker[w] = "waiting"
  /\ \/ queue > 0 /\ queue' = queue - 1 /\ worker' = [worker EXCEPT ![w] = "writing"]
     \/ queueClosed /\ worker' = [worker EXCEPT ![w] = "gone"] /\ UNCHANGED queue
  /\ UNCHANGED <<main, forced, handler, stopped, queueClosed, timedOut, audit,
                 auditClosed, roller, stopRoller, panicked>>

(* A worker takes a recording, writes it, and ends when the queue is       *)
(* closed and empty.                                                       *)
Take(w) ==
  /\ Alive /\ worker[w] = "waiting"
  /\ \/ queue > 0 /\ queue' = queue - 1 /\ worker' = [worker EXCEPT ![w] = "writing"]
     \/ queue = 0 /\ queueClosed /\ worker' = [worker EXCEPT ![w] = "gone"] /\ UNCHANGED queue
  /\ UNCHANGED <<main, forced, handler, stopped, queueClosed, timedOut, audit,
                 auditClosed, roller, stopRoller, panicked>>

Write(w) ==
  /\ Alive /\ worker[w] = "writing"
  /\ worker' = [worker EXCEPT ![w] = "waiting"]
  /\ UNCHANGED <<main, forced, handler, queue, stopped, queueClosed, timedOut, audit,
                 auditClosed, roller, stopRoller, panicked>>

(* The audit writer. *)
InsertAuditEvent ==
  /\ Alive /\ audit > 0
  /\ audit' = audit - 1
  /\ UNCHANGED <<main, forced, handler, queue, stopped, queueClosed, worker, timedOut,
                 auditClosed, roller, stopRoller, panicked>>

(* The roller waits for its timer or its stop, and picks either if both    *)
(* are there.                                                              *)
RollerIs(label) ==
  /\ roller' = label
  /\ UNCHANGED <<main, forced, handler, queue, stopped, queueClosed, worker, timedOut,
                 audit, auditClosed, stopRoller, panicked>>

Roll        == Alive /\ roller = "waiting" /\ RollerIs("rolling")
Rolled      == Alive /\ roller = "rolling" /\ RollerIs("waiting")
RollerStops == Alive /\ roller = "waiting" /\ stopRoller /\ RollerIs("gone")

----------------------------------------------------------------------------
(* A signal arrives: the listener closes, and main waits for the handlers, *)
(* but no longer than the graceful timeout.                                *)
Signal ==
  /\ main = "serving" /\ main' = "shutdown"
  /\ UNCHANGED <<forced, handler, queue, stopped, queueClosed, worker, timedOut, audit,
                 auditClosed, roller, stopRoller, panicked>>

Shutdown ==
  /\ main = "shutdown" /\ main' = "audit"
  /\ forced' = \E h \in Handlers : handler[h] # "idle"
  /\ UNCHANGED <<handler, queue, stopped, queueClosed, worker, timedOut, audit,
                 auditClosed, roller, stopRoller, panicked>>

CloseAudit ==
  /\ main = "audit" /\ main' = "recorder"
  /\ auditClosed' = TRUE
  /\ UNCHANGED <<forced, handler, queue, stopped, queueClosed, worker, timedOut, audit,
                 roller, stopRoller, panicked>>

(* Stop sets the flag, closes the queue and waits for the workers. *)
SetStopped ==
  /\ main = "recorder" /\ main' = "close queue"
  /\ stopped' = TRUE
  /\ UNCHANGED <<forced, handler, queue, queueClosed, worker, timedOut, audit,
                 auditClosed, roller, stopRoller, panicked>>

CloseQueue ==
  /\ main = "close queue" /\ main' = "drain"
  /\ queueClosed' = TRUE
  /\ UNCHANGED <<forced, handler, queue, stopped, worker, timedOut, audit, auditClosed,
                 roller, stopRoller, panicked>>

Drained == \A w \in Workers : worker[w] = "gone"

AwaitWorkers ==
  /\ main = "drain" /\ main' = "roller"
  /\ timedOut' = ~Drained
  /\ UNCHANGED <<forced, handler, queue, stopped, queueClosed, worker, audit,
                 auditClosed, roller, stopRoller, panicked>>

(* Fault: Stop waits for the roller without telling it. *)
AwaitSilently ==
  /\ main = "roller" /\ main' = "await roller"
  /\ UNCHANGED <<forced, handler, queue, stopped, queueClosed, worker, timedOut, audit,
                 auditClosed, roller, stopRoller, panicked>>

StopRoller ==
  /\ main = "roller" /\ main' = "await roller"
  /\ stopRoller' = TRUE
  /\ UNCHANGED <<forced, handler, queue, stopped, queueClosed, worker, timedOut, audit,
                 auditClosed, roller, panicked>>

AwaitRoller ==
  /\ main = "await roller" /\ roller = "gone" /\ main' = "db"
  /\ UNCHANGED <<forced, handler, queue, stopped, queueClosed, worker, timedOut, audit,
                 auditClosed, roller, stopRoller, panicked>>

(* The pool closes, main returns, and whatever still runs is gone. *)
Exit ==
  /\ main = "db" /\ main' = "exited"
  /\ UNCHANGED <<forced, handler, queue, stopped, queueClosed, worker, timedOut, audit,
                 auditClosed, roller, stopRoller, panicked>>

Close == CloseAudit \/ SetStopped \/ CloseQueue \/ AwaitWorkers \/ StopRoller
           \/ AwaitRoller \/ Exit

Goroutine ==
  \/ \E h \in Handlers : Enqueue(h) \/ Send(h) \/ Record(h)
  \/ \E w \in Workers : Take(w) \/ Write(w)
  \/ InsertAuditEvent
  \/ Roll \/ Rolled \/ RollerStops

Next == Goroutine \/ Signal \/ Shutdown \/ Close \/ \E h \in Handlers : Accept(h)

Spec == Init /\ [][Next]_vars

----------------------------------------------------------------------------
(* Nobody sends on a closed channel unless Shutdown gave up on handlers    *)
(* that were still running: without that, both sinks are closed after the  *)
(* last of their senders (main.go:76-80, server.go:850-861).               *)
OnlyForcedShutdownPanics == panicked => forced

(* When Stop returns without having timed out, every recording that was    *)
(* ever put into the queue has been written, by the workers that are gone  *)
(* before the database is closed (recorder.go:80-98).                      *)
StoppedIsDrained ==
  (main \in {"roller", "await roller", "db", "exited"} /\ ~timedOut) =>
    queue = 0 /\ Drained

(* What a process comes to once a signal has arrived: nothing main waits   *)
(* for can keep it, whatever handlers, workers and the roller are in the   *)
(* middle of (main.go:72-81, server.go:850-873, roller.go:76-87).          *)
Ended == main = "exited"
=============================================================================
