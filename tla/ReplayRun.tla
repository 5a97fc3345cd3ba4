------------------------------ MODULE ReplayRun ------------------------------
(***************************************************************************)
(* A replay run (replay/engine.go): its row in the database, the recordings *)
(* replayed by a bounded number of goroutines, and the scorers that grade   *)
(* the replies (replay/scorer.go).  Statements may fail and are not tried   *)
(* again; after four hours every statement of the run fails, because they   *)
(* share its context; and the process may die.                              *)
(*                                                                          *)
(* A replay's own steps (fetching blobs, calling the model, scoring) change *)
(* nothing that the run shares, so they are one step with their outcome.    *)
(*                                                                          *)
(* The gateway never fills the router_reason of its recordings, and without *)
(* it they cannot be listed: no run over them starts.  What follows the     *)
(* start holds of recordings in which something else has filled it.         *)
(***************************************************************************)
EXTENDS Integers, FiniteSets, FiniteSetsExt, Functions

CONSTANTS
  Recorded,     \* the recordings there are, with the columns a filter names
  Filter,       \* the filter of the run: a value or None for each column
  Limit,        \* the limit it asks for
  MaxPage, PageSize,  \* 1000 and 100 in the code
  Parallel,     \* goroutines at once
  Every,        \* results between two saves of the progress
  Reasons,      \* router_reasons of recordings: Empty is what the gateway gives
  Scorers,      \* names a run may give of its scorer, Empty among them
  Replies,      \* what models may answer: bags of words, and JSON objects
  Original,     \* what was recorded
  Patterns, RequiredKeys, TypeHints,  \* configuration of the scorers
  Empty,        \* the empty string
  Error,        \* the outcome of a failed replay
  None

ConstantsOK ==
  /\ MaxPage \in Nat /\ PageSize \in 1..MaxPage /\ Limit \in Nat
  /\ Parallel \in Nat \ {0} /\ Every \in Nat \ {0}
  /\ IsFiniteSet(Recorded) /\ IsFiniteSet(Patterns) /\ IsFiniteSet(RequiredKeys)
  /\ IsFiniteSet(DOMAIN Original.words)
  /\ \A reply \in Replies \cup {Original} : reply.words \in [DOMAIN Original.words -> Nat]
  /\ None \notin Nat /\ Error \notin Nat /\ None \notin Reasons

Matching == {r \in Recorded : \A column \in DOMAIN Filter : Filter[column] \in {None, r[column]}}

(* A limit out of range is replaced by the default, a larger one too.      *)
PageLimit == IF Limit = 0 \/ Limit > MaxPage THEN PageSize ELSE Limit

(* How many recordings a run replays, the latest ones; they are numbered.  *)
Total == Min({PageLimit, Cardinality(Matching)})
Recs  == 1..Total

VARIABLES
  reason,    \* the router_reason of each recording
  scorer,    \* name of the run's scorer
  row,       \* the run's row
  engine,    \* "idle", "refused", "starting", "running", "finished" or "dead"
  spawned,   \* how far execute's loop is
  worker,    \* recording -> "none", "replaying", "reporting", "counting", "saving" or "done"
  result,    \* recording -> the score or Error of its replay
  stored,    \* recordings whose result is in replay_results
  mu,        \* the goroutine that holds the mutex
  counts,    \* completed, failed and totalScore of execute
  draft,     \* goroutine -> the values of the update it sends
  overdue    \* the run's context is over

vars == <<reason, scorer, row, engine, spawned, worker, result, stored, mu, counts, draft, overdue>>

RunRow(status, c) ==
  [status |-> status, completed |-> c.completed, failed |-> c.failed, sum |-> c.sum]

Zero == [completed |-> 0, failed |-> 0, sum |-> 0]

RunInit ==
  /\ reason \in [Recs -> Reasons] /\ scorer \in Scorers
  /\ row = None /\ engine = "idle" /\ spawned = 0
  /\ worker = [i \in Recs |-> "none"] /\ result = [i \in Recs |-> None]
  /\ stored = {} /\ mu = None /\ counts = Zero
  /\ draft = [i \in Recs |-> None] /\ overdue = FALSE

----------------------------------------------------------------------------
(* The scorers, over what they look at: a reply is the bag of its words    *)
(* and, if it is JSON, its keys with their types.  Scores are in parts of  *)
(* Points.                                                                 *)
Points == 12
Part(n, total) == (Points * n) \div total

(* Patterns are words here: a pattern matches a reply that has it.         *)
RegexScore(reply) ==
  IF Patterns = {} THEN 0
  ELSE Part(Cardinality({p \in Patterns : reply.words[p] > 0}), Cardinality(Patterns))

Diminished(points, wrong) == IF wrong THEN (3 * points) \div 4 ELSE points

JSONSchemaScore(reply) ==
  IF reply.object = None THEN 0
  ELSE LET have  == RequiredKeys \cap DOMAIN reply.object
           wrong == {k \in DOMAIN TypeHints \cap DOMAIN reply.object : reply.object[k] # TypeHints[k]}
       IN  Diminished(IF RequiredKeys = {} THEN Points ELSE Part(Cardinality(have), Cardinality(RequiredKeys)),
                      wrong # {})

Dot(a, b) == FoldFunction(+, 0, [w \in DOMAIN a |-> a[w] * b[w]])

CosineScore(reply) ==
  LET norms == Dot(Original.words, Original.words) * Dot(reply.words, reply.words)
      dot   == Dot(Original.words, reply.words)
  IN  IF norms = 0 THEN 0 ELSE Max({n \in 0..(Points * dot) : n * n * norms <= Points * Points * dot * dot})

(* NewScorerByName: an unknown name is the cosine.  It leaves the judge's  *)
(* Invoke to the engine, which does not set it: the judge always fails.    *)
ScoreOf(reply) ==
  CASE scorer = "regex"       -> RegexScore(reply)
    [] scorer = "json_schema" -> JSONSchemaScore(reply)
    [] scorer = "llm_judge"   -> Error
    [] OTHER                  -> CosineScore(reply)

----------------------------------------------------------------------------
(* An update whose error is ignored.                                       *)
UpdateReplayRun(r) ==
  \/ ~overdue /\ row' = r
  \/ UNCHANGED row

Moves(i, pc) == worker' = [worker EXCEPT ![i] = pc]

(* Empty strings are stored as NULL, which the driver refuses to scan into *)
(* a string.                                                               *)
NullIfEmpty(text) == IF text = Empty THEN None ELSE text

(* One row that does not scan fails the listing.                           *)
ListRecordings == IF \A i \in Recs : NullIfEmpty(reason[i]) # None THEN Recs ELSE Error

(* The recordings are listed before the run is created.                    *)
Start ==
  /\ engine = "idle"
  /\ \/ /\ ListRecordings = Error
        /\ engine' = "refused" /\ UNCHANGED row
     \/ /\ ListRecordings # Error
        /\ engine' = "starting" /\ row' = RunRow("pending", Zero)
  /\ UNCHANGED <<reason, scorer, spawned, worker, result, stored, mu, counts, draft, overdue>>

Execute ==
  /\ engine = "starting" /\ engine' = "running"
  /\ UpdateReplayRun(RunRow("running", Zero))
  /\ UNCHANGED <<reason, scorer, spawned, worker, result, stored, mu, counts, draft, overdue>>

Busy == {i \in Recs : worker[i] \notin {"none", "done"}}

Spawn ==
  /\ engine = "running" /\ spawned < Total
  /\ Cardinality(Busy) < Parallel
  /\ spawned' = spawned + 1
  /\ Moves(spawned + 1, "replaying")
  /\ UNCHANGED <<reason, scorer, row, engine, result, stored, mu, counts, draft, overdue>>

(* Blobs may be missing or garbled and the call may fail; otherwise the    *)
(* scorer gives a value.                                                   *)
Replayed(i) ==
  /\ engine = "running" /\ worker[i] = "replaying"
  /\ \E v \in {Error} \cup {ScoreOf(reply) : reply \in Replies} :
       result' = [result EXCEPT ![i] = v]
  /\ Moves(i, "reporting")
  /\ UNCHANGED <<reason, scorer, row, engine, spawned, stored, mu, counts, draft, overdue>>

InsertReplayResult(i) ==
  /\ engine = "running" /\ worker[i] = "reporting" /\ mu = None
  /\ mu' = i
  /\ \/ ~overdue /\ stored' = stored \cup {i}
     \/ UNCHANGED stored
  /\ Moves(i, "counting")
  /\ UNCHANGED <<reason, scorer, row, engine, spawned, result, counts, draft, overdue>>

CountedWith(v) ==
  IF v = Error THEN [counts EXCEPT !.failed = @ + 1]
                 ELSE [counts EXCEPT !.completed = @ + 1, !.sum = @ + v]

(* Fault: the mutex is given back before the progress is saved. *)
HolderWhileSavingNone(i) == None

(* The mutex is held until the goroutine returns.                          *)
HolderWhileSaving(i) == i

(* The result is counted, and every so often the progress saved.           *)
Count(i) ==
  /\ engine = "running" /\ worker[i] = "counting"
  /\ counts' = CountedWith(result[i])
  /\ IF (counts'.completed + counts'.failed) % Every = 0
       THEN /\ draft' = [draft EXCEPT ![i] = RunRow("running", counts')]
            /\ Moves(i, "saving") /\ mu' = HolderWhileSaving(i)
       ELSE Moves(i, "done") /\ mu' = None /\ UNCHANGED draft
  /\ UNCHANGED <<reason, scorer, row, engine, spawned, result, stored, overdue>>

Save(i) ==
  /\ engine = "running" /\ worker[i] = "saving"
  /\ UpdateReplayRun(draft[i])
  /\ Moves(i, "done")
  /\ mu' = IF mu = i THEN None ELSE mu
  /\ UNCHANGED <<reason, scorer, engine, spawned, result, stored, counts, draft, overdue>>

AllDone == spawned = Total /\ Busy = {}

Finish ==
  /\ engine = "running" /\ AllDone
  /\ engine' = "finished"
  /\ UpdateReplayRun(RunRow("completed", counts))
  /\ UNCHANGED <<reason, scorer, spawned, worker, result, stored, mu, counts, draft, overdue>>

Expire ==
  /\ engine \in {"starting", "running"} /\ ~overdue /\ overdue' = TRUE
  /\ UNCHANGED <<reason, scorer, row, engine, spawned, worker, result, stored, mu, counts, draft>>

(* Nothing takes up the run of a dead process.                             *)
Die ==
  /\ engine \in {"starting", "running"} /\ engine' = "dead"
  /\ UNCHANGED <<reason, scorer, row, spawned, worker, result, stored, mu, counts, draft, overdue>>

Goroutine(i) == Replayed(i) \/ InsertReplayResult(i) \/ Count(i) \/ Save(i)
Main         == Execute \/ Spawn \/ Finish

RunNext == Start \/ Main \/ (\E i \in Recs : Goroutine(i)) \/ Expire \/ Die

----------------------------------------------------------------------------
RunTypeOK ==
  /\ row = None \/ /\ row.status \in {"pending", "running", "completed"}
                   /\ row.completed + row.failed <= Total
  /\ spawned \in 0..Total /\ stored \subseteq Recs
  /\ Cardinality(Busy) <= Parallel
  /\ mu \in Recs \cup {None}

(* The progress a client polls never goes back, though goroutines that     *)
(* end in any order save it (engine.go).                                   *)
ProgressNeverGoesBack ==
  [][row # None => /\ row'.completed >= row.completed
                   /\ row'.failed >= row.failed
                   /\ row.status = "completed" => row' = row]_vars

(* A run whose row says completed has a replay of every recording behind   *)
(* it, its counters agree with the results, stored or lost, and its average *)
(* score is a fraction, whatever the scorer.                               *)
CompletedIsComplete ==
  (row # None /\ row.status = "completed") =>
    /\ \A i \in Recs : worker[i] = "done"
    /\ row.failed = Cardinality({i \in Recs : result[i] = Error})
    /\ row.completed = Total - row.failed
    /\ row.sum = FoldFunctionOnSet(+, 0, result, {i \in Recs : result[i] # Error})
    /\ row.sum \in 0..(Points * row.completed)

(* A run that was started comes to this; its row then says completed       *)
(* unless the last update failed.                                          *)
Ended == engine \in {"finished", "dead"}

(* What the comment on Start promises: it creates the run's row and kicks  *)
(* off its workers, whatever recordings the filter finds (engine.go:61-62). *)
EveryRunStarts == engine # "refused"
=============================================================================
