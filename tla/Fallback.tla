------------------------------- MODULE Fallback -------------------------------
(***************************************************************************)
(* Requests for one model alias, from ResolveForOrg to the verdict of      *)
(* ExecuteWithFallbackForOrg (router/fallback.go, router/router.go), while *)
(* administrators reload the router.                                       *)
(*                                                                         *)
(* A Reload replaces every DeploymentInfo, and with it the circuit         *)
(* breaker, by a new object; requests keep the objects they resolved.  An  *)
(* object is a deployment and the generation of the reload that made it.   *)
(* The breaker's operations are atomic here: CircuitBreaker shows what     *)
(* their interleavings add.  Deployments are tried in round-robin order    *)
(* (RouterOrder has the others).                                           *)
(*                                                                         *)
(* Lists are read under the router's lock, but not the map of round-robin  *)
(* counters: Go ends a process that reads a map while it is written.       *)
(***************************************************************************)
EXTENDS BreakerOps, Sequences, SequencesExt

CONSTANTS Deployments,      \* the deployments an alias may have
          Owner,            \* the org a deployment is dedicated to, or Global
          Orgs,             \* the organizations
          Requests,         \* the client requests
          OrgOf,            \* the org of a request's key, or NoOrg
          Retries,          \* cfg.Retries
          Catalogs,         \* the deployment lists an alias may have
          MaxReloads,       \* bound on reloads
          CounterPeriod     \* the counter is kept modulo this

CONSTANTS Global, NoOrg     \* the nil org ids

ASSUME OwnerAssumption == Owner \in [Deployments -> Orgs \cup {Global}]
ASSUME OrgOfAssumption == OrgOf \in [Requests -> Orgs \cup {NoOrg}]
ASSUME RetriesAssumption == Retries \in Int
ASSUME CatalogsAssumption == Catalogs \subseteq Seq(Deployments)
ASSUME MaxReloadsAssumption == MaxReloads \in Nat
(* A deployment is a row of the table, listed once.                        *)
ASSUME DistinctAssumption == \A c \in Catalogs : IsInjective(c)
(* Only the counter's residue modulo the length of a list is used, and a   *)
(* request's list is a part of a catalog.                                  *)
ASSUME CounterPeriodAssumption ==
  /\ CounterPeriod \in Nat \ {0}
  /\ \A c \in Catalogs : \A n \in 1..Len(c) : CounterPeriod % n = 0

VARIABLES fallbackEnabled,  \* cfg.FallbackEnabled, fixed at the start
          catalog,      \* the alias's list of deployments; empty: no such alias
          gen,          \* the generation of the current objects
          counter,      \* the alias's round-robin counter, modulo the list lengths
          writing,      \* a reload holds the lock and is changing keys of the map of counters
          breaker,      \* the breaker of every object
          up,           \* the deployments whose provider is healthy
          cancelled,    \* the requests whose client has hung up
          pc, list,     \* where a request is, and the objects it still has to try
          attempt,      \* attempts made at the head of the list
          outcome,      \* the verdict of a finished request, and by which object
          sent,         \* history: how often a request called each object
          absent,       \* history: the generations that had no such alias
          missed        \* history: the requests that came while there was none

history == <<sent, absent, missed>>
vars == <<fallbackEnabled, catalog, gen, counter, writing, breaker, up, cancelled, pc, list, attempt,
          outcome, history>>

Gens    == 0..MaxReloads
Objects == Deployments \X Gens

(* executeWithRetry turns a missing or negative setting into one retry. *)
MaxRetries == IF Retries <= 0 THEN 1 ELSE Retries

PCs == {"resolve", "resolveAgain", "readDeps", "order", "orderAll", "next", "attempt", "backoff",
        "reportFailure", "reportSuccess", "done"}

(* "notFound": no deployment for the model; "panic": the handler died on a *)
(* counter that is gone; "exhausted": the loop over the list ended;        *)
(* "rejected", "failed": the loop was left early, fallback being disabled; *)
(* "dropped": the process died meanwhile.                                  *)
Verdicts == {"none", "served", "notFound", "panic", "exhausted", "rejected", "failed", "dropped"}

(* The alias has no counter.                                               *)
NoCounter == -1

TypeOK ==
  /\ fallbackEnabled \in BOOLEAN
  /\ catalog \in Catalogs
  /\ gen \in Gens
  /\ counter \in 0..(CounterPeriod - 1) \cup {NoCounter}
  /\ writing \in BOOLEAN
  /\ breaker \in [Objects -> Breaker]
  /\ up \subseteq Deployments
  /\ cancelled \subseteq Requests
  /\ pc \in [Requests -> PCs]
  /\ list \in [Requests -> Seq(Objects)]
  /\ attempt \in [Requests -> 0..MaxRetries]
  /\ outcome \in [Requests -> [verdict : Verdicts, by : Objects \cup {<<>>}]]
  /\ sent \in [Requests -> [Objects -> Nat]]
  /\ absent \subseteq Gens
  /\ missed \subseteq Requests

(* A counter comes with an alias. *)
FirstCounter(new) == IF new = <<>> THEN NoCounter ELSE 0

(* A generation that has no such alias. *)
Without(g, new) == IF new = <<>> THEN {g} ELSE {}

Init ==
  /\ fallbackEnabled \in BOOLEAN
  /\ catalog \in Catalogs
  /\ gen = 0
  /\ counter = FirstCounter(catalog)
  /\ writing = FALSE
  /\ breaker = [o \in Objects |-> NewCircuitBreaker]
  /\ up \in SUBSET Deployments
  /\ cancelled = {}
  /\ pc = [r \in Requests |-> "resolve"]
  /\ list = [r \in Requests |-> <<>>]
  /\ attempt = [r \in Requests |-> 0]
  /\ outcome = [r \in Requests |-> [verdict |-> "none", by |-> <<>>]]
  /\ sent = [r \in Requests |-> [o \in Objects |-> 0]]
  /\ absent = Without(0, catalog)
  /\ missed = {}

Head1(r) == list[r][1]

Goto(r, to) == pc' = [pc EXCEPT ![r] = to]

Finish(r, verdict, by) ==
  /\ Goto(r, "done")
  /\ outcome' = [outcome EXCEPT ![r] = [verdict |-> verdict, by |-> by]]

shared == <<fallbackEnabled, catalog, gen, counter, writing, up, cancelled, absent>>

----------------------------------------------------------------------------
(* Those of some objects whose owner is one of these, in their order.      *)
Those(owners, objects) ==
  LET upTo[i \in 0..Len(objects)] ==
        IF i = 0 THEN <<>>
        ELSE IF Owner[objects[i][1]] \in owners THEN Append(upTo[i - 1], objects[i])
        ELSE upTo[i - 1]
  IN  upTo[Len(objects)]

(* The alias's list as it is now. *)
Current == [i \in DOMAIN catalog |-> <<catalog[i], gen>>]

(* Fault: the global deployments are added to everybody's. *)
OwnedByOrGlobal(owner) == Those({owner, Global}, Current)

(* buildOrgIndex: the objects of the catalog dedicated to an owner. *)
OwnedBy(owner) == Those({owner}, Current)

(* ResolveForOrg looks the alias up under the read lock.  A request with   *)
(* an org takes its own deployments, else the global ones; one without     *)
(* reads the whole list under a second lock, later; and when the alias is  *)
(* missing Resolve looks for it once more.                                 *)
ResolveForOrg(r) ==
  /\ pc[r] = "resolve" /\ ~writing
  /\ LET own   == OwnedBy(OrgOf[r])
         scope == IF own # <<>> THEN own ELSE OwnedBy(Global)
     IN  \/ /\ catalog = <<>>
            /\ Goto(r, "resolveAgain")
            /\ missed' = missed \cup {r}
            /\ UNCHANGED <<list, outcome>>
         \/ /\ catalog # <<>> /\ OrgOf[r] = NoOrg
            /\ Goto(r, "readDeps")
            /\ UNCHANGED <<list, outcome, missed>>
         \/ /\ catalog # <<>> /\ OrgOf[r] # NoOrg /\ scope = <<>>
            /\ Finish(r, "notFound", <<>>)
            /\ UNCHANGED <<list, missed>>
         \/ /\ catalog # <<>> /\ OrgOf[r] # NoOrg /\ scope # <<>>
            /\ Goto(r, "order")
            /\ list' = [list EXCEPT ![r] = scope]
            /\ UNCHANGED <<outcome, missed>>
  /\ UNCHANGED <<shared, breaker, attempt, sent>>

(* A reload may have added the alias since: its whole list is then put in  *)
(* order, whoever its deployments belong to.                               *)
Resolve(r) ==
  /\ pc[r] = "resolveAgain" /\ ~writing
  /\ IF catalog = <<>>
     THEN Finish(r, "notFound", <<>>) /\ UNCHANGED list
     ELSE /\ list' = [list EXCEPT ![r] = Current]
          /\ Goto(r, "orderAll")
          /\ UNCHANGED outcome
  /\ UNCHANGED <<shared, breaker, attempt, sent, missed>>

(* By now a reload may have removed the alias: the list is then empty. *)
ReadDeps(r) ==
  /\ pc[r] = "readDeps" /\ ~writing
  /\ list' = [list EXCEPT ![r] = Current]
  /\ Goto(r, "order")
  /\ UNCHANGED <<shared, breaker, attempt, outcome, sent, missed>>

RoundRobin(deps) ==
  IF Len(deps) <= 1 THEN deps
  ELSE [i \in 1..Len(deps) |-> deps[((counter + i - 1) % Len(deps)) + 1]]

(* Of what Resolve returned a request with an org keeps its own and the    *)
(* global deployments.                                                     *)
Scoped(r, deps) ==
  IF pc[r] = "orderAll" /\ OrgOf[r] # NoOrg THEN Those({OrgOf[r], Global}, deps) ELSE deps

Ordering(r) == pc[r] \in {"order", "orderAll"}

(* order reads the alias's counter without the lock; a reload that removed *)
(* the alias has deleted the counter, and roundRobin calls Add on nil.     *)
Order(r) ==
  /\ Ordering(r)
  /\ \/ /\ Len(list[r]) > 1 /\ counter = NoCounter
        /\ Finish(r, "panic", <<>>)
        /\ UNCHANGED <<counter, list>>
     \/ /\ Len(list[r]) > 1 => counter # NoCounter
        /\ LET deps == Scoped(r, RoundRobin(list[r]))
           IN  IF deps = <<>> /\ pc[r] = "orderAll"
               THEN Finish(r, "notFound", <<>>) /\ UNCHANGED list
               ELSE /\ list' = [list EXCEPT ![r] = deps]
                    /\ Goto(r, "next")
                    /\ UNCHANGED outcome
        /\ counter' = IF Len(list[r]) > 1 THEN (counter + 1) % CounterPeriod ELSE counter
  /\ UNCHANGED <<fallbackEnabled, catalog, gen, writing, up, cancelled, breaker, attempt, history>>

(* Its read can fall into a reload's writes to the map, which Go answers   *)
(* with a fatal error: every request is dropped, and the process is        *)
(* started again with what is in the database.                             *)
ConcurrentMapAccess(r) ==
  /\ Ordering(r) /\ Len(list[r]) > 1
  /\ writing
  /\ writing' = FALSE
  /\ counter' = FirstCounter(catalog)
  /\ breaker' = [o \in Objects |-> NewCircuitBreaker]
  /\ pc' = [q \in Requests |-> "done"]
  /\ outcome' = [q \in Requests |-> IF pc[q] = "done" THEN outcome[q]
                                                      ELSE [verdict |-> "dropped", by |-> <<>>]]
  /\ UNCHANGED <<fallbackEnabled, catalog, gen, up, cancelled, list, attempt, history>>

----------------------------------------------------------------------------
(* The loop of ExecuteWithFallbackForOrg *)

Exhausted(r) ==
  /\ pc[r] = "next"
  /\ list[r] = <<>>
  /\ Finish(r, "exhausted", <<>>)
  /\ UNCHANGED <<shared, breaker, list, attempt, sent, missed>>

(* Fault: with fallback enabled, an open breaker is waited for. *)
SkipOnlyLast(r) ==
  /\ pc[r] = "next"
  /\ list[r] # <<>>
  /\ ~Allows(breaker[Head1(r)])
  /\ ~fallbackEnabled
  /\ Finish(r, "rejected", Head1(r))
  /\ UNCHANGED <<shared, breaker, list, attempt, sent, missed>>

Skip(r) ==
  /\ pc[r] = "next"
  /\ list[r] # <<>>
  /\ ~Allows(breaker[Head1(r)])
  /\ IF fallbackEnabled
     THEN list' = [list EXCEPT ![r] = Tail(@)] /\ UNCHANGED <<pc, outcome>>
     ELSE Finish(r, "rejected", Head1(r)) /\ UNCHANGED list
  /\ UNCHANGED <<shared, breaker, attempt, sent, missed>>

Try(r) ==
  /\ pc[r] = "next"
  /\ list[r] # <<>>
  /\ Allows(breaker[Head1(r)])
  /\ breaker' = [breaker EXCEPT ![Head1(r)] = AfterAllow(@)]
  /\ attempt' = [attempt EXCEPT ![r] = 0]
  /\ Goto(r, "attempt")
  /\ UNCHANGED <<shared, list, outcome, sent, missed>>

(* An error is retried; an answer never is, whatever its status. *)
AfterError(r) == IF attempt[r] < MaxRetries THEN "backoff" ELSE "reportFailure"

(* Fault: an answer that comes after the breaker has tripped is refused. *)
AfterLateAnswer(r) ==
  IF Head1(r)[1] \in up /\ breaker[Head1(r)].state # Open THEN "reportSuccess"
                                                          ELSE "reportFailure"

AfterAnswer(r) == IF Head1(r)[1] \in up THEN "reportSuccess" ELSE "reportFailure"

(* One upstream call.  A healthy provider answers below 500 and a sick one *)
(* answers 5xx or not at all; with a client gone the call just fails.      *)
Attempt(r) ==
  /\ pc[r] = "attempt"
  /\ \/ (Head1(r)[1] \notin up \/ r \in cancelled) /\ Goto(r, AfterError(r))
     \/ r \notin cancelled /\ Goto(r, AfterAnswer(r))
  /\ sent' = [sent EXCEPT ![r][Head1(r)] = @ + 1]
  /\ UNCHANGED <<shared, breaker, list, attempt, outcome, missed>>

(* The wait before a retry: the delay passes, or the client's hang-up ends *)
(* the attempts with ctx.Err().                                            *)
Retry(r) ==
  /\ pc[r] = "backoff"
  /\ attempt' = [attempt EXCEPT ![r] = @ + 1]
  /\ Goto(r, "attempt")
  /\ UNCHANGED <<shared, breaker, list, outcome, sent, missed>>

(* Fault: a hang-up skips the report. *)
GiveUpSilently(r) ==
  /\ pc[r] = "backoff"
  /\ r \in cancelled
  /\ Finish(r, "failed", Head1(r))
  /\ UNCHANGED <<shared, breaker, list, attempt, sent, missed>>

GiveUp(r) ==
  /\ pc[r] = "backoff"
  /\ r \in cancelled
  /\ Goto(r, "reportFailure")
  /\ UNCHANGED <<shared, breaker, list, attempt, outcome, sent, missed>>

ReportFailure(r) ==
  /\ pc[r] = "reportFailure"
  /\ breaker' = [breaker EXCEPT ![Head1(r)] = AfterFailure(@)]
  /\ IF fallbackEnabled
     THEN /\ list' = [list EXCEPT ![r] = Tail(@)]
          /\ Goto(r, "next")
          /\ UNCHANGED outcome
     ELSE Finish(r, "failed", Head1(r)) /\ UNCHANGED list
  /\ UNCHANGED <<shared, attempt, sent, missed>>

ReportSuccess(r) ==
  /\ pc[r] = "reportSuccess"
  /\ breaker' = [breaker EXCEPT ![Head1(r)] = AfterSuccess(@)]
  /\ Finish(r, "served", Head1(r))
  /\ UNCHANGED <<shared, list, attempt, sent, missed>>

----------------------------------------------------------------------------
(* The environment *)

(* Fault: a reload starts with an empty map of counters. *)
KeptNoCounter(new) == NoCounter

(* The counter lives as long as the alias does. *)
KeptCounter(new) == IF new # <<>> /\ counter # NoCounter THEN counter ELSE FirstCounter(new)

(* An administrator's change, under the lock: a new list, new objects,     *)
(* fresh breakers.  When this alias or any other comes or goes, keys of    *)
(* the map of counters change before the lock is released.                 *)
Reload ==
  /\ gen < MaxReloads /\ ~writing
  /\ \E new \in Catalogs, others \in BOOLEAN :
       /\ catalog' = new
       /\ writing' = (others \/ KeptCounter(new) # counter)
       /\ absent' = absent \cup Without(gen + 1, new)
  /\ gen' = gen + 1
  /\ UNCHANGED <<fallbackEnabled, counter, breaker, up, cancelled, pc, list, attempt, outcome, sent, missed>>

Unlock ==
  /\ writing
  /\ writing' = FALSE
  /\ counter' = KeptCounter(catalog)
  /\ UNCHANGED <<fallbackEnabled, catalog, gen, breaker, up, cancelled, pc, list, attempt, outcome, history>>

HangUp(r) ==
  /\ pc[r] # "done"
  /\ cancelled' = cancelled \cup {r}
  /\ UNCHANGED <<fallbackEnabled, catalog, gen, counter, writing, breaker, up, pc, list, attempt, outcome, history>>

(* A finished request's client sends its next one. *)
NextRequest(r) ==
  /\ pc[r] = "done"
  /\ Goto(r, "resolve")
  /\ cancelled' = cancelled \ {r}
  /\ list' = [list EXCEPT ![r] = <<>>]
  /\ attempt' = [attempt EXCEPT ![r] = 0]
  /\ outcome' = [outcome EXCEPT ![r] = [verdict |-> "none", by |-> <<>>]]
  /\ sent' = [sent EXCEPT ![r] = [o \in Objects |-> 0]]
  /\ missed' = missed \ {r}
  /\ UNCHANGED <<fallbackEnabled, catalog, gen, counter, writing, breaker, up, absent>>

Tick ==
  /\ breaker' = [o \in Objects |-> BreakerTick(breaker[o])]
  /\ UNCHANGED <<fallbackEnabled, catalog, gen, counter, writing, up, cancelled, pc, list, attempt, outcome, history>>

Step(r) ==
  \/ ResolveForOrg(r) \/ Resolve(r) \/ ReadDeps(r) \/ Order(r) \/ ConcurrentMapAccess(r)
  \/ Exhausted(r) \/ Skip(r) \/ Try(r)
  \/ Attempt(r) \/ Retry(r) \/ GiveUp(r)
  \/ ReportFailure(r) \/ ReportSuccess(r)

Next ==
  \/ \E r \in Requests : Step(r) \/ HangUp(r) \/ NextRequest(r)
  \/ Reload \/ Unlock
  \/ Tick

Spec == Init /\ [][Next]_vars

----------------------------------------------------------------------------
(* A request works with the objects of one catalog, and one with an org    *)
(* tries its own org's and the global deployments only.  Unless the alias  *)
(* was missing when the request came, these are of one owner, whatever is  *)
(* reloaded meanwhile: its own org or, without one of its own, nobody      *)
(* (lines 280-286 of router.go).                                           *)
OneOwnerOneCatalog ==
  \A r \in Requests :
    LET todo   == ToSet(list[r])
        owners == {Owner[o[1]] : o \in todo}
    IN  /\ \A o, p \in todo : o[2] = p[2]
        /\ OrgOf[r] # NoOrg /\ pc[r] \notin {"orderAll", "done"} => owners \subseteq {OrgOf[r], Global}
        /\ OrgOf[r] # NoOrg /\ r \notin missed => \A m, n \in owners : m = n

(* Every admission by a breaker is paired with a report, through retries,  *)
(* hang-ups, disabled fallback and reloads: a half-open breaker always has *)
(* a request that still has to report to that very object.  A missing      *)
(* report would keep the deployment offline for good.                      *)
HalfOpenIsProbed ==
  \A o \in Objects : breaker[o].state = HalfOpen =>
    \E r \in Requests : /\ pc[r] \in {"attempt", "backoff", "reportFailure", "reportSuccess"}
                        /\ Head1(r) = o

(* No object is called more often by a request than the retries allow, be  *)
(* it by retrying or by falling back to it a second time.                  *)
RetryBudget ==
  \A r \in Requests, o \in Objects : sent[r][o] <= MaxRetries + 1

(* The answer of a healthy deployment is never thrown away for a fallback  *)
(* or an error, as long as the client waits for it and the process lives.  *)
HealthyAnswerIsServed ==
  \A r \in Requests \ cancelled :
    (\E o \in Objects : sent[r][o] > 0 /\ o[1] \in up)
      => outcome[r].verdict \in {"none", "served", "dropped"}

(* The lookup of a counter without the lock (line 479) panics only for a   *)
(* request whose alias was removed after it was resolved, and ends the     *)
(* process only during a reload with which some alias comes or goes: one   *)
(* that only changes deployments disturbs no request.                      *)
PanicNeedsRemoval ==
  [][\A r \in Requests :
       /\ outcome[r].verdict # "panic" /\ outcome'[r].verdict = "panic"
            => \E g \in absent : Head1(r)[2] < g
       /\ outcome[r].verdict # "dropped" /\ outcome'[r].verdict = "dropped" => writing]_vars
=============================================================================
