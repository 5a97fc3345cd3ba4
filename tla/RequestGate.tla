----------------------------- MODULE RequestGate -----------------------------
(***************************************************************************)
(* What stands between a chat completion and its provider: the guardrails, *)
(* the routing policy of the alias, the smart router that may serve it by  *)
(* another alias, the policy rules and the plugins; and the challenger     *)
(* call that may follow the answer in the background.                      *)
(*                                                                         *)
(* Rules are loaded once, as the server starts.  Routing policies are rows *)
(* that administrators change while requests look them up, one query after *)
(* the other.  The rules are given no provider, region or class.           *)
(***************************************************************************)
EXTENDS Integers, Sequences, FiniteSets, FiniteSetsExt, SequencesExt

CONSTANTS
  Requests,        \* one at a time in each handler
  Aliases,
  Governed,        \* the aliases whose routing policy administrators touch
  Org, Global,     \* a customer, and nobody in particular
  Strategies,      \* of routing policies
  RuleLists,       \* what the policy file may hold for the org, or for all
  Contents,        \* what the text of a request holds
  Signals,         \* what the classifier sees in it
  Limits,          \* max_completion_tokens of a request
  Tiers,           \* alias of a bucket, or None
  Challenger,      \* alias of the shadow calls
  MaxConcurrent,   \* of them
  None

Rules == [needsUnknown : BOOLEAN, aliases : SUBSET Aliases, tagged : BOOLEAN, org : {Org, None},
          deny : BOOLEAN, providers : SUBSET STRING, cap : Nat]

Quiet == {"off", "shadow_learn"}

ConstantsOK ==
  /\ Governed \subseteq Aliases /\ Challenger \in Aliases
  /\ Global # Org /\ None \notin Aliases \cup Strategies \cup Quiet \cup Nat
  /\ \A b \in {"simple", "medium", "complex"} : Tiers[b] \in Aliases \cup {None}
  /\ Limits \subseteq Nat \cup {None} /\ MaxConcurrent \in Nat \ {0}
  /\ RuleLists \subseteq Seq(Rules)
  /\ IsFiniteSet(Requests)

VARIABLES
  rules,      \* orgRules
  policy,     \* routing_policy: strategy of an alias, for Org and for Global, or None
  deleting,   \* the row an administrator has read and is about to delete
  req,        \* each handler
  inflight,   \* of ShadowRunner
  stats       \* counters of the smart router and of the runner

vars == <<rules, policy, deleting, req, inflight, stats>>

Idle   == [at |-> "idle"]

Init ==
  /\ rules \in [{Org, Global} -> RuleLists]
  /\ policy \in [Governed \X {Org, Global} -> Strategies \cup {None}]
  /\ deleting = None
  /\ req = [r \in Requests |-> Idle]
  /\ inflight = 0
  /\ stats = [launched |-> 0, completed |-> 0]

RowIn(table, alias, owner) == IF alias \in Governed THEN table[<<alias, owner>>] ELSE None

----------------------------------------------------------------------------
(* Guardrails: a message that matches blocks the request; personal values  *)
(* are redacted.                                                           *)
Blocks(content) == content \cap {"pattern", "injection"} # {}
CheckRequest(content) == content \ {"personal"}

(* Complexity in hundredths, from the length of the text and what it       *)
(* holds, and the tier it stands for.                                      *)
LengthWeight == <<0, 10, 25, 40, 55>>
SignalWeight == [code |-> 15, math |-> 20, reasoning |-> 20, tools |-> 15, schema |-> 5]

Score(signals) ==
  LET sum == LengthWeight[signals.length] +
             MapThenSumSet(LAMBDA s : SignalWeight[s], signals.has)
  IN  IF sum > 100 THEN 100 ELSE sum

bucketOf(score) == CASE score < 33 -> "simple" [] score >= 33 /\ score < 66 -> "medium"
                     [] OTHER -> "complex"

Decide(signals, alias) ==
  LET tier == Tiers[bucketOf(Score(signals))] IN IF tier = None THEN alias ELSE tier

----------------------------------------------------------------------------
(* The policy rules.                                                       *)

(* A condition on what the handler does not pass never holds.              *)
Matches(rule, in) ==
  /\ ~rule.needsUnknown
  /\ in.alias \in rule.aliases
  /\ rule.tagged => in.tagged
  /\ rule.org \in {None, in.org}

(* The rules of everybody come first, then those of the org; to a request  *)
(* without an org the former apply again.                                  *)
Listed(in) == rules[Global] \o rules[IF in.org = Org THEN Org ELSE Global]

intersect(a, b) == IF a = {} THEN b ELSE IF b = {} THEN a ELSE a \cap b

(* Fault: the later cap replaces the earlier. *)
LaterAllow(base, rule) ==
  [providers |-> intersect(base.providers, rule.providers),
   cap       |-> IF rule.cap > 0 THEN rule.cap ELSE base.cap]

mergeAllow(base, rule) ==
  [providers |-> intersect(base.providers, rule.providers),
   cap       |-> IF rule.cap > 0 /\ (base.cap = 0 \/ rule.cap < base.cap) THEN rule.cap ELSE base.cap]

Merged(in) ==
  LET rule == Listed(in)
      upTo[i \in 0..Len(rule)] ==
        IF i = 0 THEN [providers |-> {}, cap |-> 0]
        ELSE IF Matches(rule[i], in) THEN mergeAllow(upTo[i - 1], rule[i]) ELSE upTo[i - 1]
  IN  upTo[Len(rule)]

(* The first denial wins; a list of providers that remains denies, for the *)
(* provider is not known yet.                                              *)
Evaluate(in) ==
  LET rule == Listed(in)
  IN  [allow |-> /\ Merged(in).providers = {}
                 /\ \A i \in DOMAIN rule : Matches(rule[i], in) => ~rule[i].deny,
       cap   |-> Merged(in).cap]

Capped(limit, cap) == IF cap > 0 /\ (limit = None \/ limit > cap) THEN cap ELSE limit

----------------------------------------------------------------------------
(* The handler of a chat completion, up to the provider.                   *)
At(r, stage) == req[r].at = stage
Goes(r, stage) == req' = [req EXCEPT ![r].at = stage]

Governing(table, alias, org) ==
  IF org = Org /\ RowIn(table, alias, Org) # None THEN RowIn(table, alias, Org)
  ELSE RowIn(table, alias, Global)

Receive(r) ==
  /\ At(r, "idle")
  /\ \E alias \in Aliases, org \in {Org, None}, tagged \in BOOLEAN, content \in Contents,
        signals \in Signals, limit \in Limits :
       req' = [req EXCEPT ![r] =
         IF Blocks(content) THEN [at |-> "done"]
         ELSE [at |-> IF org = Org THEN "own" ELSE "global", asked |-> alias, alias |-> alias,
               org |-> org, tagged |-> tagged, content |-> CheckRequest(content),
               signals |-> signals, limit |-> limit, strategy |-> "track_only",
               quiet |-> Governing(policy, alias, org) \in Quiet, moves |-> 0, failed |-> FALSE,
               rewritten |-> FALSE]]
  /\ UNCHANGED <<rules, policy, deleting, inflight, stats>>

(* GetRoutingPolicy: the row of the org, or else that of nobody, in a query *)
(* of its own; the handler then asks for the latter again.  An error counts *)
(* as no row.                                                              *)
Lookup(r, stage, owner, otherwise) ==
  /\ At(r, stage)
  /\ LET row == RowIn(policy, req[r].asked, owner)
     IN  req' = [req EXCEPT ![r] = IF row # None THEN [@ EXCEPT !.at = "decide", !.strategy = row]
                                   ELSE [@ EXCEPT !.at = otherwise]]
  /\ UNCHANGED <<rules, policy, deleting, inflight, stats>>

LookupOwn(r)    == Lookup(r, "own", Org, "default")
LookupDefault(r) == Lookup(r, "default", Global, "global")
LookupGlobal(r) == Lookup(r, "global", Global, "decide")

LookupFails(r) ==
  /\ req[r].at \in {"own", "default", "global"}
  /\ req' = [req EXCEPT ![r].at = IF @ = "global" THEN "decide" ELSE "global", ![r].failed = TRUE]
  /\ UNCHANGED <<rules, policy, deleting, inflight, stats>>

Override(r) == IF req[r].strategy \in Quiet THEN req[r].asked ELSE Decide(req[r].signals, req[r].asked)

InputOf(r, alias) == [alias |-> alias, org |-> req[r].org, tagged |-> req[r].tagged]

(* What was looked up and seen is forgotten.                               *)
Gate(r) ==
  /\ At(r, "decide")
  /\ LET alias == Override(r)
         d     == Evaluate(InputOf(r, alias))
     IN  IF d.allow
         THEN req' = [req EXCEPT ![r].at = "plugins", ![r].alias = alias,
                        ![r].limit = Capped(@, d.cap), ![r].strategy = None, ![r].signals = None]
         ELSE Goes(r, "done")
  /\ UNCHANGED <<rules, policy, deleting, inflight, stats>>

(* A plugin refuses the request, answers it itself, lets it pass or        *)
(* replaces all of it: the handler routes by the alias it decided on and   *)
(* by the org of the key, but the text and the limit are the plugin's.     *)
(* The caches may answer as well.                                          *)
RunBeforeChat(r) ==
  /\ At(r, "plugins")
  /\ \/ Goes(r, "done")
     \/ Goes(r, "upstream")
     \/ \E content \in Contents, limit \in Limits :
          req' = [req EXCEPT ![r].at = "upstream", ![r].content = content, ![r].limit = limit,
                    ![r].rewritten = TRUE]
  /\ UNCHANGED <<rules, policy, deleting, inflight, stats>>

----------------------------------------------------------------------------
(* After an answer that was not streamed: maybeShadow, now and then, when  *)
(* the request does not name the challenger.  A plugin may have renamed it. *)
Answered(r) ==
  /\ At(r, "upstream")
  /\ \/ Goes(r, "done")
     \/ (req[r].alias # Challenger \/ req[r].rewritten) /\ Goes(r, "acquire")
  /\ UNCHANGED <<rules, policy, deleting, inflight, stats>>

(* Acquire counts first, and takes it back when that was too many.         *)
HasRoom(n) == n <= MaxConcurrent

Acquire(r) ==
  /\ At(r, "acquire")
  /\ inflight' = inflight + 1
  /\ IF HasRoom(inflight + 1)
       THEN Goes(r, "shadowing") /\ stats' = [stats EXCEPT !.launched = @ + 1]
       ELSE Goes(r, "refused") /\ UNCHANGED stats
  /\ UNCHANGED <<rules, policy, deleting>>

GiveBack(r) ==
  /\ At(r, "refused") /\ Goes(r, "done")
  /\ inflight' = inflight - 1
  /\ UNCHANGED <<rules, policy, deleting, stats>>

(* Fault: a call that failed returns before its slot. *)
ReleasedOnSuccess(observed) == IF observed THEN inflight - 1 ELSE inflight

Released(observed) == inflight - 1

(* The challenger's goroutine returns, at the latest with its timeout.     *)
ShadowEnds(r) ==
  /\ At(r, "shadowing")
  /\ \E observed \in BOOLEAN :
       /\ stats' = IF observed THEN [stats EXCEPT !.completed = @ + 1] ELSE stats
       /\ inflight' = Released(observed)
  /\ Goes(r, "done")
  /\ UNCHANGED <<rules, policy, deleting>>

----------------------------------------------------------------------------
(* The administrators.  A change is noted in the requests that look the    *)
(* policy up meanwhile.                                                    *)
LookingUp(r) == req[r].at \in {"own", "default", "global", "decide"}

Change(alias, owner, strategy) ==
  /\ policy' = [policy EXCEPT ![<<alias, owner>>] = strategy]
  /\ req' = [r \in Requests |->
       IF ~LookingUp(r) \/ req[r].asked # alias THEN req[r]
       ELSE [req[r] EXCEPT !.moves = Min({2, @ + 1}),
               !.quiet = @ /\ Governing(policy', alias, req[r].org) \in Quiet]]

(* The org's administrator changes the org's row, the master any.          *)
UpsertRoutingPolicy ==
  /\ \E alias \in Governed, owner \in {Org, Global}, s \in Strategies : Change(alias, owner, s)
  /\ UNCHANGED <<rules, deleting, inflight, stats>>

(* The row is read, and deleted by its id.  The org's administrator gets   *)
(* the row of nobody when the org has none, and may not delete it; the     *)
(* master gets no other.                                                   *)
DeleteRoutingPolicy ==
  /\ deleting = None
  /\ \E alias \in Governed, owner \in {Org, Global} :
       policy[<<alias, owner>>] # None /\ deleting' = <<alias, owner>>
  /\ UNCHANGED <<rules, policy, req, inflight, stats>>

DeleteRow ==
  /\ deleting # None
  /\ Change(deleting[1], deleting[2], None)
  /\ deleting' = None
  /\ UNCHANGED <<rules, inflight, stats>>

Serve(r) ==
  \/ LookupOwn(r) \/ LookupDefault(r) \/ LookupGlobal(r) \/ LookupFails(r) \/ Gate(r)
  \/ RunBeforeChat(r) \/ Answered(r) \/ Acquire(r) \/ GiveBack(r) \/ ShadowEnds(r)

Next ==
  \/ \E r \in Requests : Receive(r) \/ Serve(r)
  \/ UpsertRoutingPolicy \/ DeleteRoutingPolicy \/ DeleteRow

Spec == Init /\ [][Next]_vars

----------------------------------------------------------------------------
Left == {r \in Requests : req[r].at \in {"upstream", "acquire", "refused", "shadowing"}}

TypeOK ==
  /\ \A r \in Requests : req[r].at \in {"idle", "own", "default", "global", "decide", "plugins",
                                        "upstream", "acquire", "refused", "shadowing", "done"}
  /\ policy \in [Governed \X {Org, Global} -> Strategies \cup {None}]
  /\ inflight \in 0..Cardinality(Requests)

(* No request is sent to an alias that a rule denies it, not even one that *)
(* a plugin has rewritten; and unless one has, it is under the smallest of *)
(* the caps of the rules about that alias and holds nothing the guardrails *)
(* take out (chat.go:166-325).  The challenger's call is not asked about.  *)
EgressIsAllowed ==
  \A r \in Left :
    /\ ~req[r].rewritten => req[r].content \cap {"pattern", "injection", "personal"} = {}
    /\ \A owner \in {Global} \cup ({Org} \cap {req[r].org}) : \A i \in DOMAIN rules[owner] :
         LET rule == rules[owner][i]
         IN  Matches(rule, [alias |-> req[r].alias, org |-> req[r].org, tagged |-> req[r].tagged]) =>
               /\ ~rule.deny
               /\ rule.cap > 0 /\ ~req[r].rewritten => req[r].limit # None /\ req[r].limit <= rule.cap

(* A request for an alias that is off, or only learns, from its arrival to *)
(* the decision is served by that alias, though the policy is looked up in *)
(* up to three queries while an administrator changes or deletes a row.    *)
(* Two changes between the queries, or a query that fails, can hide it.    *)
OffIsRespected ==
  \A r \in Left :
    req[r].quiet /\ req[r].moves < 2 /\ ~req[r].failed => req[r].alias = req[r].asked

(* No more challengers run than MaxConcurrent, however the counts and the  *)
(* retractions of several handlers interleave, and the count is exact.     *)
ShadowsAreBounded ==
  /\ Cardinality({r \in Requests : At(r, "shadowing")}) <= MaxConcurrent
  /\ inflight = Cardinality({r \in Requests : req[r].at \in {"shadowing", "refused"}})
=============================================================================
