# gateway-llm in TLA+

A verification development of the gateway in `src/backend`: TLA+ modules of its
components, TLC configurations that check them on small instances, and theorems
that the TLA+ proof system checks for every instance. Paths below are relative to
`src/backend/internal` unless they start with `src/`.

The gateway is one Go process. A client's request passes the middleware
(authentication, rate limits), a handler decides what to call and asks the
*router* to call it; the router picks deployments of the requested model alias,
calls them through provider adapters, retries, falls back, and reports every
outcome to the deployment's *circuit breaker*. After the answer, spend, tokens,
audit events, recordings and ledger rows are written asynchronously.
Administrators change deployments, prices, policies and accounts in Postgres,
and what the process keeps in memory is reloaded from the tables while requests run.

Contents: [inventory](#inventory), [modules](#modules-and-the-code),
[runs](#runs-and-what-they-show), [findings](#where-the-code-differs-from-what-it-says),
[fairness](#fairness), [proofs](#proofs), [limits](#what-is-only-model-checked-and-what-is-not-modelled),
[plan](#plan).

## Inventory

For each part: its state, its operations, whom it interacts with, what is hard
about it, and what makes it correct. "(M)" marks the parts that are modelled;
`PROJECT.json` says of each what is left out.

**Circuit breaker (M)**, `router/circuit_breaker.go`. State: four atomics
(state, failure count, stamp of the last trip, probe flag), no lock. Operations:
`Allow`, `ReportSuccess`, `ReportFailure`, shared by all requests to the
deployment. Hard: every operation is several atomics and requests interleave
between any two. Correct when: an open breaker rejects until its cooldown is
over, then admits one probe, and is never left half-open with nobody to report.

**Routing order (M)**, `router/router.go`. State: per alias a list of deployments
and a round-robin counter. Operation: `order` with five strategies. Hard: ties,
rotations after sorts, a randomised comparison. Correct when: every deployment
appears exactly once, ranks are respected, ties are spread.

**Request execution (M)**, `router/fallback.go`. State: per request the list of
deployments still to try and the attempt. Operations: resolve for the caller's
org, the fallback loop, the retry loop. Interacts with breakers, with clients
that hang up, and with `Reload`, which replaces every object the request may
hold. Correct when: each admission by a breaker is followed by a report to the
same breaker, retries are bounded, a good answer is delivered, every request
ends, and a request does not mix the deployments of two owners. Resolution takes the
router's lock once or twice and reads the map of counters without it.

**Speculative execution (M)**, `router/speculative.go`. Two runs of the former
under one cancellable context. Hard: both results, the cancellation and the
client's hang-up in every order. Correct when: the first success wins and
nothing outlives the call. No handler calls it yet.

**Deployment administration and hot reload (M)**, `server/handlers/deployments.go`,
`server/handlers/settings.go`, `server/server.go`, `db/postgres.go`. State: the
deployments table and the router's copy. Operations: create, update, delete,
set an alias's strategy, update the settings, start and restart. Hard: handlers
interleave between their statements; a crash between write and reload. Correct
when: the router follows the table, rows of an alias agree, and deleted rows stay
deleted.

**Accounts (M)**, `server/handlers/management.go`, `organizations.go`,
`litellm_compat.go`, `settings.go`, `server/middleware/auth.go`, `db/postgres.go`. State:
organizations, teams, users and keys, with foreign keys, unique columns and the
spend that charges add to. Operations: creation, change and deletion of each,
registration, login. Hard: a handler reads rows, decides, and then issues several
statements without a transaction; whole rows read earlier are written back.
Correct when: nobody acts above his role or outside his org, no update sets a
spend back, deleting a user revokes his keys, and listings and totals agree.

**Prices and discounts (M)**, `cost/`, `server/handlers/operator_catalog.go`,
`pricing.go`, `db/savings.go`. State: the signed price catalog, custom prices and
countersigned discounts as tables, and the maps the cost engine serves them from.
Operations: upsert, seeding, declaration, attestation, revocation, reload, start.
Hard: tables, lists and maps are three steps; the upsert is a READ COMMITTED
transaction. Correct when: the engine follows the tables, an entry has one active
price, and only what was countersigned is billed as a discount.

**API key rate limits (M)**, `server/middleware/ratelimit.go` over
`cache/redis.go`. State: windowed counters in Redis, with a local map behind it.
Hard: failover in the middle of a pipeline, tokens counted after the response.
Correct when: limits hold per store and window, and windows end.

**Registration limit (M)**, `server/middleware/register_ratelimit.go`. State: the
recent hits of each address under a mutex. Correct when: at most the limit in
every sliding window, and bounded memory.

**Chat pipeline (M)**, `server/handlers/chat.go`, `chat_savings.go`,
`helpers.go`, with `server/middleware/auth.go` in front. State shared by requests:
the spend of each key, the privacy vault, the exact and the semantic cache.
Operations: one long handler with a fixed order of stages and early exits
(authentication and budget, guardrails, smart routing, redaction, policy, plugins,
caches, execution, streaming or rehydration, recording, receipt, caches), and a
goroutine that charges the key. Hard: requests interleave between the stages; the
budget is read long before it is charged; the trace id that names a vault entry
can be supplied by the caller. Correct when: a budget is overspent by no more than
the requests in flight, a cached answer goes to the org, alias and prompt it was
made for, every caller gets its own values back, and recordings hold none.

**The gate of a chat request (M)**, `guardrails/`, `smartroute/`, `policy/`,
`plugins/`, `wasmplugin/` and the lookups of `chat_savings.go`. State: routing
policies that administrators change, rules loaded at start, the slots of shadow
calls. Hard: a lookup is up to three queries, and each may fail or see another
table; rules of everybody and of the org are merged; a slot is taken by adding
first and giving back; plugins run last and may replace the request. Correct when: no
request goes to an alias that is denied, nothing denied leaves unless a plugin wrote
it, an alias that is "off" is not overridden, and challenger calls are counted and bounded.

**Conversations over wires (M)**, `ingress/`, `ir/`, `server/handlers/ingress.go`,
`responses.go`, `completions.go`, `providers/*/chat.go`,
`providers/bridge`, the repair of `helpers.go`. No state; conversions of turns,
tool calls and results between seven client formats and five provider formats.
Hard: each pair of conversions loses something else, and a repair step has to keep
calls and results paired. Correct when: what reaches a provider is paired and what
was said arrives.

**Streamed answers (M)**, `providers/*/stream.go`, `providers/bridge`,
`server/handlers/chat.go`, `ingress/anthropic`. State: an adapter's goroutine, the bridge's
goroutine, their channels, the handler. Hard: cuts, undecodable events, clients
that leave, and who waits for whom. Correct when: what ends properly is whole and
counted, and no goroutine outlives the request.

**Other endpoints and the books (M)**, `server/handlers/embeddings.go`,
`audio.go`, `images.go`, `moderations.go`, `passthrough.go`, `completions.go`,
`responses.go`, `helpers.go`, `db/postgres.go`. State: token counters, spend logs,
key spend and daily totals, stored responses. Hard: four statements without a
transaction, in a goroutine nobody waits for, on a key that may be moved or
deleted. Correct when: the four books tell of the same requests, those with the master
key excepted, which are in the log alone.

**Privacy (M, in part)**, `privacy/`: placeholders that are a function of the value,
a vault per process, restoration of whole answers. Its stream writer, which must
not cut a placeholder that two chunks share, is called by no handler.

**Semantic and exact cache (M, in part)**, `semcache/`, `respcache/`: a bounded ring
per org and alias, searched by similarity; a key in Redis.

**Savings ledger and receipts (M)**, `savings/`, `receipt/`, `db/savings.go`. State:
the rows of `routing_savings` and one mutex per process; the last receipt of each
org in the memory of each process. Hard: several processes on one table, failing
and abandoned statements, restarts. Correct when: chains do not fork.

**Replay (M)**, `replay/engine.go`, `replay/scorer.go`, `db/recordings.go`. State: the
run's row, a goroutine per recording, one mutex, the results. Operations: start,
replay, count, save, finish. Hard: statements fail, all of them after four hours;
goroutines end in any order; the process may die; columns are NULL, so that today
the recordings of the gateway cannot be listed and no run over them starts. Correct
when: progress never goes back, a completed run is complete, and it ends.

**Asynchronous sinks and shutdown (M)**, `replay/recorder.go`, `audit/audit.go`,
`savings/roller.go`, `Server.Close`, `main.go`. State: two bounded channels, a
worker pool, a periodic goroutine. Hard: closing a channel while handlers of a
forced shutdown may still send; waiting for goroutines that may be anywhere.
Correct when: sinks close after their last sender and drain, and the process ends.

**Not modelled**: callbacks (`callbacks/`), the quality evaluator (`qualityeval/`),
credentials (`crypto/`, `server/handlers/credentials.go`), observability, configuration, types,
tools, SDKs, the UI. See [the limits](#what-is-only-model-checked-and-what-is-not-modelled).

## Modules and the code

| Module | Models | State | Actions |
|---|---|---|---|
| `BreakerOps` | the three operations of a breaker, undisturbed | a breaker as a record | operators only |
| `AtomicBreaker` | the contract of one breaker | `breaker`, `phase` of each request | `Allow`, `ReportSuccess`, `ReportFailure`, `Tick` |
| `CircuitBreaker` | the breaker, one step per atomic | the four atomics, the `pc` of each request and the stamp it has `seen` | one action per load, store, add and compare-and-swap |
| `RouterOrder` | `order` and the strategies | `strategy`, `score`, `counter`, the order last handed out | `Resolve` |
| `Fallback` | `ResolveForOrg`, the fallback and the retry loops, `Reload` | catalog, generation, counter, whether a reload is writing, a breaker per object; per request its list, attempt and verdict | one action per lock section, read of the counters, admission, call, wait and report; `Reload` and `Unlock`, `HangUp`, `NextRequest`, `Tick` |
| `Speculative` | `ExecuteSpeculative` | branches, channel, winner, losers | grace, answer, fail, publish, collect, return, hang-up |
| `DeploymentCatalog` | the deployment handlers, reload and restart | table, routes, settings; per handler its pc and what it has read | one action per database statement, `Install`, restarts, failures |
| `Accounts` | the management, LiteLLM-compatible, login and registration handlers | organizations, teams, users, keys; per request the statements it has still to issue | one action per handler's reads and checks, one per statement, `UpdateKeySpend`, failing statements, the death of the process |
| `PriceBook` | the operator's catalog, custom prices, discounts, the cost engine | three tables, the engine's maps; per handler its remaining steps | a handler's change, `List`, `Swap`, `Start`, `CountersignDiscount`, failures |
| `RateLimit` | RPM and TPM checks over both stores | counters with time left, per client its pc, responses not counted yet | `CheckRpm`, `CheckTpm`, `Respond`, `ConsumeTokens`, `Tick` |
| `RegisterLimiter` | `allow` of the registration limiter | ages of the hits remembered per address | `Reject`, `Admit`, `Tick` |
| `ChatPipeline` | `Auth`, `ChatCompletions`, `RedactRequest`, `RehydrateResponse`, both caches, the charging goroutine | spend, vault, caches; per request its stage, input, alias, answer and where that comes from | one action per stage that touches shared state or may end the request; `Restart` |
| `RequestGate` | guardrails, the lookups of the routing policy, the smart route, policy rules, plugins, shadow calls | rules, policy rows, slots in use; per handler where it is, what it has decided and whether a plugin has rewritten it | one action per query, per decision and for the plugins; the administrators' upsert and two-statement delete; each step of a shadow call |
| `Transcript` | ingress, normalisation, repair, provider conversions, and the way back | history, what the provider got, the reply as the client sees it | a turn of the user, of the model, the results of calls |
| `ChatStream` | streaming adapters, `ResponsesBridge`, the streaming loop, the Anthropic stream translator | what was said, whether the client asked for usage, both goroutines, channels, what was written | one action per event read, send, receive and exit; the client leaves |
| `Spending` | the endpoints other than chat, and their books | key rows, counter and what of it has expired, logs, daily rows, stored responses; per request its remaining statements | one action per handler and per statement, failures, key moves and deletions, the end of a window and of the process |
| `Ledger` | `Writer.Write` with its two statements, `Signer.Sign` | rows, inserts nobody waits for, a lock per process, receipts and their heads | `Lock`, `ReadPrev`, `Insert`, `Answer`, `Settle`, `Sign`, `Restart` |
| `Sinks` | recorder, audit log, roller, `Server.Close`, the shutdown in `main` | queue, buffer, flags, the pc of each goroutine | one action per channel operation, flag, wait and stage of the shutdown |
| `ReplayRun` | `Start` with its listing, `execute`, `replayOne`, the scorers | the recordings' reasons, the run's row, goroutines, mutex, counts, results | one action per statement, lock section and outcome; `Expire`, `Die` |

Theorems are in `InductionLemmas` (facts about data that several proofs need) and in
seven `...Proofs` modules, which extend the `MC...` module of a run, so that one module
holds the theorems about all its parts: `CircuitBreakerProofs` (`MCCircuitBreaker`),
`FallbackProofs` (`MCFallback`), `RoutingProofs` (`MCRouting`),
`AdministrationProofs` (`MCAdministration`), `RecordsProofs` (`MCRecords`),
`ChatPipelineProofs` (the stages and the gate of `MCChatPipeline`) and
`TranscriptProofs` (its conversations). The constants
of the parts that theorems are about are constants of the `MC...` module too, with
values in the `.cfg`, so nothing proved depends on those values; only the fallback loop
inside `MCRouting` has fixed ones (two deployments, breakers that trip at once), and its
types there are proved for these, since `FallbackProofs` is about any.

`CircuitBreaker`
is the detailed specification of `AtomicBreaker`; `Fallback` composes many breakers
(with `BreakerOps` as atomic steps), resolution, clients and reloads; `Speculative`
takes one run of `Fallback` as a branch that ends with an answer or an error;
`ChatPipeline` takes the decisions of `RequestGate` as free choices. The `MC...`
modules put the parts of a run together. A definition with a comment "Fault:" is
not part of a specification: it is a plausible bug in the definition that follows
it, kept to show that the property checked would notice it.

Abstractions, and why they keep what the properties need:

* *Time.* Stamps are ages in ticks and saturate where the code stops telling them
  apart: a stamp is only compared with the cooldown, a hit only with its window.
* *Counters.* The failure count saturates at the threshold, with which alone it is
  compared. The round-robin counter is kept modulo a multiple of every group size
  (in Go it is a 64-bit integer, and a request would have to wrap it).
* *Identity.* A reload makes new objects; an object in `Fallback` is a deployment
  and the generation that made it, so a late report goes to the right one.
* *Providers.* A deployment's provider is healthy or not for a whole behaviour.
  A healthy one answers below 500, unless the client has gone; a sick one fails or
  answers 5xx. That is all `executeWithRetry` and the loop look at.
* *Prices, weights, latencies* are small integers, every assignment is an initial
  state, and `Unknown` is the marker of an unpriced deployment. Amounts of money in
  `Spending` are millionths of a dollar, rounded where a column rounds them.
* *Rows* keep the columns whose agreement the code speaks of or that a statement
  of the model looks at: owner, strategy and flag of a deployment; name, role, team,
  org, flag and spend of an account. NULLs, unique columns and foreign keys are kept.
* *Handlers over tables* (`Accounts`, `Spending`, `PriceBook`) read what they need in
  one step and hold the statements still to issue as a sequence; the reads of a
  handler precede its first write in the code, and no transaction joins them.
* *Texts* are numbers in the order they are said (`Transcript`), letters
  (`ChatStream`), or the set of features a check looks for (`RequestGate`). Ids of tool
  calls are numbers, or `NoId` where a format has none.
* *Scores* of replays are fractions of small bags of words and small objects.

## Runs and what they show

A run is one configuration. Several modules are small and share no state; a run
over them starts in one *part*, the variable `part` says which, and the variables of
the other parts rest as they started or at "idle". So a run explores the sum of its
parts, never their product, and a property says which part it is about. Where a part
comes to its end (a conversation, a streamed answer, settled books) the action `Rest`
says so. In the same way `serial` (breaker: operations do not overlap), `alone`
(administration: one administrator at a time and no failed statements), `caching`
(pipeline), `fallbackEnabled` (a setting of the process) and `available` (Redis) are
chosen at the start or change as the code lets them.

| Run | Parts and instance | Shows |
|---|---|---|
| `Breaker` | 3 requests, threshold 2, cooldown 2, overlapping or serial | the half-open state is always somebody's; an open breaker that earlier reports and loads have left sheds until its cooldown is over; every half-open period ends and an open breaker gets another chance, whatever stores overlapped; serial behaviours implement `AtomicBreaker` |
| `Fallback` | `requests`: 2 requests of different orgs, 2 deployments, threshold 1, reloads, hang-ups, with and without fallback; `books`: 2 requests, one key or the master key, costs of 0, 60 and 120 millionths against columns that tell 100 apart | reports go to the object that admitted, one catalog per request and one owner unless the alias was missing when it came, retry budget, healthy answers are served while the process lives, the nil counter needs a removed alias and the fatal map access a reload that writes; log, daily totals, windows of the counter and spend agree unless a statement failed, but for the master key and up to the rounding of each request |
| `Routing` | `order`: 4 deployments, all scores and strategies; `race`: both branches with and without grace; `lone`: one request, one reload, sick providers; `stream`: 3 providers, 3 kinds of clients, 3 letters of an alphabet of 2, buffers of 1; `key`: 2 clients, RPM 1, TPM 1, window 2, Redis failing or absent; `register`: 2 addresses, limit 2, window 2, pruning above one entry | ranks survive rotation, the jitter is bounded, every tied leader returns; the first success wins and nothing leaks; a stream that ends properly is whole and, if it tells of its usage, counted, and its goroutines end; limits hold per window and store, and a client that retries on local counters is admitted again; every call ends |
| `Pipeline` | `calls`: 2 slots, 2 values, 2 aliases of which the org may use one, budget 1, cost 1, rings of 1, either caches and generated trace ids, or a vault with supplied ones; `talk`: 7 wires, 5 providers, 5 turns, 2 calls in a reply; `gate`: one request, two changes of the routing policy, two rule files, a plugin; `shadow`: 3 alike requests, one slot | overspending is bounded, hits stay in their org, alias and prompt, callers get their own values back; calls stay paired, texts get through, a replay asks the same; rules, guardrails and "off" are obeyed but for what a plugin writes; slots are exact |
| `Catalog` | two administrators and failing statements, or one alone with restarts; `routes`: 2 rows, 2 owners, 2 strategies; `people`: 2 orgs, a team, 2 users, 2 keys, two requests, from an empty or a furnished database; `prices` and `discounts`: 3 rows of one entry, 2 signing keys | alone, routes, prices and discounts follow their tables and a user's deletion revokes the keys; in every interleaving deleted rows stay deleted, no spend is set back, only attested discounts are billed, listed keys are counted |
| `Records` | `savings` and `receipts`: 3 writers in 2 processes, 2 orgs, 3 turns; `sinks`: 2 handlers, 2 workers, queue and buffer of 1; `replay`: 6 recordings of which 3 match, with or without a router_reason, pages of 3, 2 at a time, progress saved after each, 3 scorers | one process never forks a chain, receipts never fork; only a forced shutdown sends on a closed channel, a stopped recorder has drained; progress never goes back and a completed run is complete; the process and the run end |

Bounds. Three requests are enough for the breaker: its hazards need one request
in the middle of an operation, one that changes the state under it, and one that
observes the result; a threshold of 2 separates "the first failure trips" from
"failures are counted", and a cooldown of two ticks separates stale from fresh
stamps. Four deployments are the least that make two tie groups. Two deployments
make a fallback, and one reload can happen before, between and after any two
steps of a request; the proofs drop these bounds for the property that matters
most. Two slots of `calls` are two handlers with the goroutines they leave behind,
which is what it takes to overspend, to overwrite a mapping between its redaction
and its rehydration, and to fill a ring of one; a slot is used again and again. Five
turns let an answered call follow a dropped one, with a text on either side. Two
policy changes hide an "off" from two queries. Three requests with one slot are one
that holds it, one that takes and gives back, and one that looks in between. Three
letters make two deltas and a repeated one, and a buffer of one is full as soon as
the handler is late. Two row ids allow two active rows, or a deletion beside an
active row; an id is used once, so the ids bound the number of creations. Three
rows of one catalog entry are an active one and two that want to replace it. Two
requests to the accounts meet at every statement; a third would only follow one of
the two. `Records` has two writers that meet at one lock and one that does not, and
`MaxSigned` turns: a first row, a row that continues it, and a rival. Three matching
recordings with two goroutines are one that waits for a slot, and two at the mutex.

`MaxCount` and `MaxPending` of `RateLimit`, `MaxTurns` and `MaxCalls` of `Transcript`,
`MaxLetters` of `ChatStream`, `MaxReloads` of `Fallback`, `MaxSigned` of `Ledger`,
`MaxSpend` of `Accounts` and `changes` of the gate bound what the code leaves
unbounded; `CounterMod` of `RouterOrder` is a multiple of every group size.

`Records` does not check for deadlock: its sinks and its replay end with the process
or the run, and its chains stop at `MaxSigned`. In every other run a deadlock would
be an error.

## Where the code differs from what it says

The runs that end in a counterexample, each against a sentence of the repository:

| Run | The sentence | What happens |
|---|---|---|
| `BreakerOneProbe` | `circuit_breaker.go:45` one request at a time is the probe | two are, when the flag is swapped between the state's swap and the flag's store |
| `SpeculativeBody` | `speculative.go:28` the winner is returned | with a cancelled context, so its body cannot be read |
| `CatalogStrategy` | `router.go:60` the strategy is read off the deployments | a hot reload does not copy it |
| `PipelineRecordings` | `privacy/redactor.go:7` recordings are safe to hand to other teams | the request is captured before redaction and the answer after its values were restored |
| `RateLimitExpire` | `redis.go:68` expiration is set on create | on every increment: a client that keeps retrying keeps itself out |
| `RecordsStart` | `replay/engine.go:61` `Start` creates a run and kicks off its workers | the gateway never sets a recording's `router_reason` (`helpers.go:119`), which is stored as NULL and scanned into a string (`db/recordings.go:123`): the listing fails and no run over its recordings starts |

Also seen while the models were written, without a run of their own:

* Breaker: an overlapping success erases the stamp of a trip
  (`circuit_breaker.go:100`), and an open breaker without a stamp admits everybody,
  although line 11 says all requests short-circuit; `OpenGetsAnotherChance` shows
  that the first of them to report moves it on. A stale stamp half-opens a breaker
  that was just reopened (`circuit_breaker.go:73`). Hang-ups count as failures and
  trip a healthy deployment (`fallback.go:43`).
* Routing: every tie group of a request takes the next value of one counter, so two
  groups of two keep their heads although `router.go:336` calls the rotation fair;
  the same holds for equal prices (`router.go:410`). The latency jitter only favours
  the listed order (`router.go:509`). An empty list has no last error to wrap
  (`fallback.go:77`). An alias that a reload adds between the two lookups of
  `ResolveForOrg` (`router.go:252`) hands a request of an org its own and the global
  deployments together. The map of counters is read without the lock
  (`router.go:338`, `412`, `479`): while a reload adds or deletes any alias Go may end
  the process with "concurrent map read and map write", and after one that removed
  the alias the counter is nil.
* Deployments: an update may make the rows of an alias disagree
  (`router.go:296`); routing settings are stored and never applied
  (`openapi.yaml:722`).
* Accounts: the insert of a key leaves out its expiry and its flag, so the tokens of
  sessions never expire (`openapi.yaml:20`). A team with keys, users or daily
  totals cannot be deleted: its keys are deactivated and then the foreign key
  refuses (`openapi.yaml:918`). A login between the two statements of a user's deletion leaves a
  working key (`openapi.yaml:1202`). A key that is written back whole can become
  active again. The memo of `ListAPIKeys` hides the first key of a team without an
  org (`management.go:152`). The LiteLLM-compatible creation makes inactive users. A
  second registration with one workspace name fails on the unique name of the org.
* Prices: two upserts of one entry at once can both insert an active row, although
  `db/savings.go:87` speaks of one and `idx_opc_active` of migration 011 is not
  unique. Seeding signs every row again where `operator_catalog.go:124` says it skips.
  The master key cannot countersign. A declaration supersedes an attested discount
  and leaves the engine with the older one. Of two reloads the older snapshot may
  win. A custom price without a deployment never conflicts with another
  (`001_initial.sql:90`). Deleting an org removes its discounts by cascade
  (`organizations.go:160`, migration 011) without a reload, so the engine goes on
  serving them, of which `PriceBook` has nothing.
* Gate: plugins run after the policy and the guardrails and may replace text and limit
  of the request (`wasmplugin.go:175`), though not the alias or the org it is routed
  by. The access check of a key precedes the smart route, which may choose another
  alias. A policy that changes between two queries, or a query that fails, can hide
  an "off". Shadow calls pass no gate, no strategy and no books and are routed without the
  caller's org (`chat.go:582`), although
  `policy.go:1` speaks of every request; other endpoints than chat ask no policy. Allow
  lists that share nothing merge to "unrestricted", not to their conjunction. A cap
  raises a smaller limit of the client. The overrides that a policy suppressed are
  counted as overrides.
* Conversations: repair drops the text of a message with an incomplete call, where
  `helpers.go:694` speaks of the call only. Gemini's calls have no ids, so repair
  drops those that come in by its wire; its provider reports "stop" for a reply with
  calls. Bedrock and Vertex AI send no tools and drop calls; Vertex AI keeps the last
  of several system texts (`vertexai.go:76`). The bridge of the Responses API drops
  calls and says "completed" of every reply. Anthropic's "refusal" becomes "stop".
* Streams: after an event that it could not decode, Anthropic's adapter may wait for
  ever at `stream.go:151`. An upstream that ends early, or reports an error in the
  middle, ends as `[DONE]` with Anthropic. Gemini's adapter drops a delta that equals
  all the text before it. Usage is lost when the client leaves, and in the bridge. OpenAI-compatible streams
  tell of it only if the client asked (`stream_options`, `types/chat.go:104`), which the
  ingress for Anthropic's clients never does: otherwise they are logged and charged as
  zero tokens, and count nothing against the token limit.
  Anthropic's clients get the whole stream at its end, without tool calls; Gemini's
  get its last chunk. Bedrock and Vertex AI do not stream.
* Books: requests with the master key are logged and never enter the daily totals, of
  which nothing in the repository says otherwise. Costs below 0.00005 dollars add nothing to the spend that budgets look at,
  whose column has four decimals where the log has six. Pass-through, moderations and
  streamed completions are never charged. A key deleted while its request runs loses
  log and daily totals to the foreign key, though migration 010 wants rows kept. The
  daily totals of a key without a team never merge, since NULLs differ. Stored
  responses are found by id alone.
* Replay: if recordings had a reason, the results of a run still could not be listed,
  since an empty error or blob is stored as NULL and scanned into a string too
  (`db/recordings.go:216`). A run that ends after its four hours, or whose process dies, stays
  "running". `llm_judge` is never given the function it calls, so its replays fail. A
  limit above 1000 becomes 100. A run without alias or scorer cannot be read back.
  `Start` hands out the struct that `execute` goes on writing.
* Limits: the registration map is pruned only above 1024 entries and only when
  admitting (`register_ratelimit.go:12`); as many requests as are in flight may
  exceed the token quota (`ratelimit.go:66`).
* Pipeline: a request that streams, is refused after redaction, or fails upstream
  leaves its mapping in the vault for good, although `vault.go:12` speaks of a TTL;
  streamed answers keep their placeholders (`RehydrateBytes` has no caller); team
  and org spend is never added up, so those budgets never bite; two requests that
  differ in a field outside `KeyParts` share an exact entry; a semantic hit may
  carry the restored value of another prompt of the same org.
* Ledger: a read that fails starts a chain anew (`writer.go:144`), and so does a
  restart for receipts; two processes, or an insert that is committed after its
  writer's five seconds, fork the savings chain.
* Sinks: a full audit buffer drops the newest event where `audit.go:26` says the
  oldest; `Close` does not wait for the audit writer, so queued events can be lost.
* `Registry.GetResponses` writes a map of bridged providers without a lock from
  handlers (`providers/registry.go:143`).

## Fairness

* Go runs every runnable goroutine, so each request takes its next step
  (`WF` of a request's own step). An upstream call returns: this is asked of the
  environment, not granted by the code. The handlers call through
  `http.DefaultClient`, which has no timeout (`chat.go:405`; the clients of the
  adapters, some with 120 s, are not used for it), so the upstream has to answer or
  to break, or the waiting client has to hang up, which cancels the call's context.
  Where none of it happens a probe stays upstream and its breaker half-open.
  Hanging up, reloads and ticks need not happen.
* `Breaker`, `HalfOpenResolves` needs only that running requests go on.
  `OpenGetsAnotherChance` also needs that requests keep arriving and that time
  passes: a deployment nobody asks for stays open, and rightly.
* `Routing`: requests keep arriving (`order`); both branches and the collecting
  loop run (`race`); a request takes its steps (`lone`); the adapter's and the
  bridge's goroutines run, the upstream goes on or breaks, and the handler forwards
  (`stream`); the clients keep asking, time passes, and the goroutine that counts
  tokens runs (`key`). Nobody has to hang up. A behaviour stays in its part, so one
  weak fairness condition over an actor of each part (`MainActor`, `FirstActor`,
  `SecondActor`) is that of the actor of the part that was chosen.
* `GoroutinesEnd` says that what is left when a client leaves or the handler returns
  comes to its end; it excludes Anthropic's adapter after an event that it could not
  decode, which may block for ever (see above).
* `Records`, `sinks`: once a signal has arrived, `main` goes on (`Shutdown` and the
  waits of `Stop` have timeouts); the statements of the roller return, for which the
  code relies on the database, since they have no timeout; and when its stop channel is
  closed, a `select` that also finds its timer ready picks the stop sooner or later
  (strong fairness), as Go's random choice does. Handlers, workers and the audit
  writer are not assumed to do anything: nothing waits for them without a timeout.
* `Records`, `replay`: `execute` and the goroutines go on, their calls and statements
  return (with an error after the deadline), and of the goroutines that wait for the
  mutex each gets it (strong fairness), since `sync.Mutex` hands itself over to a
  waiter that starves. The deadline and the death of the process need not happen.

## Proofs

Proved for every value of the constants, that is for any set of requests,
threshold, cooldown, deployments, orgs, retries, reloads, rows and administrators:

* `CircuitBreakerProofs`: `TypeCorrect`, `HalfOpenOwned` and `ShedsUntilCooledDown`.
  `HalfOpenIsOwned` is inductive together with the types: the only step that makes
  a breaker half-open is the compare-and-swap, which leaves its request at
  `setProbe`; an owner leaves the set of owners only by a store that ends the
  half-open state, for a request at `loadState` that sees half-open goes to
  `reopen`. The proof has one step per atomic.
  That an open breaker which nobody is about to move sheds every request is inductive
  as it stands: a request that comes loads the stamp, its copy ages with the shared
  one, and so the comparison finds the cooldown running for as long as it is.
* `SerialImplements` and, of the specification of the run, `ContractIsKept`, in the same
  module: operations that do not overlap implement
  `AtomicBreaker`. `SerialInv` says that at most one request is inside an operation
  and what it knows of the atomics at its `pc`; the refinement mapping (`Stored`,
  `Owed`) already shows the operation's effect at the step that decides it and owes
  the stores that are still to come. So each step is `Allow`, a report, `Tick`, or a
  stutter. `OneDecides` reduces the mapping to the one request that is not quiet, and
  `Fields` and `OperationsByField` compare breakers field by field.
* `FallbackProofs`: `AdmissionsAreReported`. `HalfOpenIsProbed` is strengthened by
  `Shape`: program counters are among `PCs`, every request has a list, and every
  object has a breaker. `OpsType` and `ReportsLeaveHalfOpen` are the lemmas on the operations
  of a breaker that the steps cite: no report leaves a breaker half-open, so a
  request may take its report away from a shared breaker without abandoning it.
* `OneOwner`, `BudgetIsKept`, `GoodAnswersAreServed` and `PanicsFollowRemovals`, in the
  same module. `Equipped` says that a list names an object once. `IInv` says that the alias
  has a counter exactly as long as it has deployments, but for the moment in which a
  reload changes the map, and that the generations without it are remembered
  (`CounterLives`); and of each request's journey that its list is of one generation,
  of its own org and of nobody, and of one owner unless its first lookup found no such
  alias (`Coherent`), that calls made and the attempt at hand agree (`Budgeted`), and
  where a good answer may be unless the process died (`Answered`). A list is what a
  filter and a rotation make of a catalog: `GivenListsAreCoherent` rests on
  `ThoseObjects` for the filter (through `FilterResult`) and on `OrderedObjects` for the
  rotation, which is a bijection of places (`Rotation`). `VerdictsAreEarned` adds the types of `Spending`.
* `BooksAddUp`, in the same module: while no statement has failed, each request keeps the
  bill it was charged for (`AllKept`), rows that share an id are one row (`Apart`), and
  the requests of the daily rows (`NumbersAgree`) and, of each key, the counters of
  the windows that run or expired and the spend (`KeysAgree`) are sums over those bills.
  A request with the master key has a row in the log and nothing else (`LoggedAlone`). A
  statement changes
  a sum at one point (`TotalChanges`, `TotalOfSome`), and rounding moves a spend by at
  most half a unit per charge (`RoundedNearly`), so the difference is bounded by the
  number of charges, whatever the price and the unit.
* `ChatPipelineProofs`: `TypeCorrect` and `BudgetHolds`. `OverspendIsBounded` is
  strengthened by what is still to come (`Bound`): spend plus `Cost` for each
  *pending* request, one that was let in and is not charged yet, stays below
  `Budget + Cost * Cardinality(Requests)`. A request is let in below the budget, when
  at most every slot is pending; every other step moves a charge from the pending
  side to the spend, or drops it. Cardinalities are reasoned about with the facts of
  `FiniteSetTheorems`.
* `CachesKeepApart` and `ValuesComeBack`, in the same module. `FaithInv` says of every
  request that its record is *faithful* (what it holds comes from its own input, or
  from an entry of its own org and alias, with the prompt of an exact hit), of the
  caches that every entry is where a lookup of its org and alias looks
  (`CachesHoused`), and of the vault that two requests which hold one trace id are both
  marked as clashed, while for any other the vault has its own mapping (`VaultInv`).
* `RequestsObey`, in the same module, about the gate. `GateInv` follows a request through its
  lookups:
  what it has read of a rule or a policy row is what the tables said at the time, and
  the tables have changed at most once between two of its queries, so a row that hid
  an "off" from one query was there for the other. The decisions rest on
  `MergedRules` and `MergedCap`: merged rules allow no more than each of them, and the
  merged cap is the least of theirs, for any number of rules. What a plugin has written no
  rule has seen (`PluginsAreSound`): such a request keeps its alias, and the facts about
  its text and its limit are of requests that no plugin replaced. `ShadowsBounded`: the
  counter is the number of handlers that shadow or were refused and have still to give
  back; one is let in only if the counter, itself included, is not above the limit.
  Every other step leaves both sets alone (`...Quietly`). `RulesObeyed` and `SlotsHold`
  say the same of the parts of the run.
* `TranscriptProofs`: `RequestsPaired` and `TextsArrive`, for conversations of any length,
  any instructions and any number of calls in a reply. Every conversion is a loop that
  makes a list of each block, message or turn and joins them (`Maps`); `MapsHasItsLaws`
  proves once, by induction over lists, what such loops do with the empty list, one more
  element and two lists, and every other lemma applies it. `TalkGood`, the invariant,
  says that turns are a client's own (`OwnTurns`: no output blocks, users call nothing,
  the ids of the calls of a turn are all different or all missing), that wires of one
  question hold one (`ShortOnes`), and the properties themselves. The argument goes the
  way of a request: the messages of each wire bear the client's instructions and texts
  (`MessagesBear`, `BridgeBears`, `PromptBears`); the repair, a recursive function, exists
  because every place is followed by a later one (`RecessionExists`, `RepairExists`), is made
  of pieces that are paired (`GroupIsPaired`: ids that are all different need as many
  answers as there are calls), and drops calls and answers only (`RepairLaws`); taking
  system messages out (`Dropping`) and merging neighbours (`MergeLaws`) move no answer
  away from its call; and each adapter's turns say, call and answer what the messages do,
  with or without ids (`Conveys`, `Delivered`). On the way back `StopsTell` goes through
  the reasons of every provider and wire. `ReplaysAgain` is the round trip of a recording.
* `RoutingProofs`: `RaceEndsClean`. `RaceInv` relates the channel, the results received
  and the branches (what was received has been sent, a branch that has sent has ended,
  a loser's body is closed when it is received), so that a race that is over has
  received two results or handed the second to a goroutine that closes it.
  `RequestsAreLimited`: `KeyInv` says that admissions on a counter are counted by it and
  that a local counter expires with its window. `LimitsHold` adds the registration
  limiter: `RegisterInv` says that the remembered hits are listed oldest first and are
  all the hits of the window, so the filter that drops old ones (`KeptIsRemembered`)
  keeps exactly those that count.
* `AnswersAreWhole`, in the same module. An event goes through five places: the scanner's
  outbox and channel, the bridge's, and what the handler wrote (`Queues`). `StreamInv`
  says that the text of all five, in order, begins what the model said and is all of it
  while the context lives (`Complete`), that nothing is behind a [DONE] (`DoneEnds`), so
  that a written end leaves nothing on its way, that an end or a finish anywhere is the
  upstream's (`Closing`), that the tokens of a finished answer are on their way or counted
  where the upstream tells them (`Told`), and that the translator has the text written (`TranslatesAll`). Each receive
  is an instance of one lemma, `GoesOn`: the first event of a place enters a later
  one past empty ones. Gemini's deltas are the letters unless the answer repeats
  (`LetterSaid`).
* `OrdersAreFair`, in the same module, for any number of deployments, scores and counter.
  What comes out of a sort is described by places: who comes before a deployment is
  counted (`PlacesLineUp`), equals are next to each other (`BlockPlaces`), and a group that
  is rotated by whatever the counter says stays within its places (`TurnedLineUp`, which
  rests on `ResiduesDiffer`), so that every deployment is tried once and ranks stay in
  order. `LatencySorts` follows the insertions of least latency: an insertion passes only
  slower ones, so neighbours differ by no more than the jitter makes up for
  (`InsertedSettles`, through the fold of all insertions, `LatencyOrdersAreSorted`).
* `RoutingIsTyped`, in the same module: the types of all six parts. For the fallback loop,
  which has two deployments here, they need what a request has at each stage
  (`LoneEquipped`), for the streams that no
  list is longer than it may be (`Shorter`).
* `RecordsProofs`: `SavingsChain` and `ReceiptChain`. `OneProcessNeverForks` needs
  that the lock is held by whoever is between `Lock` and `Answer` (`Mutex`), that ids
  name one row (`Distinct`), that links go to older rows of the org (`Linked`), and
  that what a writer is about to continue has no successor of its process but
  abandoned ones (`Fresh`). `NewestIsFree` is the heart: a reader of the newest row
  finds it unlinked. For receipts it is enough that nothing links to a tail yet.
* `ProcessEndsClean`, in the same module: a channel is closed only once nobody may send,
  unless the shutdown was forced (`ClosedLast`), and a recorder that has stopped has no
  worker and nothing queued (`GoneLast`).
* `RunsTellTheTruth`, in the same module, for any recordings, pages, scorers and number
  of goroutines. `RunInv`: no more goroutines than the semaphore admits (`Paced`), one holder
  of the mutex (`Locked`), a result for every recording that is done (`Settled`), what is
  about to be written is at least what the row says (`Drafted`), and the counts are
  the counts of the results (`Tallied`, `Shown`). That a mean score lies between the
  bounds needs that each score does; for the cosine this is `CauchySchwarz`.
  `RecordsAreTyped` are the types of all four parts.
* `AdministrationProofs`: `AdministrationIsTyped`. `LoneFollows`: between the statements
  of the one handler at work router and engine may lag behind the tables; `FollowInv`
  says that the router follows whenever nobody is between a write and its
  installation, and that what is about to be installed is what the table says, and
  the lemmas `Lone...` say the same of the maps of the cost engine, step by step.
* `BilledIsAttested`, in the same module. `DiscountInv`: what the table says is attested
  was countersigned, and so was every discount of a map that a handler has loaded and
  not swapped in yet, and of the engine's; `attested` only grows, so a map that is
  swapped in late can be old and never forged.
* `NoSpendIsLost`, in the same module. `SpendInv`: spends are numbers, rows and the
  statements that write them have one, and the inserts still to be issued name ids
  that are new and apart from each other, so that no insert meets a row that was
  charged; an update of a whole row leaves the spend out. `DeletionsLast` (in every
  interleaving) and `DeletionRevokes` (of a lone administrator) are about what was
  deleted, `ListingsAddUp` about what the listing of keys returns for any table.
* `InductionLemmas` does without induction over operators: a set of natural numbers
  that is not empty has a least element (`LeastElement`), a set that holds the empty set
  and grows with each element holds every finite set (`SubsetInduction`), and a
  recursive function over an interval exists because its least counterexample would
  not be one (`RecursiveFunctionExists`). From these follow what a filter of a list
  returns (`FilterResult`, `FilterTraces`, `FilterCounts`), what the fold of a list
  computes (`FoldIsLoop`, `FoldedLaws`), the laws of sums over finite
  sets (`TotalLaws`, `TotalChanges`, `TotalIsBounded`), `CauchySchwarz`, and
  `CountedByValue`.

They rest on the assumptions named in the modules: threshold and cooldown are
positive (`NewCircuitBreaker` replaces others), catalogs are sequences of
deployments that name each once (`DistinctAssumption`: they come from a table with a key)
and the round-robin counter wraps at a multiple of their lengths
(`CounterPeriodAssumption`; `CounterModAssumption` of `RouterOrder`, where the number it
wraps at is positive, as that of the code's 64 bits is), the jitter is a natural number
(`JitterAssumption`), budget and cost are natural numbers, requests are finitely many, a
supplied trace id is none of the generated ones (`SuppliedAssumption`), `None` is no
mapping, no number and no writer, absent rows are no rows (`AbsentAssumption`; in `Spending`
`None` and `Removed` are none), and
every writer belongs to a process. A module that is only instantiated by a run names
its assumptions `ConstantsOK`, which the `MC...` module assumes and TLC evaluates
(`BooksAssumption`, `KeyAssumption`, `RegisterAssumption`, `SinkAssumption`, `RunAssumption`,
`AccountsAssumption`, `PricesAssumption`, `FurnishedAssumption`, `GateAssumption`,
`StreamAssumption`, `TalkAssumption`): sizes, limits and bounds are natural numbers,
wires and providers are among those the code has, instructions are sequences of texts.

## What is only model-checked, and what is not modelled

Liveness (`HalfOpenResolves`, `OpenGetsAnotherChance`, `EveryCallEnds`,
`GoroutinesEnd`, `RetryIsAdmitted`, `EverythingEnds`) needs fairness and ENABLED,
which are beyond the prover. Every other property that a passing run checks has a
theorem. No module uses a RECURSIVE operator.

Not modelled at all, with the reasons in `PROJECT.json`: callbacks, whose outcome
nothing reads; the quality evaluator, a periodic worker of single statements;
credentials, rows around a standard cipher; observability; configuration, editions
and types; tools, SDKs, benchmarks and the UI.

Not modelled inside the modelled parts:

* Routing and deployments: the lookup of an alias by `provider/model`, canonical
  names, the average behind least-latency (`router.go:525` loads and stores it in two
  steps, so samples can be lost), credentials of deployments, several aliases in one
  table, panics inside an adapter (`fallback.go:30` makes no report then), and what
  two creations at once do to the strategies of an alias (`deployments.go:104`), of
  which nothing is promised.
* Pipeline: the patterns that find values, the stream writer of the rehydrator, which
  no handler calls, plugins that rewrite a request in the part `calls` (there they refuse
  or answer; the part `gate` has them rewrite), feature rows, parameters of a request other than
  `max_completion_tokens`, the learned model of the smart router. `Lookup` of the
  semantic cache reads its ring without the lock (`semcache.go:109`); the model
  reads it in one step.
* Conversations: images, sampling parameters, the contents of calls and results, and
  the providers that reuse OpenAI's conversions. Streams: tool calls, the Gemini
  ingress, which keeps the last chunk only.
* Accounts: passwords, the budgets of teams and organizations, handlers that only
  read. Books: feedback, and the reads of stored responses. Ledger: canonical bytes
  and signatures, the arithmetic of the savings, and the daily roll-up.
* The database: the pool, the migration runner, reports.
* The map of bridged providers, which handlers write without a lock: what the runtime
  makes of a data race on a map (a fatal error at the latest) has no state here.

## Plan

What is left, in the order of what it would add:

1. `StreamRewriter`: the stream writer of `privacy/rehydrator.go` against a reference
   over bounded chunkings, when a handler calls it.
2. Tool calls in `ChatStream`, and the Gemini ingress.
3. Budgets of teams and organizations and the quality evaluator, when something adds
   their spend up and reads its scores back.
