------------------------------- MODULE Spending -------------------------------
(***************************************************************************)
(* The endpoints other than chat, and the four books every endpoint keeps  *)
(* of what it served: the token counter of the key's rate limit, the spend *)
(* log, the spend of the key and the daily totals.                         *)
(*                                                                         *)
(* A handler answers its client and leaves the books to a goroutine that   *)
(* issues one statement for each of them, in this order, without a         *)
(* transaction.  Each may fail and is only warned of, nothing waits for    *)
(* the goroutine when the process ends, and the key may be deleted or      *)
(* moved to another team meanwhile.  The master key is no row of api_keys: *)
(* what is sent with it is in the spend log alone.  Costs are in           *)
(* millionths of a dollar.                                                 *)
(*                                                                         *)
(* A null api_key_id is None in a row of the master key and Removed in one *)
(* whose key was deleted; the tables cannot tell them apart.               *)
(***************************************************************************)
EXTENDS Integers, Sequences, FiniteSets, Functions

CONSTANTS
  Requests,     \* one handler each
  Keys, Teams,
  Amounts,      \* tokens, characters, seconds or images of a request
  Price,        \* of one of them
  Unit,         \* what a column with four decimals can tell apart
  None, Removed

(* What a request costs, and the rows of api_keys, spend_logs, daily_spend. *)
Entries    == [key : Keys \cup {None}, team : Teams \cup {None}, tokens : Nat, cost : Nat]
KeyRows    == [team : Teams \cup {None}, spend : Nat]
LogRows    == [key : Keys \cup {None, Removed}, team : Teams \cup {None}, tokens : Nat, cost : Nat]
DailyRows  == [key : Keys \cup {Removed}, team : Teams \cup {None}, tokens : Nat, cost : Nat, count : Nat]
ObjectRows == [key : Keys \cup {None, Removed}]

ConstantsOK ==
  /\ Amounts \subseteq Nat /\ Price \in Nat /\ Unit \in Nat \ {0}
  /\ None \notin Keys \cup Teams /\ Removed \notin Keys \cup {None}
  /\ \A mark \in {None, Removed} : mark \notin KeyRows \cup LogRows \cup DailyRows
  /\ IsFiniteSet(Requests)

VARIABLES
  req,       \* each request: its endpoint, its key as Auth read it, and how far it is
  duty,      \* the books its goroutine has still to write, with what
  apiKey,    \* api_keys: team and spend of a key, or Removed
  counter,   \* tokens counted for the rate limit of each key in this window
  expired,   \* history: those of the windows that have ended
  log,       \* spend_logs, by request
  daily,     \* daily_spend: the rows of one day, by the request that inserted them
  object,    \* response_objects, by the request that stored them
  lossless   \* history: no statement has failed and the process has not ended

books == <<counter, expired, log, daily>>
vars  == <<req, duty, apiKey, books, object, lossless>>

Idle == [at |-> "idle"]
Live == {k \in Keys : apiKey[k] # Removed}

Init ==
  /\ req = [r \in Requests |-> Idle] /\ duty = [r \in Requests |-> <<>>]
  /\ apiKey \in [Keys -> [team : Teams \cup {None}, spend : {0}]]
  /\ counter = [k \in Keys |-> 0] /\ expired = counter
  /\ log = [r \in Requests |-> None] /\ daily = [r \in Requests |-> None]
  /\ object = [r \in Requests |-> None]
  /\ lossless = TRUE

----------------------------------------------------------------------------
(* Usage and its price.                                                    *)

NoUsage == [prompt |-> 0, completion |-> 0, counted |-> 0]

(* Tokens as the provider tells them, or nothing when it tells none.       *)
usageFromChat      == {NoUsage} \cup [prompt : Amounts, completion : Amounts, counted : {0}]
usageFromEmbedding == {NoUsage} \cup [prompt : Amounts, completion : {0}, counted : {0}]
usageFromResponses == usageFromChat

Measured(n) == [NoUsage EXCEPT !.counted = n]

(* An endpoint the engine does not know costs nothing.                     *)
Calculate(endpoint, usage) ==
  CASE endpoint \in {"completions", "responses"} -> Price * (usage.prompt + usage.completion)
    [] endpoint \in {"embeddings", "moderations"} -> Price * usage.prompt
    [] endpoint \in {"images", "audio/speech", "audio/transcriptions"} -> Price * usage.counted
    [] endpoint = "passthrough" -> 0

----------------------------------------------------------------------------
(* A request goes out with the key as it was, or with the master key,      *)
(* which has no id and no team.                                            *)
Call(r, endpoint, stream) ==
  /\ req[r] = Idle
  /\ \E k \in Live \cup {None} :
       req' = [req EXCEPT ![r] = [at |-> "called", endpoint |-> endpoint, stream |-> stream, key |-> k,
                                  team |-> IF k = None THEN None ELSE apiKey[k].team]]
  /\ UNCHANGED <<duty, apiKey, books, object, lossless>>

(* No deployment answered, the answer was an error, or the adapter could   *)
(* not read it: the client is told, and no book.                           *)
Refuse(r) ==
  /\ req[r].at = "called"
  /\ req' = [req EXCEPT ![r] = [at |-> "refused"]]
  /\ UNCHANGED <<duty, apiKey, books, object, lossless>>

Entry(r, tokens, cost) == [key |-> req[r].key, team |-> req[r].team, tokens |-> tokens, cost |-> cost]

(* Nothing is counted without tokens, or charged without a cost; and what  *)
(* the master key has sent is logged only.                                 *)
logSpendAsync(entry) ==
  LET Write(book, due) == IF due THEN <<[book |-> book, of |-> entry]>> ELSE <<>>
      keyed == entry.key # None
  IN  Write("counter", keyed /\ entry.tokens > 0) \o Write("log", TRUE)
        \o Write("spend", keyed /\ entry.cost > 0) \o Write("daily", keyed)

Answer(r, usage) ==
  /\ req' = [req EXCEPT ![r] = [at |-> "answered"]]
  /\ duty' = [duty EXCEPT ![r] = logSpendAsync(Entry(r, usage.prompt + usage.completion,
                                                     Calculate(req[r].endpoint, usage)))]

Answering(r, endpoint) == req[r].at = "called" /\ req[r].endpoint = endpoint

Embeddings(r) ==
  /\ Answering(r, "embeddings")
  /\ \E usage \in usageFromEmbedding : Answer(r, usage)
  /\ UNCHANGED <<apiKey, books, object, lossless>>

(* As many images as were asked for, or as came, and one at the least.     *)
ImageGenerations(r) ==
  /\ Answering(r, "images")
  /\ \E came \in Amounts, asked \in Amounts :
       Answer(r, Measured(IF asked > 0 THEN asked ELSE IF came > 0 THEN came ELSE 1))
  /\ UNCHANGED <<apiKey, books, object, lossless>>

Moderations(r) ==
  /\ Answering(r, "moderations")
  /\ Answer(r, NoUsage)
  /\ UNCHANGED <<apiKey, books, object, lossless>>

AudioSpeech(r) ==
  /\ Answering(r, "audio/speech")
  /\ \E characters \in Amounts : Answer(r, Measured(characters))
  /\ UNCHANGED <<apiKey, books, object, lossless>>

AudioTranscriptions(r) ==
  /\ Answering(r, "audio/transcriptions")
  /\ \E seconds \in Amounts : Answer(r, Measured(seconds))
  /\ UNCHANGED <<apiKey, books, object, lossless>>

(* A stream is copied unread.                                              *)
Completions(r) ==
  /\ Answering(r, "completions")
  /\ IF req[r].stream THEN Answer(r, NoUsage) ELSE \E usage \in usageFromChat : Answer(r, usage)
  /\ UNCHANGED <<apiKey, books, object, lossless>>

(* A whole answer is kept for GetResponse; failing to is only warned of.   *)
CreateResponse(r) ==
  /\ Answering(r, "responses")
  /\ \E usage \in usageFromResponses : Answer(r, usage)
  /\ \/ /\ ~req[r].stream /\ req[r].key \in Live \cup {None}
        /\ object' = [object EXCEPT ![r] = [key |-> req[r].key]]
     \/ UNCHANGED object
  /\ UNCHANGED <<apiKey, books, lossless>>

DeleteResponse(r) ==
  /\ object[r] \notin {None, Removed}
  /\ object' = [object EXCEPT ![r] = Removed]
  /\ UNCHANGED <<req, duty, apiKey, books, lossless>>

(* The upstream's errors are passed on and logged like its answers.        *)
OpenAIPassthrough(r) ==
  /\ Answering(r, "passthrough")
  /\ Answer(r, NoUsage)
  /\ UNCHANGED <<apiKey, books, object, lossless>>

----------------------------------------------------------------------------
(* The goroutine's statements.                                             *)

Due(r, book) == duty[r] # <<>> /\ Head(duty[r]).book = book
Entered(r)   == Head(duty[r]).of
Onward(r)    == duty' = [duty EXCEPT ![r] = Tail(@)]

ConsumeTokens(r) ==
  /\ Due(r, "counter")
  /\ counter' = [counter EXCEPT ![Entered(r).key] = @ + Entered(r).tokens]
  /\ Onward(r)
  /\ UNCHANGED <<req, apiKey, expired, log, daily, object, lossless>>

(* The counter lapses at the end of its window; one that is local, with    *)
(* the process.                                                            *)
WindowEnds(k) ==
  /\ counter[k] > 0
  /\ counter' = [counter EXCEPT ![k] = 0]
  /\ expired' = [expired EXCEPT ![k] = @ + counter[k]]
  /\ UNCHANGED <<req, duty, apiKey, log, daily, object, lossless>>

InsertSpendLog(r) ==
  /\ Due(r, "log") /\ Entered(r).key \in Live \cup {None}
  /\ log' = [log EXCEPT ![r] = Entered(r)]
  /\ Onward(r)
  /\ UNCHANGED <<req, apiKey, counter, expired, daily, object, lossless>>

(* Fault: the fraction is cut off. *)
Truncated(cost) == (cost \div Unit) * Unit

(* The columns that add up costs have four decimals.                       *)
Rounded(cost) == ((2 * cost + Unit) \div (2 * Unit)) * Unit

(* Of a key that has gone, the statement changes no row and fails not.     *)
Charged(row, cost) ==
  IF row = Removed THEN Removed ELSE [row EXCEPT !.spend = Rounded(@ + cost)]

UpdateKeySpend(r) ==
  /\ Due(r, "spend")
  /\ apiKey' = [apiKey EXCEPT ![Entered(r).key] = Charged(@, Entered(r).cost)]
  /\ Onward(r)
  /\ UNCHANGED <<req, books, object, lossless>>

(* A row conflicts with one of the same key and team, if it has both:      *)
(* nulls are distinct.                                                     *)
Conflicting(entry) ==
  {q \in Requests : /\ daily[q] # None /\ entry.team # None
                    /\ daily[q].key = entry.key /\ daily[q].team = entry.team}

Increased(row, e) ==
  [row EXCEPT !.tokens = @ + e.tokens, !.cost = Rounded(@ + e.cost), !.count = @ + 1]

UpsertDailySpend(r) ==
  /\ Due(r, "daily") /\ Entered(r).key \in Live
  /\ LET e == Entered(r)
     IN  daily' = IF Conflicting(e) = {}
                  THEN [daily EXCEPT ![r] = [key |-> e.key, team |-> e.team, tokens |-> e.tokens,
                                             cost |-> Rounded(e.cost), count |-> 1]]
                  ELSE [q \in Requests |->
                          IF q \in Conflicting(e)
                          THEN Increased(daily[q], e) ELSE daily[q]]
  /\ Onward(r)
  /\ UNCHANGED <<req, apiKey, counter, expired, log, object, lossless>>

(* A statement fails; those that refer to a key that has gone always do.   *)
StatementFails(r) ==
  /\ duty[r] # <<>>
  /\ lossless' = FALSE
  /\ Onward(r)
  /\ UNCHANGED <<req, apiKey, books, object>>

----------------------------------------------------------------------------
(* Administrators meanwhile, and the end of the process.                   *)

(* ON DELETE SET NULL.                                                     *)
RowsKept(table, k) ==
  [r \in Requests |-> IF table[r] \notin {None, Removed} /\ table[r].key = k
                        THEN [table[r] EXCEPT !.key = Removed] ELSE table[r]]

DeleteAPIKey(k) ==
  /\ k \in Live
  /\ apiKey' = [apiKey EXCEPT ![k] = Removed]
  /\ log' = RowsKept(log, k) /\ daily' = RowsKept(daily, k) /\ object' = RowsKept(object, k)
  /\ UNCHANGED <<req, duty, counter, expired, lossless>>

UpdateAPIKey(k) ==
  /\ k \in Live
  /\ \E t \in Teams : apiKey' = [apiKey EXCEPT ![k].team = t]
  /\ UNCHANGED <<req, duty, books, object, lossless>>

Exit ==
  /\ req' = [r \in Requests |-> IF req[r].at = "called" THEN [at |-> "refused"] ELSE req[r]]
  /\ duty' = [r \in Requests |-> <<>>]
  /\ lossless' = (lossless /\ duty' = duty)
  /\ UNCHANGED <<apiKey, books, object>>

Handler(r) ==
  \/ \E e \in {"embeddings", "images", "moderations", "audio/speech", "audio/transcriptions", "passthrough"} :
       Call(r, e, FALSE)
  \/ \E e \in {"completions", "responses"}, stream \in BOOLEAN : Call(r, e, stream)
  \/ Embeddings(r) \/ ImageGenerations(r) \/ Moderations(r) \/ AudioSpeech(r) \/ AudioTranscriptions(r)
  \/ Completions(r) \/ CreateResponse(r) \/ OpenAIPassthrough(r) \/ Refuse(r)

Goroutine(r) ==
  ConsumeTokens(r) \/ InsertSpendLog(r) \/ UpdateKeySpend(r) \/ UpsertDailySpend(r) \/ StatementFails(r)

Next ==
  \/ \E r \in Requests : Handler(r) \/ Goroutine(r) \/ DeleteResponse(r)
  \/ \E k \in Keys : DeleteAPIKey(k) \/ UpdateAPIKey(k) \/ WindowEnds(k)
  \/ Exit

Spec == Init /\ [][Next]_vars

----------------------------------------------------------------------------
Endpoints == {"embeddings", "images", "moderations", "audio/speech", "audio/transcriptions",
              "passthrough", "completions", "responses"}
BookNames == {"counter", "log", "spend", "daily"}

Calls     == [at : {"called"}, endpoint : Endpoints, stream : BOOLEAN,
              key : Keys \cup {None}, team : Teams \cup {None}]

TypeOK ==
  /\ req \in [Requests -> [at : {"idle", "refused", "answered"}] \cup Calls]
  /\ duty \in [Requests -> Seq([book : BookNames, of : Entries])]
  /\ \A r \in Requests : Len(duty[r]) <= 4
  /\ apiKey \in [Keys -> KeyRows \cup {Removed}]
  /\ counter \in [Keys -> Nat] /\ expired \in [Keys -> Nat]
  /\ log \in [Requests -> LogRows \cup {None}]
  /\ daily \in [Requests -> DailyRows \cup {None}]
  /\ object \in [Requests -> ObjectRows \cup {None, Removed}]
  /\ lossless \in BOOLEAN

Paid(table, k) == {r \in Requests : table[r] # None /\ table[r].key = k}
Tokens(table, rs) == SumFunction([r \in rs |-> table[r].tokens])
Cost(table, rs)   == SumFunction([r \in rs |-> table[r].cost])
Counted(rs)       == SumFunction([r \in rs |-> daily[r].count])
Logged == {r \in Requests : log[r] # None}
Keyed  == {r \in Logged : log[r].key # None}

Settled == lossless /\ \A r \in Requests : duty[r] = <<>>

(* When no statement has failed and every goroutine is done, each answered *)
(* request is in the log and, unless it came with the master key, once in  *)
(* the daily totals and, by its tokens, in one window of its key's counter *)
(* - whatever was deleted or moved in between: what migration 010 keeps of *)
(* a deleted key included.                                                 *)
BooksAgree ==
  Settled =>
    /\ Logged = {r \in Requests : req[r].at = "answered"}
    /\ Counted({r \in Requests : daily[r] # None}) = Cardinality(Keyed)
    /\ \A k \in Live : /\ Counted(Paid(daily, k)) = Cardinality(Paid(log, k))
                       /\ Tokens(daily, Paid(daily, k)) = Tokens(log, Paid(log, k))
                       /\ counter[k] + expired[k] = Tokens(log, Paid(log, k))

(* The spend of a key, which its budget is held against, is that of its    *)
(* log but for half a unit of each request: columns of four decimals add   *)
(* up costs of six (001_initial.sql:35, 65, 112).                          *)
SpendIsWithinRounding ==
  Settled => \A k \in Live :
    LET off == 2 * (apiKey[k].spend - Cost(log, Paid(log, k)))
    IN  off <= Unit * Cardinality(Paid(log, k)) /\ -off <= Unit * Cardinality(Paid(log, k))
=============================================================================
