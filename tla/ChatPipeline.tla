---------------------------- MODULE ChatPipeline ----------------------------
(***************************************************************************)
(* A chat completion from authentication to its charge: Auth in            *)
(* server/middleware/auth.go, ChatCompletions in server/handlers/chat.go   *)
(* and the goroutine it leaves behind in helpers.go.  What is shared by    *)
(* the requests is kept apart: the spend of an API key, the privacy vault, *)
(* the exact and the semantic cache.  Every step of a request touches one  *)
(* of them once; the stages in between are local to the request.           *)
(*                                                                         *)
(* A slot of Requests is a handler and its goroutine, so there are at most *)
(* so many of them at a time.  Every prompt holds one personal value, and  *)
(* an upstream model answers by repeating what it was sent.                *)
(***************************************************************************)
EXTENDS Integers, FiniteSets, Sequences

CONSTANTS Requests, Values, Aliases,
          Org, NoOrg,         \* the org of the API key; the master key has none
          Denied,             \* the org-alias pairs the policy denies
          Budget, Cost,       \* max_budget of the key, the dearest answer
          Supplied,           \* a trace id sent by callers
          MaxEntries,         \* entries of a bucket of the semantic cache
          None

ASSUME BudgetAssumption == Budget \in Nat /\ Cost \in Nat
ASSUME RequestsAssumption == IsFiniteSet(Requests)
ASSUME MaxEntriesAssumption == MaxEntries \in Nat \ {0}
ASSUME SuppliedAssumption == Supplied \notin Requests

VARIABLES
  caching,     \* the exact and the semantic cache are configured
  spend,       \* total_spend of the API key, in Postgres
  vault,       \* trace id -> the mapping kept for it
  exact,       \* entries of the exact cache, in Redis
  semantic,    \* bucket -> its ring, the oldest entry first
  call         \* the request in each slot, and how far it is

vars == <<caching, spend, vault, exact, semantic, call>>

PCs == {"idle", "auth", "admit", "redact", "gate", "exact", "semantic", "call",
        "stream", "read", "forget", "finish", "settle"}

Keys   == {"limited", "master"}
Traces == Requests \cup {Supplied}
Orgs   == {Org, NoOrg}
Pairs  == Orgs \X Aliases

(* Fault: placeholders are numbered within a request. *)
TokenByPosition(v) == <<"pii", 1>>

(* The placeholder of a value: a salted hash of its category and itself,   *)
(* the same for every request of the process.                              *)
TokenFor(v) == <<"pii", v>>
Tokens      == {TokenFor(v) : v \in Values}
Forms       == Values \cup Tokens
Mappings    == [token : Tokens, original : Values]

ASSUME NoneAssumption == None \notin Mappings

(* Who an answer was made for. *)
Owners  == [bucket : Pairs, value : Values]
Entries == [bucket : Pairs, prompt : Tokens, body : Forms, by : Owners]
Sources == [from : {"upstream", "exact", "semantic"}, by : Owners]

Inputs == [key : Keys, value : Values, stream : BOOLEAN, trace : Traces]

(* alias: the one that serves it; body: the answer as it stands; source:   *)
(* where that comes from; charge: what its goroutine has to charge;        *)
(* recording: what the recorder was handed; clashed: another request used  *)
(* its trace id meanwhile.                                                 *)
Calls ==
  [pc : PCs, input : Inputs \cup {None}, alias : Aliases \cup {None},
   body : Forms \cup {None}, source : Sources \cup {None}, charge : 0..Cost,
   recording : [request : Forms, response : Forms \cup {None}] \cup {None},
   clashed : BOOLEAN]

Free == [pc |-> "idle", input |-> None, alias |-> None, body |-> None, source |-> None,
         charge |-> 0, recording |-> None, clashed |-> FALSE]

TypeOK ==
  /\ caching \in BOOLEAN
  /\ spend \in Nat
  /\ vault \in [Traces -> Mappings \cup {None}]
  /\ exact \subseteq Entries
  /\ semantic \in [Pairs -> Seq(Entries)]
  /\ \A b \in Pairs : Len(semantic[b]) <= MaxEntries
  /\ call \in [Requests -> Calls]

Init ==
  /\ caching \in BOOLEAN
  /\ spend = 0
  /\ vault = [t \in Traces |-> None]
  /\ exact = {}
  /\ semantic = [b \in Pairs |-> <<>>]
  /\ call = [r \in Requests |-> Free]

----------------------------------------------------------------------------
Input(r)  == call[r].input
Bucket(r) == <<IF Input(r).key = "limited" THEN Org ELSE NoOrg, call[r].alias>>
Prompt(r) == TokenFor(Input(r).value)

At(r, label) == call[r].pc = label
Goto(r, label) == call' = [call EXCEPT ![r].pc = label]

shared == <<caching, spend, vault, exact, semantic>>

(* The handler writes an error, or a plugin's own answer, and returns. *)
Refuse(r) == call' = [call EXCEPT ![r] = Free]

(* A client sends a request, with a trace id of its own or without.  An id *)
(* is generated once: the slot stands for the id of its current request,   *)
(* and what an older one left in the vault nobody can find any more.       *)
InputsOf(r) == {i \in Inputs : i.trace \in {r, Supplied}}

Arrive(r) ==
  /\ At(r, "idle")
  /\ \E i \in InputsOf(r) : call' = [call EXCEPT ![r].pc = "auth", ![r].input = i]
  /\ vault' = [vault EXCEPT ![r] = None]
  /\ UNCHANGED <<caching, spend, exact, semantic>>

(* Fault: a key is refused only when it is past its budget. *)
WithinBudgetOrAt(r) == Input(r).key = "master" \/ spend <= Budget

(* Auth reads the key's row, and refuses a key that is unknown, inactive,  *)
(* expired or over its budget.  The master key has none.                   *)
WithinBudget(r) == Input(r).key = "master" \/ spend < Budget

Authenticate(r) ==
  /\ At(r, "auth")
  /\ \/ Refuse(r)
     \/ WithinBudget(r) /\ Goto(r, "admit")
  /\ UNCHANGED shared

(* The body is decoded and repaired, the alias checked against the key, a  *)
(* supplied trace id adopted, the guardrails asked; the routing policy and *)
(* the classifier may then pick another alias.                             *)
Admit(r) ==
  /\ At(r, "admit")
  /\ \/ Refuse(r)
     \/ \E a \in Aliases : call' = [call EXCEPT ![r].pc = "redact", ![r].alias = a]
  /\ UNCHANGED shared

(* The requests that may still read or delete what the vault holds. *)
UsesVault(q) == call[q].pc \in {"gate", "exact", "semantic", "call", "read", "forget"}
Rivals(r) == {q \in Requests \ {r} : UsesVault(q) /\ Input(q).trace = Input(r).trace}

(* Fault: the mapping is kept under a trace id generated anew. *)
RedactUnderOwnId(r) ==
  /\ At(r, "redact")
  /\ vault' = [vault EXCEPT ![r] = [token |-> Prompt(r), original |-> Input(r).value]]
  /\ call' = [q \in Requests |->
                [call[q] EXCEPT !.pc = IF q = r THEN "gate" ELSE @,
                                !.clashed = @ \/ q \in Rivals(r) \/ (q = r /\ Rivals(r) # {})]]
  /\ UNCHANGED <<caching, spend, exact, semantic>>

Redact(r) ==
  /\ At(r, "redact")
  /\ vault' = [vault EXCEPT ![Input(r).trace] =
                 [token |-> Prompt(r), original |-> Input(r).value]]
  /\ call' = [q \in Requests |->
                [call[q] EXCEPT !.pc = IF q = r THEN "gate" ELSE @,
                                !.clashed = @ \/ q \in Rivals(r) \/ (q = r /\ Rivals(r) # {})]]
  /\ UNCHANGED <<caching, spend, exact, semantic>>

(* The policy sees the alias that will serve; plugins may refuse, or       *)
(* answer themselves.  Caches are for requests that do not stream.         *)
PolicyAllows(r) == Bucket(r) \notin Denied

Gate(r) ==
  /\ At(r, "gate")
  /\ \/ Refuse(r)
     \/ /\ PolicyAllows(r)
        /\ Goto(r, IF caching /\ ~Input(r).stream THEN "exact" ELSE "call")
  /\ UNCHANGED shared

----------------------------------------------------------------------------
(* The exact key hashes org, alias and the messages, which are redacted by *)
(* then; a semantic bucket is an org and an alias.                         *)
ExactKey(e) == <<e.bucket, e.prompt>>
KeyOf(r)    == <<Bucket(r), Prompt(r)>>

Entry(r) == [bucket |-> Bucket(r), prompt |-> Prompt(r), body |-> call[r].body,
             by |-> call[r].source.by]

(* The stored body is written as it is, and nothing is charged. *)
Hit(r, e, cache) ==
  call' = [call EXCEPT ![r].pc = "settle", ![r].body = e.body,
                       ![r].source = [from |-> cache, by |-> e.by]]

(* Missing also stands for an entry that has expired, a cache that fails,  *)
(* and a prompt that cannot be embedded.                                   *)
LookupExact(r) ==
  /\ At(r, "exact")
  /\ \/ \E e \in exact : ExactKey(e) = KeyOf(r) /\ Hit(r, e, "exact")
     \/ Goto(r, "semantic")
  /\ UNCHANGED shared

(* Any prompt of the bucket may be close enough. *)
LookupSemantic(r) ==
  /\ At(r, "semantic")
  /\ \/ \E i \in DOMAIN semantic[Bucket(r)] : Hit(r, semantic[Bucket(r)][i], "semantic")
     \/ Goto(r, "call")
  /\ UNCHANGED shared

(* The router's fallback loop, of which only the outcome matters here. *)
Call(r) ==
  /\ At(r, "call")
  /\ \/ Refuse(r)
     \/ call' = [call EXCEPT
                   ![r].pc = IF Input(r).stream THEN "stream" ELSE "read",
                   ![r].body = Prompt(r),
                   ![r].source = [from |-> "upstream",
                                  by |-> [bucket |-> Bucket(r), value |-> Input(r).value]]]
  /\ UNCHANGED shared

(* What the recorder gets, unless the caller opts out: the request as it   *)
(* was before redaction, and the answer if there is one in one piece.      *)
Recordings(r, response) == {None, [request |-> Input(r).value, response |-> response]}

(* Chunks are passed on as they come.  The charge is read off the last     *)
(* usage seen, of which an interrupted stream has none.                    *)
Stream(r) ==
  /\ At(r, "stream")
  /\ \E c \in {0, Cost}, rec \in Recordings(r, None) :
       call' = [call EXCEPT ![r].pc = "settle", ![r].charge = c, ![r].recording = rec]
  /\ UNCHANGED shared

(* RehydrateResponse reads the vault, and deletes the entry when it is     *)
(* done with the answer.                                                   *)
Restored(text, mapping) == IF text = mapping.token THEN mapping.original ELSE text

RehydrateRead(r) ==
  LET mapping == vault[Input(r).trace] IN
  /\ At(r, "read")
  /\ IF mapping = None
     THEN Goto(r, "finish")
     ELSE call' = [call EXCEPT ![r].pc = "forget", ![r].body = Restored(@, mapping)]
  /\ UNCHANGED shared

RehydrateForget(r) ==
  /\ At(r, "forget")
  /\ vault' = [vault EXCEPT ![Input(r).trace] = None]
  /\ Goto(r, "finish")
  /\ UNCHANGED <<caching, spend, exact, semantic>>

(* Fault: the ring is never full. *)
StoredAlways(ring, e) == Append(ring, e)

(* A full ring overwrites its oldest entry. *)
Stored(ring, e) == Append(IF Len(ring) < MaxEntries THEN ring ELSE Tail(ring), e)

(* Recorder, receipt, caches, and the answer itself. *)
Finish(r) ==
  /\ At(r, "finish")
  /\ \E rec \in Recordings(r, call[r].body) :
       call' = [call EXCEPT ![r].pc = "settle", ![r].charge = Cost, ![r].recording = rec]
  /\ IF caching
     THEN /\ exact' = {e \in exact : ExactKey(e) # KeyOf(r)} \cup {Entry(r)}
          /\ semantic' = [semantic EXCEPT ![Bucket(r)] = Stored(@, Entry(r))]
     ELSE UNCHANGED <<exact, semantic>>
  /\ UNCHANGED <<caching, spend, vault>>

(* The goroutine behind the answer adds to the spend of a key that has an  *)
(* id; the statement may fail.                                             *)
Settle(r) ==
  /\ At(r, "settle")
  /\ \/ UNCHANGED spend
     \/ Input(r).key = "limited" /\ spend' = spend + call[r].charge
  /\ call' = [call EXCEPT ![r] = Free]
  /\ UNCHANGED <<caching, vault, exact, semantic>>

(* The process restarts: Postgres and Redis keep what they have. *)
Restart ==
  /\ vault' = [t \in Traces |-> None]
  /\ semantic' = [b \in Pairs |-> <<>>]
  /\ call' = [r \in Requests |-> Free]
  /\ UNCHANGED <<caching, spend, exact>>

Handle(r) ==
  \/ Authenticate(r)  \/ Admit(r)           \/ Redact(r)          \/ Gate(r)
  \/ LookupExact(r)   \/ LookupSemantic(r)  \/ Call(r)            \/ Stream(r)
  \/ RehydrateRead(r) \/ RehydrateForget(r) \/ Finish(r)          \/ Settle(r)

Next == Restart \/ \E r \in Requests : Arrive(r) \/ Handle(r)

Spec == Init /\ [][Next]_vars

----------------------------------------------------------------------------
(* The budget is compared before a call and charged after it, so calls in  *)
(* flight overspend it, but by less than one answer each: whatever takes   *)
(* the spend over the budget was let in below it (auth.go:99, helpers.go). *)
OverspendIsBounded == spend > 0 => spend < Budget + Cost * Cardinality(Requests)

(* A cached answer goes to the org and the alias it was made for, which    *)
(* the policy lets the caller use, and an exact hit to the very prompt:    *)
(* placeholders tell values apart (chat.go:337-405).                       *)
HitsStayHome ==
  \A r \in Requests :
    (At(r, "settle") /\ call[r].source.from # "upstream") =>
      /\ call[r].source.by.bucket = Bucket(r)
      /\ PolicyAllows(r)
      /\ call[r].source.from = "exact" => call[r].source.by.value = Input(r).value

(* Values are put back into every answer of a model that was not streamed, *)
(* unless another request used the same trace id at the same time          *)
(* (chat.go:518-520).                                                      *)
OwnValuesRestored ==
  \A r \in Requests :
    (At(r, "settle") /\ call[r].source.from = "upstream"
       /\ ~Input(r).stream /\ ~call[r].clashed) => call[r].body = Input(r).value

(* What redactor.go:6-8 says: values live outside the recording payload,   *)
(* so that recordings are safe to hand to other teams.                     *)
RecordingsHoldNoValues ==
  \A r \in Requests :
    call[r].recording # None => call[r].recording.request \in Tokens
=============================================================================
