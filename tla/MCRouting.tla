------------------------------ MODULE MCRouting ------------------------------
(***************************************************************************)
(* Six parts between a client and a provider that share no state:          *)
(*   "order"     the order of an alias's deployments (RouterOrder),        *)
(*   "race"      one call of ExecuteSpeculative (Speculative),             *)
(*   "lone"      one request at a time through the fallback loop, while    *)
(*               the router is reloaded and providers are sick (Fallback), *)
(*   "stream"    one streamed answer (ChatStream),                         *)
(*   "key"       the limits of an API key (RateLimit),                     *)
(*   "register"  the limiter of the registration endpoint, with more       *)
(*               addresses than its map holds before it is pruned          *)
(*               (RegisterLimiter).                                        *)
(* A behaviour exercises one of them, chosen at the start; the variables   *)
(* of the others stay at Idle.                                             *)
(***************************************************************************)
EXTENDS RouterOrder, TLC

CONSTANTS d1, d2, r1, global, noOrg, c1, c2,
          Clients, RpmLimit, TpmLimit, KeyWindow, Tokens, MaxPending, MaxCount,  \* RateLimit
          Ips, RegisterLimit, RegisterWindow, MaxEntries,                        \* RegisterLimiter
          Letters, MaxLetters, Buffer                                            \* ChatStream

Both == {d1, d2}

VARIABLES part,
          clientGone, cancelled, branch, response, results, main, winner, losers,
          fallbackEnabled, catalog, gen, turn, writing, breaker, up, hungUp, pc, list,
          attempt, outcome, sent, absent, missed,
          provider, client, includeUsage, cumulative, said, upstream, scanner, spoiled, bridge, outbox,
          chan, prevText, handler, written, usage, ctx,
          available, counted, checking, pending, admitted, verdict,
          hits, registered

raceVars   == <<clientGone, cancelled, branch, response, results, main, winner, losers>>
loneVars   == <<fallbackEnabled, catalog, gen, turn, writing, breaker, up, hungUp, pc, list,
                attempt, outcome, sent, absent, missed>>
streamVars == <<provider, client, includeUsage, cumulative, said, upstream, scanner, spoiled, bridge, outbox,
                chan, prevText, handler, written, usage, ctx>>
keyVars    == <<available, counted, checking, pending, admitted, verdict>>
hitVars    == <<hits, registered>>
MCVars     == <<vars, part, raceVars, loneVars, streamVars, keyVars, hitVars>>

Race == INSTANCE Speculative

Lone == INSTANCE Fallback WITH
          counter <- turn, cancelled <- hungUp,
          Threshold <- 1, OpenDuration <- 1, Retries <- 0,
          Deployments <- Both, Owner <- [d \in Both |-> global], Orgs <- {},
          Requests <- {r1}, OrgOf <- (r1 :> noOrg), Global <- global, NoOrg <- noOrg,
          Catalogs <- {<<d1, d2>>, <<d2>>, <<>>},
          MaxReloads <- 1, CounterPeriod <- 2

Stream == INSTANCE ChatStream

Key == INSTANCE RateLimit WITH counter <- counted, pc <- checking, Window <- KeyWindow

Register == INSTANCE RegisterLimiter WITH
              admitted <- registered, Limit <- RegisterLimit, Window <- RegisterWindow

ASSUME KeyAssumption == Key!ConstantsOK
ASSUME RegisterAssumption == Register!ConstantsOK
ASSUME StreamAssumption == Stream!ConstantsOK

----------------------------------------------------------------------------
Idle == "idle"

OrderIdle ==
  /\ strategy = Idle /\ score = Idle /\ counter = Idle /\ ordered = Idle
RaceIdle ==
  /\ clientGone = Idle /\ cancelled = Idle /\ branch = Idle
  /\ response = Idle /\ results = Idle /\ main = Idle /\ winner = Idle
  /\ losers = Idle
LoneIdle ==
  /\ fallbackEnabled = Idle /\ catalog = Idle /\ gen = Idle /\ turn = Idle
  /\ breaker = Idle /\ up = Idle /\ hungUp = Idle /\ pc = Idle
  /\ list = Idle /\ attempt = Idle /\ outcome = Idle /\ sent = Idle
  /\ writing = Idle /\ absent = Idle /\ missed = Idle
StreamIdle ==
  /\ provider = Idle /\ client = Idle /\ includeUsage = Idle /\ cumulative = Idle
  /\ said = Idle /\ upstream = Idle
  /\ scanner = Idle /\ spoiled = Idle /\ bridge = Idle /\ outbox = Idle /\ chan = Idle
  /\ prevText = Idle /\ handler = Idle /\ written = Idle /\ usage = Idle /\ ctx = Idle
KeyIdle ==
  /\ available = Idle /\ counted = Idle /\ checking = Idle
  /\ pending = Idle /\ admitted = Idle /\ verdict = Idle
HitsIdle == hits = Idle /\ registered = Idle

MCInit ==
  /\ part \in {"order", "race", "lone", "stream", "key", "register"}
  /\ IF part = "order" THEN Init ELSE OrderIdle
  /\ IF part = "race" THEN Race!Init ELSE RaceIdle
  /\ IF part = "lone" THEN Lone!Init ELSE LoneIdle
  /\ IF part = "stream" THEN Stream!Init ELSE StreamIdle
  /\ IF part = "key" THEN Key!Init ELSE KeyIdle
  /\ IF part = "register" THEN Register!Init ELSE HitsIdle

OrderStep ==
  /\ part = "order" /\ Next
  /\ UNCHANGED <<part, raceVars, loneVars, streamVars, keyVars, hitVars>>
RaceStep(Step) ==
  /\ part = "race" /\ Step
  /\ UNCHANGED <<vars, part, loneVars, streamVars, keyVars, hitVars>>
LoneStep(Step) ==
  /\ part = "lone" /\ Step
  /\ UNCHANGED <<vars, part, raceVars, streamVars, keyVars, hitVars>>
StreamStep(Step) ==
  /\ part = "stream" /\ Step
  /\ UNCHANGED <<vars, part, raceVars, loneVars, keyVars, hitVars>>
KeyStep(Step) ==
  /\ part = "key" /\ Step
  /\ UNCHANGED <<vars, part, raceVars, loneVars, streamVars, hitVars>>
RegisterStep ==
  /\ part = "register" /\ Register!Next
  /\ UNCHANGED <<vars, part, raceVars, loneVars, streamVars, keyVars>>

(* A streamed answer comes to its end. *)
Rest == part = "stream" /\ UNCHANGED MCVars

MCNext ==
  \/ OrderStep \/ RaceStep(Race!Next) \/ LoneStep(Lone!Next) \/ StreamStep(Stream!Next)
  \/ KeyStep(Key!Next) \/ RegisterStep \/ Rest

(* Requests keep coming, and clients of a key keep asking; every goroutine *)
(* runs on, that of a reload until it releases its lock; every upstream    *)
(* call returns, every timer fires and time passes.  Nobody has to hang    *)
(* up.  Since a behaviour stays in its part, weak fairness of a disjunction *)
(* over parts is that of each disjunct: an actor of each part shares a     *)
(* condition with those of the others.                                     *)
MainActor ==
  \/ OrderStep
  \/ RaceStep(Race!Collect \/ Race!Return)
  \/ LoneStep(Lone!Step(r1))
  \/ StreamStep(Stream!Forward \/ Stream!Return)
  \/ KeyStep(Key!ConsumeTokens)
FirstActor ==
  \/ RaceStep(Race!Branch("cheap"))
  \/ LoneStep(Lone!Unlock)
  \/ StreamStep(Stream!Goroutine("scanner"))
  \/ KeyStep(Key!Request(c1))
SecondActor ==
  \/ RaceStep(Race!Branch("expensive"))
  \/ StreamStep(Stream!Goroutine("bridge"))
  \/ KeyStep(Key!Request(c2))

MCSpec ==
  /\ MCInit /\ [][MCNext]_MCVars
  /\ WF_MCVars(MainActor) /\ WF_MCVars(FirstActor) /\ WF_MCVars(SecondActor)
  /\ WF_MCVars(KeyStep(Key!Tick))

----------------------------------------------------------------------------
(* The types of the part that is exercised. *)
PartTypeOK ==
  /\ part = "order" => TypeOK
  /\ part = "race" => Race!TypeOK
  /\ part = "lone" => Lone!TypeOK
  /\ part = "stream" => Stream!TypeOK
  /\ part = "key" => Key!TypeOK
  /\ part = "register" => Register!TypeOK

(* Of RouterOrder: whatever rotates keeps its rank, and jitter moves no    *)
(* deployment further than it may (router.go).                             *)
OrderIsFair == RotationKeepsRank /\ JitterIsBounded

(* Of Speculative: no response is left open, and the first success is the  *)
(* one returned (speculative.go).                                          *)
RaceIsClean == Race!NothingLeaks /\ Race!FirstSuccessWins

(* Of Speculative: the caller can read what it was given (speculative.go). *)
WinnerIsReadable == Race!WinnerIsReadable

(* Neither branch of a race keeps the caller waiting once it has ended; a  *)
(* request comes to a verdict, and neither retries nor fallbacks nor       *)
(* breakers keep it going for ever, whatever is reloaded meanwhile; and    *)
(* every deployment whose turn it can be leads the order again and again   *)
(* (speculative.go, fallback.go, router.go).                               *)
InProgress ==
  \/ part = "race" /\ main # "returned"
  \/ part = "lone" /\ pc[r1] # "done"
Over ==
  \/ part = "race" /\ main = "returned"
  \/ part = "lone" /\ pc[r1] = "done"
EveryCallEnds == (InProgress ~> Over) /\ EveryLeaderReturns

(* Of ChatStream: an answer whose end the client sees is all the model     *)
(* said, is not one that was cut, and its tokens are counted if the stream *)
(* tells of them (chat.go, the adapters' stream.go).                       *)
EndedIsWhole ==
  part = "stream" => Stream!EndedIsWhole /\ Stream!EndedIsFinished /\ Stream!EndedIsCounted

(* Of ChatStream: no goroutine outlives a request that is over, unless     *)
(* Anthropic's adapter met an event it could not decode.                   *)
GoroutinesEnd == (part = "stream" /\ Stream!Left) ~> (part = "stream" /\ Stream!AllGone)

(* No more requests of a key or registrations of an address are admitted   *)
(* in a window than its limit says, whatever Redis does and whatever is    *)
(* pruned (ratelimit.go, redis.go, register_ratelimit.go).                 *)
NoLimitIsExceeded ==
  /\ part = "key" => Key!RpmIsBounded
  /\ part = "register" => Register!RemembersTheWindow /\ Register!AtMostLimitPerWindow

(* A key whose clients keep retrying is not locked out for ever, as long   *)
(* as the counters are local: again and again one of them is admitted.     *)
(* Redis renews the window with every retry, and the clients can lock      *)
(* themselves out by retrying.                                             *)
RetryIsAdmitted ==
  []<>(part = "key" /\ available = FALSE => \E c \in Clients : verdict[c] = "admitted")

(* What the comment at redis.go:68-69 says: the expiration is set on       *)
(* create, so counting never prolongs a window.                            *)
ExpirationSetOnCreate ==
  [][part = "key" =>
       \A k \in Key!Kinds : counted["redis"][k].left > 0 =>
         counted'["redis"][k].left <= counted["redis"][k].left]_MCVars
=============================================================================
