--------------------------- MODULE MCChatPipeline ---------------------------
(***************************************************************************)
(* The way of a chat request, in three parts that share no state:          *)
(*   "calls"  ChatPipeline with two slots, two values, and two aliases of  *)
(*            which the policy denies the org one.  A behaviour looks      *)
(*            either at the caches, and then nothing is streamed and trace *)
(*            ids are generated, or at the vault, and then the caches are  *)
(*            not configured and everybody uses the API key;               *)
(*   "talk"   Transcript, one conversation over every wire and provider;   *)
(*   "gate"   RequestGate with one request and two changes of the routing  *)
(*            policy, or                                                   *)
(*   "shadow" with three alike requests and no change.                     *)
(* A behaviour exercises one of them, chosen at the start; the variables   *)
(* of the others stay as they started.                                     *)
(***************************************************************************)
EXTENDS ChatPipeline, TLC

CONSTANTS r1, r2, v1, v2, plain, premium, g1, g2, g3

(* What the gate runs with, given values by the configurations.            *)
CONSTANTS
  Handlers,   \* of requests at the gate
  Served,  \* those that meet changes of the policy
  MaxChanges, \* of it
  Governed, Strategies, RuleLists, Contents, Signals, Limits, Tiers, Challenger, MaxConcurrent

(* And the conversation; five turns are long enough for an answered call   *)
(* to come after a dropped one.                                            *)
CONSTANTS Wires, Providers, Instructions, MaxTurns, MaxCalls

TwoSlots   == {r1, r2}
TwoValues  == {v1, v2}
TwoAliases == {plain, premium}
NoPremium  == {<<Org, premium>>}

ThreeHandlers == {g1, g2, g3}
FirstHandler  == {g1}
OnlyPlain     == {plain}
OffOrTracked  == {"off", "track_only"}
AnyRule == [needsUnknown |-> FALSE, aliases |-> TwoAliases, tagged |-> FALSE, org |-> None,
            deny |-> FALSE, providers |-> {}, cap |-> 0]
TwoFilesOrNone ==
  {<<[AnyRule EXCEPT !.deny = TRUE, !.tagged = TRUE], [AnyRule EXCEPT !.cap = 2, !.aliases = {premium}]>>,
   <<[AnyRule EXCEPT !.cap = 3], [AnyRule EXCEPT !.providers = {"p"}, !.aliases = {plain}, !.tagged = TRUE]>>,
   <<>>}
PersonalOrInjection == {{"personal"}, {"injection"}}
SimpleAndComplex ==
  {[length |-> 1, has |-> {}], [length |-> 5, has |-> {"math"}]}
NoneOrThree     == {None, 3}
PremiumAndPlain == [simple |-> premium, medium |-> None, complex |-> plain]

AllWires     == {"openai", "items", "prompt", "anthropic", "gemini", "responses", "completions"}
AllProviders == {"openai", "anthropic", "gemini", "bedrock", "vertexai"}
NoneOrTwo    == {<<>>, <<101, 102>>}

(* Slots and values are interchangeable; the handlers of the gate, which   *)
(* are not, are others.                                                    *)
Symmetric == Permutations(Values) \cup Permutations(Requests)

VARIABLES part, wire, provider, instructions, history, sent, guidance, reply, finish, said, issued,
          rules, policy, deleting, req, inflight, stats, changes

talkVars == <<wire, provider, instructions, history, sent, guidance, reply, finish, said, issued>>
gateVars == <<rules, policy, deleting, req, inflight, stats, changes>>
MCVars   == <<vars, part, talkVars, gateVars>>

Talk == INSTANCE Transcript

ASSUME TalkAssumption == Talk!ConstantsOK

Front == INSTANCE RequestGate WITH Requests <- Handlers, Global <- NoOrg

ASSUME GateAssumption == Front!ConstantsOK

Idle == "idle"

CallsIdle == Init /\ caching = TRUE
TalkIdle ==
  /\ wire = Idle /\ provider = Idle /\ instructions = Idle /\ history = Idle /\ sent = Idle
  /\ guidance = Idle /\ reply = Idle /\ finish = Idle /\ said = Idle /\ issued = Idle
GateIdle ==
  /\ rules = Idle /\ policy = Idle /\ deleting = Idle /\ req = Idle /\ inflight = Idle /\ stats = Idle

NoPolicy == [x \in Governed \X {Org, NoOrg} |-> None]

MCInit ==
  /\ changes = 0
  /\ \/ part = "calls" /\ Init /\ TalkIdle /\ GateIdle
     \/ part = "talk" /\ Talk!Init /\ CallsIdle /\ GateIdle
     \/ /\ part = "gate" /\ Front!Init /\ CallsIdle /\ TalkIdle
        /\ policy # NoPolicy /\ {rules[Org], rules[NoOrg]} = RuleLists \ {<<>>}
     \/ /\ part = "shadow" /\ Front!Init /\ CallsIdle /\ TalkIdle
        /\ policy = NoPolicy /\ rules = [o \in {Org, NoOrg} |-> <<>>]

MCInputs(r) ==
  {None} \cup
  IF caching
  THEN {i \in InputsOf(r) : ~i.stream /\ i.trace = r}
  ELSE {i \in InputsOf(r) : i.key = "limited"}

CallStep ==
  /\ part = "calls" /\ Next /\ \A r \in Requests : call'[r].input \in MCInputs(r)
  /\ UNCHANGED <<part, talkVars, gateVars>>

TalkStep == part = "talk" /\ Talk!Next /\ UNCHANGED <<part, vars, gateVars>>

GateStep ==
  /\ part = "gate" /\ Front!Next /\ \A r \in Handlers \ Served : req'[r] = req[r]
  /\ changes' = IF <<policy, deleting>>' # <<policy, deleting>> THEN changes + 1 ELSE changes
  /\ changes' <= MaxChanges
  /\ UNCHANGED <<part, vars, talkVars>>

Alike == [asked |-> plain, org |-> None, tagged |-> FALSE, content |-> {}, limit |-> None,
          signals |-> [length |-> 1, has |-> {}]]

ShadowStep ==
  /\ part = "shadow" /\ Front!Next
  /\ \A r \in Handlers :
       /\ req'[r].at = "global" => \A f \in DOMAIN Alike : req'[r][f] = Alike[f]
       /\ req'[r].at = "upstream" => ~req'[r].rewritten
  /\ policy' = policy
  /\ UNCHANGED <<part, vars, talkVars, changes>>

(* Conversations and the requests at the gate come to an end; slots do not. *)
Rest == part # "calls" /\ UNCHANGED MCVars

MCNext == CallStep \/ TalkStep \/ GateStep \/ ShadowStep \/ Rest

MCSpec == MCInit /\ [][MCNext]_MCVars

----------------------------------------------------------------------------
(* Transcript's: what the provider gets has every tool call answered, and  *)
(* every answer after its call (helpers.go:691-764).                       *)
RequestsArePaired == part = "talk" => Talk!RequestsArePaired

(* Transcript's: what the user said reaches the model, what the model said *)
(* the client, and what was asked can be asked again by a replay, over     *)
(* every wire and provider.                                                *)
TextsGetThrough ==
  part = "talk" => /\ Talk!UserTextsReachTheModel
                   /\ Talk!RepliesReachTheClient
                   /\ Talk!ReplaysAskTheSame

(* RequestGate's: no request gets past the rules, the guardrails and an    *)
(* alias that is not to be overridden, whatever administrators change      *)
(* while it is looked up; what a plugin writes afterwards is its own, but  *)
(* for the alias (chat.go:150-325).                                        *)
RulesAreObeyed == part = "gate" => Front!EgressIsAllowed /\ Front!OffIsRespected

(* RequestGate's: there are never too many challenger calls, and their     *)
(* count is exact (shadow.go:49-86).                                       *)
ShadowsAreBounded == part = "shadow" => Front!ShadowsAreBounded
=============================================================================
