----------------------------- MODULE Transcript -----------------------------
(***************************************************************************)
(* A conversation with tools, carried turn by turn from a client through    *)
(* the gateway to a model and back.  Clients speak the wire format of       *)
(* OpenAI, Anthropic or Gemini, the Responses API or legacy completions;    *)
(* the ingress adapters (ingress/, handlers/ingress.go), the normalisation  *)
(* of ChatCompletions (handlers/helpers.go) and the bridge of the Responses *)
(* API (providers/bridge) bring the history into messages of the Chat       *)
(* Completions API, and the provider adapters (providers/) those into the   *)
(* provider's own.  Replies go the same way back.                           *)
(*                                                                          *)
(* A turn is a role and a sequence of blocks: a text, a tool call or the    *)
(* result of one.  What a call asks and a result says is left out: a call   *)
(* is its id, NoId where the format has none.  Texts are numbered in the    *)
(* order they are said; blank ones and images are left out.                 *)
(***************************************************************************)
EXTENDS Integers, Sequences, SequencesExt

CONSTANTS
  Wires,        \* "openai", "items", "prompt", "anthropic", "gemini", "responses", "completions"
  Providers,    \* "openai", "anthropic", "gemini", "bedrock", "vertexai"
  Instructions, \* system texts a client may send, a set of sequences
  MaxTurns,     \* bound on the turns of a conversation
  MaxCalls      \* bound on the calls of a reply

ConstantsOK ==
  /\ Wires \subseteq {"openai", "items", "prompt", "anthropic", "gemini", "responses", "completions"}
  /\ Providers \subseteq {"openai", "anthropic", "gemini", "bedrock", "vertexai"}
  /\ Instructions \subseteq Seq(Nat)
  /\ MaxTurns \in Nat /\ MaxCalls \in Nat

NoId == -1

VARIABLES
  wire, provider,
  instructions, \* the client's system texts
  history,      \* the client's turns
  sent,         \* the last request as the provider got it, a sequence of turns
  guidance,     \* the system texts it got with it
  reply,        \* what the model answered, texts and calls counted, and why it stopped
  finish,       \* why it stopped, as the client is told
  said,         \* texts said so far
  issued        \* ids given to calls so far

vars == <<wire, provider, instructions, history, sent, guidance, reply, finish, said, issued>>

Block(kind, of) == [kind |-> kind, of |-> of]
Turn(role, blocks) == [role |-> role, blocks |-> blocks]

(* What is made of each, one after another.                                *)
FlatMap(MadeOf(_), s) == FlattenSeq([i \in DOMAIN s |-> MadeOf(s[i])])

Of(kind, blocks) == FlatMap(LAMBDA b : IF b.kind = kind THEN <<b.of>> ELSE <<>>, blocks)

Blocks(kind, ofs) == [i \in DOMAIN ofs |-> Block(kind, ofs[i])]

(* A message of the Chat Completions API.                                  *)
Message(role, text, calls, answers) ==
  [role |-> role, text |-> text, calls |-> calls, answers |-> answers]

Text(role, text) == Message(role, text, <<>>, NoId)
Answer(id) == Message("tool", <<>>, <<>>, id)
Answers(ids) == [i \in DOMAIN ids |-> Answer(ids[i])]

IfAny(text, messages) == IF text = <<>> THEN <<>> ELSE messages

----------------------------------------------------------------------------
(* From the client's turns to messages.                                    *)

(* What a client of OpenAI's API sends itself, results before text.        *)
OpenAIMessages(turn) ==
  LET text  == Of("text", turn.blocks)
      calls == Of("call", turn.blocks)
  IN  Answers(Of("result", turn.blocks))
        \o IfAny(text \o calls, <<Message(turn.role, text, calls, NoId)>>)

(* Items of the Responses API in a chat request; normalizeChatMessages     *)
(* makes a message of each.                                                *)
NormalizedItem(role, block) ==
  CASE block.kind = "text"   -> Text(role, <<block.of>>)
    [] block.kind = "call"   -> Message("assistant", <<>>, <<block.of>>, NoId)
    [] block.kind = "result" -> Answer(block.of)

NormalizedItems(turn) ==
  [i \in DOMAIN turn.blocks |-> NormalizedItem(turn.role, turn.blocks[i])]

(* decodeMessage of the Anthropic ingress: the message of texts and calls  *)
(* goes before the results of the same turn.                               *)
AnthropicMessages(turn) ==
  LET text    == Of("text", turn.blocks)
      calls   == Of("call", turn.blocks)
      results == Answers(Of("result", turn.blocks))
  IN  IF text \o calls # <<>> THEN <<Message(turn.role, text, calls, NoId)>> \o results
      ELSE IF results # <<>> THEN results
      ELSE <<Text(turn.role, <<>>)>>

(* contentToMessages of the Gemini ingress; Gemini's calls have no ids.    *)
GeminiMessages(turn) ==
  LET blocks == [i \in DOMAIN turn.blocks |->
                   IF turn.blocks[i].kind = "text" THEN turn.blocks[i]
                   ELSE Block(turn.blocks[i].kind, NoId)]
  IN  AnthropicMessages(Turn(turn.role, blocks))

(* decodeSystem and joinParts make one text of the system's blocks, and    *)
(* Parse a message of it, unless it is blank.                              *)
decodeSystem == IfAny(instructions, <<Text("system", instructions)>>)

joinParts == IfAny(instructions, <<Text("system", instructions)>>)

OwnSystem == [i \in DOMAIN instructions |-> Text("system", <<instructions[i]>>)]

AllOf(MessagesOf(_)) == FlatMap(MessagesOf, history)

AnthropicParse == decodeSystem \o AllOf(AnthropicMessages)

GeminiParse == joinParts \o AllOf(GeminiMessages)

(* A body with a text under "input" or "prompt" and no messages.           *)
extractMessagesFromAlternateFormats == <<Text("user", Of("text", Last(history).blocks))>>

Messages ==
  CASE wire = "openai"    -> OwnSystem \o AllOf(OpenAIMessages)
    [] wire = "items"     -> OwnSystem \o AllOf(NormalizedItems)
    [] wire = "prompt"    -> extractMessagesFromAlternateFormats
    [] wire = "anthropic" -> AnthropicParse
    [] wire = "gemini"    -> GeminiParse

(* convertToChatRequest of the bridge: a message for every item, of which  *)
(* it keeps the role and the text.                                         *)
convertToChatRequest ==
  IfAny(instructions, <<Text("system", instructions)>>)
    \o AllOf(LAMBDA turn : [i \in DOMAIN Of("text", turn.blocks) |->
                              Text(turn.role, <<Of("text", turn.blocks)[i]>>)])

(* promptToChatMessages, parseCompletionPrompt: the prompt is one text.    *)
promptToChatMessages == <<Text("user", Of("text", Last(history).blocks))>>

(* Fault: one answered call is enough. *)
AnySatisfied(required, tools) == \E i \in DOMAIN tools : tools[i].answers \in required

AllSatisfied(required, tools) == \A id \in required : \E i \in DOMAIN tools : tools[i].answers = id

(* repairChatToolTranscript: a message with calls stays if the tool        *)
(* messages right after it answer them all; every other call and answer    *)
(* goes, with the text of its message.                                     *)
Repaired(messages) ==
  LET n == Len(messages)
      End(i) == CHOOSE j \in (i+1)..(n+1) :
                  /\ \A k \in (i+1)..(j-1) : messages[k].role = "tool"
                  /\ j <= n => messages[j].role # "tool"
      From[i \in 1..(n+1)] ==
        IF i > n THEN <<>>
        ELSE IF messages[i].role = "tool" THEN From[i + 1]
        ELSE IF messages[i].calls = <<>> THEN <<messages[i]>> \o From[i + 1]
        ELSE LET required == ToSet(messages[i].calls) \ {NoId}
                 tools    == FlatMap(LAMBDA m : IF m.answers \in required THEN <<m>> ELSE <<>>,
                                     SubSeq(messages, i + 1, End(i) - 1))
             IN  (IF required # {} /\ AllSatisfied(required, tools)
                    THEN <<messages[i]>> \o tools ELSE <<>>) \o From[End(i)]
  IN  From[1]

----------------------------------------------------------------------------
(* From messages to the provider's turns.                                  *)

Systems(messages) == FlatMap(LAMBDA m : IF m.role = "system" THEN <<m>> ELSE <<>>, messages)

Spoken(messages) == FlatMap(LAMBDA m : IF m.role # "system" THEN <<m>> ELSE <<>>, messages)

(* openAIUserContent, openAIAssistantBlocks.                               *)
openAIUserContent(m) == Blocks("text", m.text)

openAIAssistantBlocks(m) == Blocks("text", m.text) \o Blocks("call", m.calls)

convertOpenAIMessage(m) ==
  CASE m.role = "user"      -> Turn("user", openAIUserContent(m))
    [] m.role = "assistant" -> Turn("assistant", openAIAssistantBlocks(m))
    [] m.role = "tool"      -> Turn("user", <<Block("result", m.answers)>>)

(* mergeSameRoleMessages *)
Joined(a, b) == Text(a.role, a.text \o b.text)

(* mergeConversationTurns: adjacent messages of one role become one, but   *)
(* not those with calls, nor tool messages.                                *)
canMergeAdjacentMessages(a, b) ==
  a.role = b.role /\ a.role \in {"user", "assistant"} /\ a.calls = <<>> /\ b.calls = <<>>

mergeConversationTurns(messages) ==
  FoldLeft(LAMBDA done, m :
             IF done # <<>> /\ canMergeAdjacentMessages(Last(done), m)
               THEN Front(done) \o <<Joined(Last(done), m)>>
               ELSE Append(done, m),
           <<>>, messages)

openAIToAnthropicMessages(messages) ==
  LET merged == mergeConversationTurns(Spoken(messages))
  IN  [i \in DOMAIN merged |-> convertOpenAIMessage(merged[i])]

(* Every message is a content of its own; calls and responses have no ids. *)
openAIMessageToGeminiUser(m) == Turn("user", Blocks("text", m.text))

openAIAssistantToGemini(m) ==
  Turn("assistant", Blocks("text", m.text) \o [i \in DOMAIN m.calls |-> Block("call", NoId)])

openAIToolToGemini(m) == Turn("user", <<Block("result", NoId)>>)

buildGeminiRequest(messages) ==
  LET spoken == Spoken(messages)
      Content(m) == CASE m.role = "assistant" -> openAIAssistantToGemini(m)
                      [] m.role = "tool"      -> openAIToolToGemini(m)
                      [] OTHER                -> openAIMessageToGeminiUser(m)
  IN  [i \in DOMAIN spoken |-> Content(spoken[i])]

(* Bedrock and Vertex AI get texts only: calls go, and a result goes as    *)
(* what the user says.                                                     *)
TextOnly(m) ==
  IF m.role = "tool" THEN Turn("user", <<Block("output", m.answers)>>)
  ELSE Turn(m.role, Blocks("text", m.text))

BedrockRequest(messages) ==
  LET spoken == Spoken(messages) IN [i \in DOMAIN spoken |-> TextOnly(spoken[i])]

VertexRequest(messages) ==
  LET spoken == Spoken(messages) IN [i \in DOMAIN spoken |-> TextOnly(spoken[i])]

OpenAIRequest(messages) ==
  LET spoken == Spoken(messages)
      Own(m) == IF m.role = "tool" THEN Turn("user", <<Block("result", m.answers)>>)
                ELSE Turn(m.role, Blocks("text", m.text) \o Blocks("call", m.calls))
  IN  [i \in DOMAIN spoken |-> Own(spoken[i])]

TransformChatRequest(messages) ==
  CASE provider = "openai"    -> OpenAIRequest(messages)
    [] provider = "anthropic" -> openAIToAnthropicMessages(messages)
    [] provider = "gemini"    -> buildGeminiRequest(messages)
    [] provider = "bedrock"   -> BedrockRequest(messages)
    [] provider = "vertexai"  -> VertexRequest(messages)

(* Vertex AI is sent the last system message only.                         *)
SystemOf(messages) ==
  LET systems == Systems(messages)
  IN  IF provider = "vertexai" /\ systems # <<>> THEN Last(systems).text
      ELSE FlatMap(LAMBDA m : m.text, systems)

----------------------------------------------------------------------------
(* From the model's reply to the client's next turn.                       *)

(* partsToAssistantMessage numbers Gemini's calls by their place; the ids  *)
(* of the others are the provider's, never used before.                    *)
CallId(i, texts) == IF provider = "gemini" THEN texts + i - 1 ELSE issued + i

ReplyMessage(texts, calls) ==
  Message("assistant", [i \in 1..texts |-> said + i], [i \in 1..calls |-> CallId(i, texts)], NoId)

(* Why the model stopped, in the provider's terms and in OpenAI's.  Gemini *)
(* says STOP of a reply with calls, too.                                   *)
mapStopReason(why, calls) ==
  IF why = "cut" THEN "length" ELSE IF calls > 0 THEN "tool_calls" ELSE "stop"

mapFinishReason(why) ==
  CASE why = "cut" -> "length" [] why = "filter" -> "content_filter" [] OTHER -> "stop"

BedrockFinish(why) == IF why = "cut" THEN "length" ELSE "stop"

VertexFinish(why) ==
  CASE why = "cut" -> "length" [] why = "filter" -> "content_filter" [] OTHER -> "stop"

OpenAIFinish(why, calls) ==
  CASE why = "cut" -> "length" [] why = "filter" -> "content_filter"
    [] why = "end" -> IF calls > 0 THEN "tool_calls" ELSE "stop"

FinishOf(why, calls) ==
  CASE provider = "openai"    -> OpenAIFinish(why, calls)
    [] provider = "anthropic" -> mapStopReason(why, calls)
    [] provider = "gemini"    -> mapFinishReason(why)
    [] provider = "bedrock"   -> BedrockFinish(why)
    [] provider = "vertexai"  -> VertexFinish(why)

(* ... and in those of the Anthropic and the Gemini ingress.               *)
AnthropicStop(reason) ==
  CASE reason = "length"         -> "max_tokens"
    [] reason = "tool_calls"     -> "tool_use"
    [] reason = "content_filter" -> "stop_sequence"
    [] OTHER                     -> "end_turn"

GeminiStop(reason) ==
  CASE reason = "length"         -> "MAX_TOKENS"
    [] reason = "content_filter" -> "SAFETY"
    [] OTHER                     -> "STOP"

(* Fault: a reply with text is taken to have no calls. *)
FormattedTextOrCalls(m) ==
  IF m.text # <<>> THEN Blocks("text", m.text) ELSE Blocks("call", m.calls)

(* Format of the Anthropic ingress: the text, then the calls; Gemini's     *)
(* have no ids; the bridge gives the text only.                            *)
Formatted(m) == Blocks("text", m.text) \o Blocks("call", m.calls)

messageToParts(m) == Blocks("text", m.text) \o [i \in DOMAIN m.calls |-> Block("call", NoId)]

convertFromChatResponse(m) == Blocks("text", m.text)

TransformCompletionsResponse(m) == Blocks("text", m.text)

(* Only the model of a provider that is told of tools calls them.          *)
Replies ==
  {r \in [texts : 0..1, calls : 0..MaxCalls, why : {"end", "cut", "filter"}] :
     /\ r.texts > 0 \/ r.calls > 0
     /\ r.calls > 0 => provider \notin {"bedrock", "vertexai"} /\ wire # "completions"}

Replied(r, blocks, reason) ==
  /\ reply' = r
  /\ history' = Append(history, Turn("assistant", blocks))
  /\ finish' = reason
  /\ said' = said + r.texts
  /\ issued' = issued + r.calls
  /\ UNCHANGED <<wire, provider, instructions>>

Asked(messages) ==
  /\ sent' = TransformChatRequest(messages)
  /\ guidance' = SystemOf(messages)

----------------------------------------------------------------------------
OneShot == wire \in {"prompt", "completions"}

Init ==
  /\ wire \in Wires /\ provider \in Providers
  /\ wire = "completions" => provider \notin {"bedrock", "vertexai"}
  /\ instructions \in (IF OneShot THEN {<<>>} ELSE Instructions)
  /\ history = <<>> /\ sent = <<>> /\ guidance = <<>>
  /\ reply = [texts |-> 0, calls |-> 0, why |-> "end"]
  /\ finish = "none" /\ said = 0 /\ issued = 0

Speaker == IF history = <<>> THEN "nobody" ELSE Last(history).role

Pending == IF history = <<>> THEN <<>> ELSE Of("call", Last(history).blocks)

(* Clients answer the calls of the last reply, some or all, and may add a  *)
(* text, or they just say something.                                       *)
Ask ==
  /\ Len(history) < (IF OneShot THEN 1 ELSE MaxTurns)
  /\ Speaker # "user"
  /\ \E answered \in SUBSET DOMAIN Pending, texts \in 0..1 :
       LET results == FlatMap(LAMBDA i : IF i \in answered THEN <<Pending[i]>> ELSE <<>>,
                              [i \in DOMAIN Pending |-> i])
           blocks  == Blocks("result", results) \o Blocks("text", [i \in 1..texts |-> said + i])
       IN  /\ blocks # <<>>
           /\ history' = Append(history, Turn("user", blocks))
           /\ said' = said + texts
  /\ UNCHANGED <<wire, provider, instructions, sent, guidance, reply, finish, issued>>

(* ChatCompletions, and dispatchIngress around it; a request with no       *)
(* message left is refused.                                                *)
ChatCompletions ==
  /\ Speaker = "user" /\ wire \notin {"responses", "completions"}
  /\ Repaired(Messages) # <<>>
  /\ Asked(Repaired(Messages))
  /\ \E r \in Replies :
       LET m      == ReplyMessage(r.texts, r.calls)
           reason == FinishOf(r.why, r.calls)
       IN  CASE wire = "anthropic" -> Replied(r, Formatted(m), AnthropicStop(reason))
             [] wire = "gemini"    -> Replied(r, messageToParts(m), GeminiStop(reason))
             [] OTHER              -> Replied(r, Blocks("text", m.text) \o Blocks("call", m.calls), reason)

(* CreateResponse: OpenAI gets the request as it is, the others through    *)
(* the bridge, which calls every reply completed.                          *)
CreateResponse ==
  /\ Speaker = "user" /\ wire = "responses"
  /\ \E r \in Replies :
       LET m == ReplyMessage(r.texts, r.calls)
       IN  IF provider = "openai"
           THEN /\ sent' = history /\ guidance' = instructions
                /\ Replied(r, Blocks("text", m.text) \o Blocks("call", m.calls), FinishOf(r.why, r.calls))
           ELSE /\ Asked(convertToChatRequest)
                /\ Replied(r, convertFromChatResponse(m), "completed")

Completions ==
  /\ Speaker = "user" /\ wire = "completions"
  /\ Asked(promptToChatMessages)
  /\ \E r \in Replies :
       Replied(r, TransformCompletionsResponse(ReplyMessage(r.texts, r.calls)), FinishOf(r.why, r.calls))

Next == Ask \/ ChatCompletions \/ CreateResponse \/ Completions

Spec == Init /\ [][Next]_vars

----------------------------------------------------------------------------
(* A recording keeps the request as ChatCompletions has it, a text apart   *)
(* from a sequence of parts, and a replay asks the same of its target.     *)
messageFromOpenAI(m) ==
  [role |-> m.role, calls |-> m.calls, answers |-> m.answers,
   contentText  |-> IF Len(m.text) = 1 THEN m.text ELSE <<>>,
   contentParts |-> IF Len(m.text) = 1 THEN <<>> ELSE m.text]

FromOpenAI(messages) == [i \in DOMAIN messages |-> messageFromOpenAI(messages[i])]

messageToOpenAI(r) ==
  Message(r.role, IF r.contentText # <<>> THEN r.contentText ELSE r.contentParts, r.calls, r.answers)

ToOpenAI(records) == [i \in DOMAIN records |-> messageToOpenAI(records[i])]

----------------------------------------------------------------------------
Calls(turn)   == ToSet(Of("call", turn.blocks))
Results(turn) == ToSet(Of("result", turn.blocks))

Bridged == wire = "responses" /\ provider # "openai"

TextsBy(role, turns) ==
  FlatMap(LAMBDA t : IF t.role = role THEN Of("text", t.blocks) ELSE <<>>, turns)

(* A request the provider gets from ChatCompletions has every call         *)
(* answered before anybody says anything else, and no answer without its   *)
(* call; providers refuse the others (helpers.go:691-697).                 *)
RequestsArePaired ==
  wire # "responses" =>
    \A i \in DOMAIN sent :
      /\ Calls(sent[i]) # {} =>
           LET n == Len(Of("call", sent[i].blocks))
           IN  \A k \in 1..n : /\ i + k \in DOMAIN sent
                               /\ Results(sent[i + k]) # {}
                               /\ Results(sent[i + k]) \subseteq Calls(sent[i])
      /\ Results(sent[i]) # {} => \E j \in 1..(i-1) : Results(sent[i]) \subseteq Calls(sent[j])

(* Nothing the user wrote is lost or put in another order on the way       *)
(* through an ingress, the repair and a provider adapter, nor are the      *)
(* client's instructions, but that Vertex AI gets their last message only. *)
UserTextsReachTheModel ==
  sent # <<>> /\ Speaker = "assistant" =>
    /\ TextsBy("user", sent) = TextsBy("user", history)
    /\ \/ guidance = instructions
       \/ provider = "vertexai" /\ Len(instructions) > 1 /\ guidance = <<Last(instructions)>>

(* A reply reaches the client whole: its text, and, where the wire has     *)
(* tools, its calls, and that it was cut short or, where the provider      *)
(* tells, that it waits for the results of the calls.                      *)
RepliesReachTheClient ==
  sent # <<>> /\ Speaker = "assistant" =>
    /\ Len(Of("text", Last(history).blocks)) = reply.texts
    /\ ~Bridged =>
         /\ Len(Of("call", Last(history).blocks)) = reply.calls
         /\ reply.why = "cut" <=> finish \in {"length", "max_tokens", "MAX_TOKENS"}
         /\ reply.calls > 0 /\ reply.why = "end" /\ provider # "gemini" /\ wire # "gemini" =>
              finish \in {"tool_calls", "tool_use"}

(* A replay asks its target what the client asked, message by message.     *)
ReplaysAskTheSame ==
  Speaker = "user" /\ wire \notin {"responses", "completions"} =>
    ToOpenAI(FromOpenAI(Repaired(Messages))) = Repaired(Messages)
=============================================================================
