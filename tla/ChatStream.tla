----------------------------- MODULE ChatStream -----------------------------
(***************************************************************************)
(* One streamed answer.  A goroutine of the provider adapter reads the      *)
(* upstream's server-sent events and hands chunks of the Chat Completions   *)
(* API over a channel to the handler, which writes them to the client; for  *)
(* a client of the Responses API whose provider has none, the goroutine of  *)
(* ResponsesBridge stands between the two, with a channel of its own.       *)
(* Anthropic's clients get what was written after the handler returned,     *)
(* translated by the ingress.  The request's context ends when the client   *)
(* leaves or the handler returns.                                           *)
(*                                                                          *)
(* The model's words are letters, said one in an event, or again with all   *)
(* before them (Gemini, where `cumulative`).                                *)
(***************************************************************************)
EXTENDS Integers, Sequences, SequencesExt

CONSTANTS
  Letters,
  MaxLetters,     \* bound on what the model says
  Buffer          \* capacity of the channels of goroutines that have one

ConstantsOK == MaxLetters \in Nat /\ Buffer \in Nat

VARIABLES
  provider,       \* "openai", "anthropic", "gemini"
  client,         \* "openai", "anthropic", "responses"
  includeUsage,   \* the client's stream_options.include_usage
  cumulative,
  said, upstream, \* what the model said; "speaking", "finished", "cut"
  scanner,        \* the adapter's goroutine: "scanning"; "ending" or "leaving", its
                  \* last event to be sent; "gone"
  spoiled,        \* it met an event it could not decode
  bridge,         \* the bridge's: "running", "leaving", "gone"
  outbox,         \* what each of the two goroutines still has to hand over
  chan,           \* and has handed over into its channel's buffer
  prevText,       \* of Gemini's adapter
  handler,        \* "running", "leaving", "gone"
  written,        \* what the handler wrote
  usage,          \* whether the handler met the usage
  ctx             \* the request's context: "live", or ended as the client "left"
                  \* or the handler "returned"

vars == <<provider, client, includeUsage, cumulative, said, upstream, scanner, spoiled, bridge,
          outbox, chan, prevText, handler, written, usage, ctx>>

Chunk(text, finish, counted) ==
  [kind |-> "data", text |-> text, finish |-> finish, usage |-> counted]
Event(kind) == [kind |-> kind, text |-> <<>>, finish |-> FALSE, usage |-> FALSE]

Goroutines == {"scanner", "bridge"}
Bridged    == client = "responses" /\ provider # "openai"
Capacity(g) == IF g = "scanner" /\ provider = "openai" THEN 0 ELSE Buffer

Init ==
  /\ provider \in {"openai", "anthropic", "gemini"}
  /\ client \in {"openai", "anthropic", "responses"}
  /\ includeUsage \in (IF client = "openai" THEN BOOLEAN ELSE {FALSE})
  /\ cumulative \in (IF provider = "gemini" THEN BOOLEAN ELSE {FALSE})
  /\ said = <<>> /\ upstream = "speaking"
  /\ scanner = "scanning" /\ spoiled = FALSE
  /\ bridge = IF Bridged THEN "running" ELSE "gone"
  /\ outbox = [scanner |-> <<>>, bridge |-> IF Bridged THEN <<Event("created")>> ELSE <<>>]
  /\ chan = [scanner |-> <<>>, bridge |-> <<>>]
  /\ prevText = <<>>
  /\ handler = "running" /\ written = <<>> /\ usage = FALSE
  /\ ctx = "live"

----------------------------------------------------------------------------
(* The adapters.                                                           *)

(* Fault: what follows is the delta, whatever it began with. *)
NoTextDelta(prev, full) == IF Len(full) > Len(prev) THEN SubSeq(full, Len(prev) + 1, Len(full)) ELSE <<>>

streamingTextDelta(prev, full) ==
  IF IsPrefix(prev, full) THEN SubSeq(full, Len(prev) + 1, Len(full)) ELSE full

streamingAdvancePrev(prev, full, delta) == IF IsPrefix(prev, full) THEN full ELSE prev \o delta

(* What the scanner makes of the model's next letter.                      *)
TextOf(letter) ==
  IF provider # "gemini" THEN <<letter>>
  ELSE streamingTextDelta(prevText, IF cumulative THEN Append(said, letter) ELSE <<letter>>)

(* The stream tells of its usage.  The gateway forwards the client's       *)
(* stream_options and adds none, and on its Chat Completions OpenAI tells  *)
(* only who asks; the ingress for Anthropic's clients never does.          *)
UsageTold == provider = "openai" /\ client # "responses" => includeUsage

(* The end of the model's message: OpenAI counts the tokens after the      *)
(* finish, Anthropic's adapter before it, Gemini in the same chunk.        *)
FinishChunks ==
  CASE provider = "openai" -> IF UsageTold THEN <<Chunk(<<>>, TRUE, FALSE), Chunk(<<>>, FALSE, TRUE)>>
                                           ELSE <<Chunk(<<>>, TRUE, FALSE)>>
    [] provider = "anthropic" -> <<Chunk(<<>>, FALSE, TRUE), Chunk(<<>>, TRUE, FALSE)>>
    [] provider = "gemini"    -> <<Chunk(<<>>, TRUE, TRUE)>>

HandOver(events, next) ==
  /\ outbox' = [outbox EXCEPT !["scanner"] = events]
  /\ scanner' = next

Scanning == scanner = "scanning" /\ outbox["scanner"] = <<>>
Idle == <<provider, client, includeUsage, cumulative, bridge, chan, handler, written, usage, ctx>>

ScanText ==
  /\ Scanning /\ ctx = "live" /\ upstream = "speaking" /\ Len(said) < MaxLetters
  /\ \E letter \in Letters :
       LET text == TextOf(letter)
           full == IF cumulative THEN Append(said, letter) ELSE <<letter>>
       IN  /\ said' = Append(said, letter)
           /\ prevText' = IF provider = "gemini" THEN streamingAdvancePrev(prevText, full, text) ELSE <<>>
           /\ HandOver(IF text = <<>> THEN <<>> ELSE <<Chunk(text, FALSE, FALSE)>>, scanner)
  /\ UNCHANGED <<upstream, spoiled, Idle>>

ScanFinish ==
  /\ Scanning /\ ctx = "live" /\ upstream = "speaking"
  /\ upstream' = "finished"
  /\ HandOver(FinishChunks, scanner)
  /\ UNCHANGED <<said, spoiled, prevText, Idle>>

(* Of what they cannot decode Anthropic's adapter tells and goes on,       *)
(* Gemini's ends; OpenAI's does not look.                                  *)
ScanGarbage ==
  /\ Scanning /\ ctx = "live" /\ upstream = "speaking" /\ provider # "openai" /\ ~spoiled
  /\ spoiled' = TRUE
  /\ HandOver(<<Event("error")>>, IF provider = "gemini" THEN "leaving" ELSE "scanning")
  /\ UNCHANGED <<said, upstream, prevText, Idle>>

(* The end of the body.  Only OpenAI's upstream says [DONE]; for the others *)
(* the body's end is the stream's.                                         *)
ScanEnd ==
  /\ Scanning /\ ctx = "live"
  /\ upstream' = IF upstream = "speaking" THEN "cut" ELSE upstream
  /\ \/ HandOver(<<Event("error")>>, "ending")
     \/ provider = "openai" /\ HandOver(<<>>, "ending")
     \/ /\ provider = "openai" => upstream = "finished"
        /\ HandOver(<<Event("done")>>, "ending")
  /\ UNCHANGED <<said, spoiled, prevText, Idle>>

(* After the context ended: the goroutine still finds lines it has already *)
(* read, and tells of the end in a plain send, or the read fails.          *)
ScanCancelled ==
  /\ Scanning /\ ctx # "live"
  /\ HandOver(<<Event("error")>>, "leaving")
  /\ UNCHANGED <<said, upstream, spoiled, prevText, Idle>>

(* Or the body it has already is at its end.                               *)
ScanRest ==
  /\ Scanning /\ ctx # "live"
  /\ \E kind \in {"error", "done"} :
       HandOver(IF provider = "openai" /\ kind = "done" THEN <<>> ELSE <<Event(kind)>>,
                IF provider = "anthropic" THEN "ending" ELSE "leaving")
  /\ UNCHANGED <<said, upstream, spoiled, prevText, Idle>>

(* The select of Anthropic's adapter: what it wanted to send goes nowhere. *)
GiveUp ==
  /\ provider = "anthropic" /\ ctx # "live" /\ scanner \in {"scanning", "ending"} /\ outbox["scanner"] # <<>>
  /\ HandOver(<<>>, scanner)
  /\ UNCHANGED <<said, upstream, spoiled, prevText, Idle>>

Running(g) == IF g = "scanner" THEN scanner ELSE bridge

Send(g) ==
  /\ outbox[g] # <<>> /\ Len(chan[g]) < Capacity(g)
  /\ chan' = [chan EXCEPT ![g] = Append(@, Head(outbox[g]))]
  /\ outbox' = [outbox EXCEPT ![g] = Tail(@)]
  /\ UNCHANGED <<provider, client, includeUsage, cumulative, said, upstream, scanner, spoiled, bridge,
                 prevText, handler, written, usage, ctx>>

(* The goroutine returns and closes its channel.                           *)
Close(g) ==
  /\ Running(g) \in {"ending", "leaving"} /\ outbox[g] = <<>>
  /\ scanner' = IF g = "scanner" THEN "gone" ELSE scanner
  /\ bridge'  = IF g = "bridge" THEN "gone" ELSE bridge
  /\ UNCHANGED <<provider, client, includeUsage, cumulative, said, upstream, spoiled, outbox, chan,
                 prevText, handler, written, usage, ctx>>

(* A receive takes what the buffer holds first, then what a blocked sender *)
(* holds.                                                                  *)
Waiting(g) == chan[g] \o outbox[g]
Take(g) ==
  IF chan[g] # <<>> THEN chan' = [chan EXCEPT ![g] = Tail(@)] /\ UNCHANGED outbox
  ELSE UNCHANGED chan /\ outbox' = [outbox EXCEPT ![g] = Tail(@)]
Closed(g) == Running(g) = "gone" /\ chan[g] = <<>>

----------------------------------------------------------------------------
(* The bridge keeps the text.  It sends what it made before it receives    *)
(* again.                                                                  *)
Bridging(e) ==
  CASE e.kind = "error" -> <<e>>
    [] e.kind = "done"  -> <<Event("completed"), e>>
    [] e.kind = "data"  -> IF e.text = <<>> THEN <<>> ELSE <<Chunk(e.text, FALSE, FALSE)>>

Bridge ==
  /\ bridge = "running" /\ outbox["bridge"] = <<>>
  /\ IF Closed("scanner")
       THEN bridge' = "leaving" /\ UNCHANGED <<chan, outbox>>
       ELSE /\ Waiting("scanner") # <<>>
            /\ LET e == Head(Waiting("scanner"))
                   rest == [outbox EXCEPT !["bridge"] = Bridging(e)]
               IN  /\ bridge' = IF e.kind = "data" THEN bridge ELSE "leaving"
                   /\ IF chan["scanner"] # <<>>
                        THEN chan' = [chan EXCEPT !["scanner"] = Tail(@)] /\ outbox' = rest
                        ELSE UNCHANGED chan /\ outbox' = [rest EXCEPT !["scanner"] = Tail(@)]
  /\ UNCHANGED <<provider, client, includeUsage, cumulative, said, upstream, scanner, spoiled, prevText,
                 handler, written, usage, ctx>>

Source == IF Bridged THEN "bridge" ELSE "scanner"

(* Fault: the stream is over with the finish reason. *)
StopsAfterFinish(e) == e.kind # "data" \/ e.finish

StopsAfter(e) == e.kind \in {"error", "done"}

(* The loops of ChatCompletions and CreateResponse.  Writes to a client    *)
(* that left fail silently.                                                *)
Forward ==
  /\ handler = "running"
  /\ IF Closed(Source)
       THEN handler' = "leaving" /\ UNCHANGED <<chan, outbox, written, usage>>
       ELSE /\ Waiting(Source) # <<>>
            /\ LET e == Head(Waiting(Source))
               IN  /\ written' = IF e.kind = "error" THEN written ELSE Append(written, e)
                   /\ usage'   = (usage \/ e.usage)
                   /\ handler' = IF StopsAfter(e) THEN "leaving" ELSE handler
            /\ Take(Source)
  /\ UNCHANGED <<provider, client, includeUsage, cumulative, said, upstream, scanner, spoiled, bridge,
                 prevText, ctx>>

Return ==
  /\ handler = "leaving"
  /\ handler' = "gone" /\ ctx' = IF ctx = "live" THEN "returned" ELSE ctx
  /\ UNCHANGED <<provider, client, includeUsage, cumulative, said, upstream, scanner, spoiled, bridge,
                 outbox, chan, prevText, written, usage>>

Disconnect ==
  /\ ctx = "live" /\ ctx' = "left"
  /\ UNCHANGED <<provider, client, includeUsage, cumulative, said, upstream, scanner, spoiled, bridge,
                 outbox, chan, prevText, handler, written, usage>>

Next ==
  \/ ScanText \/ ScanFinish \/ ScanGarbage \/ ScanEnd \/ ScanCancelled \/ ScanRest \/ GiveUp
  \/ \E g \in Goroutines : Send(g) \/ Close(g)
  \/ Bridge \/ Forward \/ Return \/ Disconnect

(* The steps a goroutine takes however the upstream behaves.  It is not    *)
(* bound to take GiveUp, which its select may prefer the send to.          *)
Goroutine(g) ==
  \/ Send(g) \/ Close(g)
  \/ g = "scanner" /\ (ScanCancelled \/ ScanRest)
  \/ g = "bridge" /\ Bridge

Spec == Init /\ [][Next]_vars

----------------------------------------------------------------------------
(* Feed of StreamTranslator, over all that was written: an event opens the *)
(* message, the finish reason closes it, and [DONE] ends a closed one.     *)
Fed(state, e) ==
  CASE e.kind = "data" ->
         [text |-> state.text \o e.text, started |-> TRUE,
          done |-> state.done \/ e.finish, stopped |-> state.stopped]
    [] e.kind = "done" -> [state EXCEPT !.stopped = state.done]
    [] OTHER -> state

TranslateStream(events) ==
  FoldLeft(Fed, [text |-> <<>>, started |-> FALSE, done |-> FALSE, stopped |-> FALSE], events)

TextWritten == FoldLeft(LAMBDA text, e : text \o e.text, <<>>, written)

(* The client's stream has its end: [DONE], response.completed or          *)
(* message_stop.                                                           *)
Ended ==
  IF client = "anthropic" THEN TranslateStream(written).stopped
  ELSE \E i \in DOMAIN written : written[i].kind = "done"

Received == IF client = "anthropic" THEN TranslateStream(written).text ELSE TextWritten

(* A delta equal to all the text before it is taken for that text again.   *)
Repeats == provider = "gemini" /\ ~cumulative /\ Len(said) > 1 /\ said[1] = said[2]

TypeOK ==
  /\ said \in BoundedSeq(Letters, MaxLetters) /\ prevText \in BoundedSeq(Letters, MaxLetters)
  /\ scanner \in {"scanning", "ending", "leaving", "gone"}
  /\ bridge \in {"running", "leaving", "gone"} /\ handler \in {"running", "leaving", "gone"}
  /\ \A g \in Goroutines : Len(chan[g]) <= Capacity(g) /\ Len(outbox[g]) <= 2
  /\ usage \in BOOLEAN /\ includeUsage \in BOOLEAN /\ ctx \in {"live", "left", "returned"} /\ spoiled \in BOOLEAN

(* A stream that the client sees end carries all the model said, in order,  *)
(* through two goroutines, two channels and a translation; and while it     *)
(* goes on, a beginning of it.                                              *)
EndedIsWhole ==
  ~Repeats => /\ IsPrefix(Received, said)
              /\ Ended /\ ctx # "left" => Received = said

(* OpenAI's [DONE] and message_stop are not said of an answer that was cut. *)
EndedIsFinished ==
  Ended /\ (provider = "openai" \/ client = "anthropic") => upstream = "finished"

(* The tokens of a finished answer whose stream tells of them are counted   *)
(* before the handler logs its spend.  The bridge tells of none, nor does   *)
(* OpenAI of a stream whose client did not ask: those are logged as free.   *)
EndedIsCounted ==
  handler = "gone" /\ Ended /\ upstream = "finished" /\ ctx # "left" /\ ~Bridged /\ UsageTold => usage

(* The request is over; and no goroutine of it is left, unless Anthropic's  *)
(* adapter met an event that it could not decode.                           *)
Left    == ctx # "live"
AllGone == \/ spoiled /\ provider = "anthropic"
           \/ scanner = "gone" /\ bridge = "gone" /\ handler = "gone"
=============================================================================
