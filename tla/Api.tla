-------------------------------- MODULE Api ---------------------------------
(***************************************************************************)
(* One HTTP request to crates/orion-api: /v1/chat/completions, streamed or *)
(* not, or /v1/completions.  The handler validates it, submits it to the   *)
(* engine, decodes the tokens that come back and looks for the caller's    *)
(* stop strings.  The engine's side of the channel is RequestStream.       *)
(*                                                                         *)
(* Real numbers of a request are given in tenths; Infinity is an f32 too   *)
(* large to represent.  StreamEvent::Error is built by no code and has no  *)
(* branch here.  /v1/completions has no streaming branch: the code reads   *)
(* its `stream' field nowhere.                                             *)
(***************************************************************************)
EXTENDS Tokenizer, RequestStream

CONSTANTS
  Requests,             \* the requests a client may send
  default_max_tokens,
  PromptText,           \* what echo puts before the completion
  prompt_tokens,        \* length of the encoded prompt
  Capacity,             \* of the event channel: 1024 in the code
  MAX_STOP_SEQUENCES,
  MaxTokens,            \* bound: tokens the engine generates
  None, Infinity

VARIABLES
  req,                  \* the request
  phase,                \* "arrived", "receiving", "closing", "answered", "gone"
  taken,                \* events received
  decoder, matcher,     \* of the handler
  text,                 \* collected, or sent to the client of a stream
  completion_tokens,    \* counted by the handler
  finish,               \* its FinishReason
  reply                 \* status and body, once there is an answer

handlerVars == <<req, phase, taken, decoder, matcher, text, completion_tokens, finish, reply>>
apiVars == <<streamVars, handlerVars>>

-----------------------------------------------------------------------------
(* Requests.  `inputs' is the number of messages, or of prompts.            *)

Real == Int \cup {Infinity}
Option(S) == S \cup {None}

ChatCompletionRequest ==
  [endpoint : {"chat"}, stream : BOOLEAN, echo : {FALSE}, n : Option(Nat), inputs : Nat,
   temperature : Option(Real), top_p : Option(Real), repetition_penalty : Option(Real),
   presence_penalty : Option(Real), frequency_penalty : Option(Real),
   max_tokens : Option(Nat), max_completion_tokens : Option(Nat),
   min_tokens : Option(Nat), stop : Seq(Text)]
\* It has no field for the other penalties and bounds.
CompletionRequest ==
  [endpoint : {"completions"}, stream : BOOLEAN, echo : BOOLEAN, n : Option(Nat), inputs : Nat,
   temperature : Option(Real), top_p : Option(Real), repetition_penalty : Option(Real),
   presence_penalty : {None}, frequency_penalty : {None},
   max_tokens : Option(Nat), max_completion_tokens : {None},
   min_tokens : {None}, stop : Seq(Text)]

ASSUME RequestsAssumption ==
  Requests \subseteq ChatCompletionRequest \cup CompletionRequest

ASSUME BoundAssumption == MaxTokens \in Nat

-----------------------------------------------------------------------------
(* Validation.                                                              *)

Or(a, b) == IF a # None THEN a ELSE b
IsFinite(x) == x # Infinity
OnePlus(p) == IF p = Infinity THEN p ELSE IF p > 0 THEN 10 + p ELSE 10

build_params(r) ==
  LET presence == Or(r.presence_penalty, r.frequency_penalty)
      penalty  == Or(r.repetition_penalty,
                     IF presence = None THEN None ELSE OnePlus(presence))
  IN  [temperature |-> Or(r.temperature, 10), top_p |-> Or(r.top_p, 10),
       repetition_penalty |-> Or(penalty, 10),
       max_tokens |-> Or(Or(r.max_tokens, r.max_completion_tokens), default_max_tokens),
       min_tokens |-> Or(r.min_tokens, 0), stop_sequences |-> r.stop]

validate(p) ==
  /\ IsFinite(p.temperature) /\ p.temperature >= 0
  /\ IsFinite(p.top_p) /\ p.top_p > 0 /\ p.top_p <= 10
  /\ IsFinite(p.repetition_penalty) /\ p.repetition_penalty > 0
  /\ p.max_tokens > 0 /\ p.min_tokens <= p.max_tokens
  /\ Len(p.stop_sequences) <= MAX_STOP_SEQUENCES
  /\ \A i \in DOMAIN p.stop_sequences : p.stop_sequences[i] # << >>

check_unsupported(n) == n \in {None, 1}
encode_chat(messages) == messages > 0
single(prompts) == prompts = 1
HasPrompt(r) == IF r.endpoint = "chat" THEN encode_chat(r.inputs) ELSE single(r.inputs)
Encodes(r) == check_unsupported(r.n) /\ HasPrompt(r)
Valid(r) == Encodes(r) /\ validate(build_params(r))

-----------------------------------------------------------------------------
(* EngineError at the edge.                                                 *)

status(e) ==
  CASE e \in {"InvalidRequest", "ContextLengthExceeded", "Tokenizer"} -> 400
    [] e = "QueueFull" -> 429
    [] e \in {"CacheExhausted", "EngineShutdown"} -> 503
is_client_error(e) == e \in {"InvalidRequest", "ContextLengthExceeded", "Cancelled"}
is_retryable(e) == e \in {"QueueFull", "CacheExhausted"}
ErrorType(e) ==
  IF is_client_error(e) THEN "invalid_request_error"
  ELSE IF is_retryable(e) THEN "server_overloaded" ELSE "server_error"

Pending == [status |-> 0]
ErrorReply(e) == [status |-> status(e), type |-> ErrorType(e)]

\* Engine::add_request's refusals, and a thread that is gone.
Refusals == {"QueueFull", "ContextLengthExceeded", "CacheExhausted", "EngineShutdown"}

Fail(e) == phase' = "answered" /\ reply' = ErrorReply(e)

-----------------------------------------------------------------------------
(* The handler up to the engine's answer.                                   *)

Init ==
  /\ StreamInit /\ req \in Requests /\ phase = "arrived" /\ taken = 0
  /\ decoder = NewDecoder /\ matcher = NewMatcher(req.stop) /\ text = << >>
  /\ completion_tokens = 0 /\ finish = "Length" /\ reply = Pending

Untouched == UNCHANGED <<req, taken, decoder, matcher, text, completion_tokens, finish>>

Reject ==
  /\ phase = "arrived" /\ ~Valid(req)
  /\ Fail("InvalidRequest") /\ Untouched /\ UNCHANGED streamVars

EncodeFails ==
  /\ phase = "arrived" /\ Encodes(req)
  /\ Fail("Tokenizer") /\ Untouched /\ UNCHANGED streamVars

EngineRefuses(e) ==
  /\ phase = "arrived" /\ Valid(req)
  /\ Fail(e) /\ Untouched /\ UNCHANGED streamVars

generate ==
  /\ phase = "arrived" /\ Valid(req)
  /\ Accept /\ phase' = "receiving"
  /\ Untouched /\ UNCHANGED reply

-----------------------------------------------------------------------------
(* The receive loops of the three handlers.  A loop that ends goes on to    *)
(* the answer.                                                              *)

handler ==
  IF req.endpoint = "completions" THEN "completions"
  ELSE IF req.stream THEN "chat_stream" ELSE "collect_chat"
Streams == handler = "chat_stream"

Receives(terminal) ==
  /\ phase = "receiving" /\ taken < Len(events)
  /\ is_terminal(events[taken + 1]) = terminal /\ taken' = taken + 1
  /\ UNCHANGED <<streamVars, req>>

\* What a stream sends of the piece in which a stop string is found.
Visible(m, piece) == IF m.found THEN truncate_at_stop(m, piece) ELSE piece

chat_stream(m, piece) == text \o Visible(m, piece)
collect_chat(piece) == text \o piece
completions(piece) == text \o piece
TextWith(m, piece) ==
  CASE handler = "chat_stream"  -> chat_stream(m, piece)
    [] handler = "collect_chat" -> collect_chat(piece)
    [] handler = "completions"  -> completions(piece)

TakeToken(token) ==
  LET d == push(decoder, token)
      m == feed(matcher, d.out)
  IN  /\ Receives(FALSE) /\ SlicesAt(decoder, token)
      /\ decoder' = d /\ matcher' = m /\ text' = TextWith(m, d.out)
      /\ completion_tokens' = completion_tokens + 1
      /\ phase' = IF m.found THEN "closing" ELSE phase
      /\ finish' = IF m.found THEN "Stop" ELSE finish
      /\ UNCHANGED reply

\* decode fails, of what leaves the window or of what is in it; the decoder has
\* the token already.  A stream ends as if it were complete.
PushFails(token) ==
  LET d == [decoder EXCEPT !.tokens = Append(@, token)]
  IN  /\ Receives(FALSE)
      /\ decoder' \in {d, Reanchored(d)}
      /\ IF Streams THEN phase' = "closing" /\ UNCHANGED reply ELSE Fail("Tokenizer")
      /\ UNCHANGED <<matcher, text, completion_tokens, finish>>

\* The panic ends the handler's task, and drops its receiver.
PushPanics(token) ==
  /\ Receives(FALSE) /\ ~SlicesAt(decoder, token)
  /\ phase' = "gone"
  /\ UNCHANGED <<decoder, matcher, text, completion_tokens, finish, reply>>

Counted(n) == IF n > completion_tokens THEN n ELSE completion_tokens

TakeDone ==
  LET e == events[taken + 1]
      d == flush(decoder)
  IN  /\ Receives(TRUE)
      /\ decoder' = d /\ text' = text \o d.out
      /\ completion_tokens' = Counted(e.n) /\ finish' = e.kind
      /\ phase' = "closing" /\ UNCHANGED <<matcher, reply>>

FlushFails ==
  LET e == events[taken + 1]
  IN  /\ Receives(TRUE)
      /\ IF Streams
           THEN /\ completion_tokens' = Counted(e.n) /\ finish' = e.kind
                /\ phase' = "closing" /\ UNCHANGED reply
           ELSE Fail("Tokenizer") /\ UNCHANGED <<completion_tokens, finish>>
      /\ UNCHANGED <<decoder, matcher, text>>

ChannelClosed ==
  /\ phase = "receiving" /\ taken = Len(events) /\ sender = "dropped"
  /\ phase' = "closing" /\ Untouched /\ UNCHANGED <<streamVars, reply>>

as_api_str(reason) ==
  CASE reason = "Stop" -> "stop" [] reason = "Length" -> "length"
    [] reason = "Cancelled" -> "cancelled" [] reason = "Timeout" -> "timeout"

Usage == [completion_tokens |-> completion_tokens,
          total_tokens |-> prompt_tokens + completion_tokens]

\* The last chunk of a stream, with the [DONE] after it, adds no text.
ChatCompletionChunk == text
ChatCompletionResponse_Whole == text
ChatCompletionResponse == truncate_at_stop(matcher, text)
CompletionResponse ==
  (IF req.echo THEN PromptText ELSE << >>) \o truncate_at_stop(matcher, text)
Shown ==
  CASE handler = "chat_stream"  -> ChatCompletionChunk
    [] handler = "collect_chat" -> ChatCompletionResponse
    [] handler = "completions"  -> CompletionResponse

Answer ==
  /\ phase = "closing" /\ phase' = "answered"
  /\ reply' = [status |-> 200, text |-> Shown,
               finish_reason |-> as_api_str(finish), usage |-> Usage]
  /\ Untouched /\ UNCHANGED streamVars

\* The client goes away; the handler is dropped, and its receiver with it.
Disconnect ==
  /\ phase \in {"receiving", "closing"} /\ phase' = "gone"
  /\ Untouched /\ UNCHANGED <<streamVars, reply>>

-----------------------------------------------------------------------------
(* The engine.  It can send while the receiver lives and there is room.     *)

HasRoom == phase = "receiving" /\ Len(events) - taken < Capacity
InBound == Len(events) < MaxTokens    \* who may still send has sent tokens only

EngineSends ==
  /\ HasRoom
  /\ \/ InBound /\ SendToken
     \/ InBound /\ \E reason \in {"Stop", "Length"} : SendLast(reason)
     \/ TimeOut
     \/ CancelStream
  /\ Len(events') - taken <= Capacity
  /\ UNCHANGED handlerVars

EngineLetsGo == DropSender /\ UNCHANGED handlerVars

Handler ==
  \/ Reject \/ EncodeFails \/ generate \/ \E e \in Refusals : EngineRefuses(e)
  \/ \E token \in Tokens : TakeToken(token) \/ PushFails(token) \/ PushPanics(token)
  \/ TakeDone \/ FlushFails \/ ChannelClosed \/ Answer

\* Nothing is left to do.  Every other step brings the request nearer to this,
\* so that one that is never stuck elsewhere is always answered.
Over ==
  /\ phase \in {"answered", "gone"} /\ sender # "held"
  /\ UNCHANGED apiVars

Next == Handler \/ Disconnect \/ EngineSends \/ EngineLetsGo \/ Over

Spec == Init /\ [][Next]_apiVars

-----------------------------------------------------------------------------
(* Properties.                                                              *)

\* The types of the handler's locals.
ApiTypeOK ==
  /\ req \in Requests /\ sender \in {"none", "held", "dropped"}
  /\ phase \in {"arrived", "receiving", "closing", "answered", "gone"}
  /\ taken \in 0..Len(events) /\ completion_tokens \in 0..MaxTokens
  /\ text \in Text /\ decoder.tokens \in Seq(Tokens) /\ decoder.emitted \in Text
  /\ decoder.window_start \in 0..Len(decoder.tokens)
  /\ decoder.window_emitted \in Nat /\ matcher.buffer \in Text
  /\ finish \in {"Stop", "Length", "Cancelled", "Timeout"}
  /\ (phase = "answered") = (reply # Pending)

\* Whatever the window does, what was emitted is the decode of all the tokens
\* but for the characters that may still change: nothing is lost, repeated or
\* garbled when the window moves in the middle of a character.  And push never
\* slices a text inside a character, which would panic.  With a tokenizer that
\* drops a leading space this is said only of what Intact allows; see ApiClaims
\* for the rest.
DecoderExact ==
  /\ ApiTypeOK
  /\ phase = "receiving" =>
       /\ Intact(decoder) => decoder.emitted = TrimEnd(decode(decoder.tokens))
       /\ \A token \in Tokens : Intact(push(decoder, token)) => SlicesAt(decoder, token)

\* The matcher, which keeps only an end of the text, misses no stop string and
\* invents none: the loop goes on exactly while the text has none.
StopFoundExactly ==
  /\ phase = "receiving" =>
       \A s \in Range(req.stop) : ~Occurs(decoder.emitted, s)
  /\ matcher.found => \E s \in Range(req.stop) : Occurs(decoder.emitted, s)

EndedByDone == taken > 0 /\ is_terminal(events[taken])

\* An answer that is not streamed is the text of the tokens received, cut
\* before the first stop string; only an answer that no terminal event ended
\* lacks an unfinished character.
AnswerTextExact ==
  phase = "answered" /\ reply.status = 200 /\ ~Streams /\ Intact(decoder) =>
    LET all == decode(decoder.tokens)
        end == IF EndedByDone THEN all ELSE TrimEnd(all)
    IN  reply.text = (IF req.echo THEN PromptText ELSE << >>)
                        \o truncate_at_stop(matcher, end)

\* What a stream has sent is the beginning of the text of the tokens received,
\* and the answer, that is this text up to the first stop string, or it goes
\* on after it.  It goes on for two reasons only: the stop string began in a
\* piece that had been sent before the last one completed it, or characters
\* held back to the end, which are sent unexamined, completed it.
StreamExact ==
  Streams /\ Intact(decoder) =>
    LET answer == truncate_at_stop(matcher, decoder.emitted)
    IN  /\ IsPrefix(text, decode(decoder.tokens))
        /\ IsPrefix(answer, text)
        /\ text # answer =>
             \/ matcher.found /\ Len(answer) < Len(decoder.emitted) - Len(decoder.out)
             \/ EndedByDone /\ text = decode(decoder.tokens)

\* The usage counts the tokens the client was answered with, however the
\* engine's own count comes out: a timeout of a waiting request reports none.
\* It leaves out the one token that broke a stream off by failing to decode.
UsageExact ==
  phase = "answered" /\ reply.status = 200 =>
    /\ \/ reply.usage.completion_tokens = Len(decoder.tokens)
       \/ /\ Streams /\ ~EndedByDone /\ ~matcher.found
          /\ reply.usage.completion_tokens = Len(decoder.tokens) - 1
    /\ reply.usage.total_tokens = prompt_tokens + reply.usage.completion_tokens

\* A complete answer is right in its text and in its usage.
AnswerExact == AnswerTextExact /\ UsageExact
=============================================================================
