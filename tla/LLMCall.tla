------------------------------ MODULE LLMCall ------------------------------
(***************************************************************************)
(* One call of the model: the retries of RetryClient (src/internal/llm/    *)
(* retry.go) around the Anthropic client (anthropic.go) or the one for     *)
(* OpenAI-compatible servers (openai_compat.go), each of which reads a     *)
(* whole response, or a stream of events that it hands on as they come.    *)
(* The server, its errors and the connection are the environment, and so   *)
(* are the OpenAI library with retries of its own and its accumulator of   *)
(* chunks: an OpenAI message is a text followed by tool calls.             *)
(*                                                                         *)
(* A text is the sequence of its pieces <<block, number>>.                 *)
(***************************************************************************)
EXTENDS Subsequences, SequencesExt

CONSTANTS
  maxAttempts, overloadedMaxRetries, \* RetryConfig, with its defaults applied
  MaxBlocks, MaxPieces               \* bounds on what the server sends

\* RetryConfig's methods give positive numbers.
ASSUME CallAssumption ==
  /\ maxAttempts \in Nat \ {0} /\ overloadedMaxRetries \in Nat \ {0}
  /\ MaxBlocks \in Nat /\ MaxPieces \in Nat

BlockTypes == {"text", "tool_use", "thinking"}
Errors == {"ErrRateLimit", "ErrOverloaded", "other"}

VARIABLES
  provider,        \* "anthropic" or "openai"
  streaming,       \* CompleteStream with a handler, or Complete
  callPhase,       \* "request", "stream", "sleep" or "returned"
  generalAttempt, overloadedRetry,
  callCancelled,   \* ctx is done
  sent,            \* what the server has sent of its answer: [type, pieces]
  stopped,         \* the server's message_delta has come
  blocks,          \* the parser's blocks, by index
  stopReason,      \* the parser's: "" or "end_turn"
  heard,           \* pieces the stream handler was called with
  response         \* what the caller got

serverVars == <<sent, stopped>>
retryVars == <<generalAttempt, overloadedRetry>>
callVars ==
  <<provider, streaming, callPhase, retryVars, callCancelled, serverVars, blocks, stopReason,
    heard, response>>

NoStopReason == ""
NoResponse == [ok |-> FALSE, content |-> <<>>, stopReason |-> NoStopReason]

CallInit ==
  /\ provider \in {"anthropic", "openai"}
  /\ streaming \in BOOLEAN
  /\ callPhase = "request"
  /\ generalAttempt = 0 /\ overloadedRetry = 0
  /\ callCancelled = FALSE
  /\ sent = <<>> /\ stopped = FALSE
  /\ blocks = <<>> /\ stopReason = NoStopReason
  /\ heard = <<>>
  /\ response = NoResponse

Return(r) == callPhase' = "returned" /\ response' = r
Pieces(i, n) == [k \in 1..n |-> <<i, k>>]

----------------------------------------------------------------------------
(* RetryClient *)

\* Complete gives an error to its caller when ctx is done or the error's own
\* counter is used up, and sleeps otherwise.
Complete(err) ==
  LET general == generalAttempt + (IF err = "ErrOverloaded" THEN 0 ELSE 1)
      overloaded == overloadedRetry + (IF err = "ErrOverloaded" THEN 1 ELSE 0)
      exhausted == IF err = "ErrOverloaded" THEN overloaded > overloadedMaxRetries
                                            ELSE general >= maxAttempts
  IN IF callCancelled THEN Return(NoResponse) /\ UNCHANGED retryVars
     ELSE /\ generalAttempt' = general /\ overloadedRetry' = overloaded
          /\ IF exhausted THEN Return(NoResponse)
                          ELSE callPhase' = "sleep" /\ UNCHANGED response

\* Mutant of CompleteStream: a stream is retried like a request.
CompleteStreamRetried(err) == Complete(err)

\* CompleteStream hands every error on, whether or not the stream had begun.
CompleteStream(err) == Return(NoResponse) /\ UNCHANGED retryVars

Fails(err) == IF streaming THEN CompleteStream(err) ELSE Complete(err)

\* The select may see the timer although ctx is done as well.
sleep ==
  /\ callPhase = "sleep"
  /\ \/ callPhase' = "request" /\ UNCHANGED response
     \/ callCancelled /\ Return(NoResponse)
  /\ sent' = <<>> /\ stopped' = FALSE
  /\ UNCHANGED <<provider, streaming, retryVars, callCancelled, blocks, stopReason, heard>>

----------------------------------------------------------------------------
(* The clients *)

\* HTTP 429, HTTP 529, another status, no connection, an OpenAI response without
\* choices, or ctx done.
RequestFails ==
  /\ callPhase = "request"
  /\ \E err \in Errors : Fails(err)
  /\ UNCHANGED <<provider, streaming, callCancelled, serverVars, blocks, stopReason, heard>>

ServerMessages == SeqOf([type : BlockTypes, pieces : 0..MaxPieces], MaxBlocks)
BlockContent(i, b) == [type |-> b.type, pieces |-> Pieces(i, b.pieces)]
\* The blocks of bs whose positions are in keep, as content.
BlockContents(bs) == [i \in DOMAIN bs |-> BlockContent(i, bs[i])]
Kept(bs, keep) == Picked(BlockContents(bs), keep)

\* Text that is not empty, and tool calls.
Finished(bs) ==
  {i \in DOMAIN bs : bs[i].type = "tool_use" \/ (bs[i].type = "text" /\ bs[i].pieces > 0)}

\* What an OpenAI server can say: one text, and tool calls after it.
IsChoice(bs) ==
  \A i \in DOMAIN bs : bs[i].type = "tool_use" \/ (bs[i].type = "text" /\ i = 1)

\* One text, if there is any, and the tool calls.
fromOpenAICompletion ==
  /\ callPhase = "request" /\ ~streaming /\ ~callCancelled
  /\ provider = "openai"
  /\ \E message \in {bs \in ServerMessages : IsChoice(bs)} :
       /\ sent' = message /\ stopped' = TRUE
       /\ Return([ok |-> TRUE, stopReason |-> "end_turn",
                  content |-> Kept(message, Finished(message))])
  /\ UNCHANGED <<provider, streaming, retryVars, callCancelled, blocks, stopReason, heard>>

\* A whole response: texts, empty ones too, and tool calls.
parseAnthropicResponse ==
  /\ callPhase = "request" /\ ~streaming /\ ~callCancelled
  /\ provider = "anthropic"
  /\ \E message \in ServerMessages :
       /\ sent' = message /\ stopped' = TRUE
       /\ Return([ok |-> TRUE, stopReason |-> "end_turn",
                  content |-> Kept(message, {i \in DOMAIN message : message[i].type # "thinking"})])
  /\ UNCHANGED <<provider, streaming, retryVars, callCancelled, blocks, stopReason, heard>>

\* HTTP 200: the stream begins.
StreamBegins ==
  /\ callPhase = "request" /\ streaming /\ ~callCancelled
  /\ callPhase' = "stream"
  /\ blocks' = <<>> /\ stopReason' = NoStopReason
  /\ UNCHANGED <<provider, streaming, retryVars, callCancelled, serverVars, heard, response>>

Sends == callPhase = "stream" /\ ~stopped
WhileStreaming ==
  UNCHANGED <<provider, streaming, callPhase, retryVars, callCancelled, response>>

content_block_start(type) ==
  /\ Sends /\ Len(sent) < MaxBlocks
  /\ provider = "openai" => IsChoice(Append(sent, [type |-> type, pieces |-> 0]))
  /\ sent' = Append(sent, [type |-> type, pieces |-> 0])
  /\ blocks' = Append(blocks, [type |-> type, pieces |-> 0])
  /\ UNCHANGED <<stopped, stopReason, heard>> /\ WhileStreaming

\* Text goes to the block and to the handler, the input of a tool to the block;
\* other deltas (thinking) are skipped.
content_block_delta ==
  LET i == Len(sent) IN
  /\ Sends /\ i > 0 /\ sent[i].pieces < MaxPieces
  /\ sent' = [sent EXCEPT ![i].pieces = @ + 1]
  /\ blocks' = IF sent[i].type = "thinking" THEN blocks ELSE [blocks EXCEPT ![i].pieces = @ + 1]
  /\ heard' = IF sent[i].type = "text" THEN Append(heard, <<i, sent[i].pieces + 1>>) ELSE heard
  /\ UNCHANGED <<stopped, stopReason>> /\ WhileStreaming

message_delta ==
  /\ Sends
  /\ stopped' = TRUE /\ stopReason' = "end_turn"
  /\ UNCHANGED <<sent, blocks, heard>> /\ WhileStreaming

\* The server closes the stream: after its last event, after an "error" event,
\* which the parser does not know, or too early.  What has come is the response;
\* a text that stayed empty is left out.  fromOpenAIAccumulator, too, takes what
\* has come when the stream ends without an error.
parseStream ==
  /\ callPhase = "stream"
  /\ Return([ok |-> TRUE, stopReason |-> stopReason,
             content |-> Kept(blocks, Finished(blocks))])
  /\ UNCHANGED <<provider, streaming, retryVars, callCancelled, serverVars, blocks, stopReason, heard>>

\* The connection breaks, ctx is done, or no OpenAI choice has come.
ReadFails ==
  /\ callPhase = "stream"
  /\ Fails("other")
  /\ UNCHANGED <<provider, streaming, callCancelled, serverVars, blocks, stopReason, heard>>

CancelCall ==
  /\ callPhase # "returned" /\ ~callCancelled
  /\ callCancelled' = TRUE
  /\ UNCHANGED <<provider, streaming, callPhase, retryVars, serverVars, blocks, stopReason, heard,
                 response>>

----------------------------------------------------------------------------

CallNext ==
  \/ RequestFails \/ sleep \/ CancelCall
  \/ parseAnthropicResponse \/ fromOpenAICompletion
  \/ StreamBegins \/ ReadFails
  \/ \E type \in BlockTypes : content_block_start(type)
  \/ content_block_delta \/ message_delta \/ parseStream

CallSpec == CallInit /\ [][CallNext]_callVars

----------------------------------------------------------------------------
(* Properties *)

Blocks == [type : BlockTypes, pieces : 0..MaxPieces]

\* The variables have their types; the two retry budgets are separate, and
\* neither is overdrawn.
CallTypeOK ==
  /\ provider \in {"anthropic", "openai"}
  /\ streaming \in BOOLEAN /\ callCancelled \in BOOLEAN /\ stopped \in BOOLEAN
  /\ callPhase \in {"request", "stream", "sleep", "returned"}
  /\ generalAttempt \in 0..maxAttempts
  /\ overloadedRetry \in 0..(overloadedMaxRetries + 1)
  /\ callPhase # "returned" => generalAttempt < maxAttempts /\ overloadedRetry <= overloadedMaxRetries
  /\ \A bs \in {blocks, sent} : bs \in Seq(Blocks) /\ Len(bs) <= MaxBlocks

TextOf(content) ==
  FlattenSeq([i \in 1..Len(content) |->
                IF content[i].type = "text" THEN content[i].pieces ELSE <<>>])
\* The blocks of content that say something.
Says(b) == b.type = "tool_use" \/ (b.type = "text" /\ b.pieces # <<>>)
Spoken(content) == Picked(content, {i \in DOMAIN content : Says(content[i])})

\* A response with a stop reason is the answer the server gave, block for block,
\* whatever attempts failed before; and what the stream's handler passed on to
\* the user piece by piece is the text of the message that goes to the history,
\* nothing repeated and nothing missing.
ResponseMatchesStream ==
  response.ok /\ response.stopReason # NoStopReason =>
    /\ Spoken(response.content) = Spoken(BlockContents(sent))
    /\ streaming => heard = TextOf(response.content)
=============================================================================
