--------------------------- MODULE RequestFormats ---------------------------
(***************************************************************************)
(* The messages of a request in the two API formats (src/internal/llm/     *)
(* anthropic.go, openai_compat.go).  A content block is a record [type,    *)
(* id]; a tool call has as its id its turn and its position, and so has    *)
(* the result that answers it.                                             *)
(***************************************************************************)
EXTENDS ContextOptimizer

Block(type, id) == [type |-> type, id |-> id]
Text == Block("text", <<>>)
Positions == 1..2 \* of the calls of one response

\* What a message of the loop holds: a response with calls also has a text, the
\* results are in the order of their calls.
ContentOf(m) ==
  CASE m.kind = "call" -> <<Text>> \o [k \in Positions |-> Block("tool_use", <<m.turn, k>>)]
    [] m.kind = "tool" -> [k \in Positions |-> Block("tool_result", <<m.turn, k>>)]
    [] OTHER -> <<Text>>

Role(m) ==
  CASE m.kind \in {"user", "summary"} -> "user"
    [] m.kind = "tool" -> "tool"
    [] OTHER -> "assistant"

OfType(content, type) == Picked(content, {k \in DOMAIN content : content[k].type = type})

\* Message by message; tool results belong in user messages.
toAnthropicMessages(msgs) ==
  [i \in DOMAIN msgs |->
     [role |-> IF Role(msgs[i]) = "tool" THEN "user" ELSE Role(msgs[i]),
      content |-> ContentOf(msgs[i])]]

\* One message for each result; an assistant's text is left out if it has calls.
OpenAIMessagesOf(m) ==
  LET calls == OfType(ContentOf(m), "tool_use")
      results == OfType(ContentOf(m), "tool_result")
  IN IF Role(m) = "tool"
       THEN [k \in DOMAIN results |-> [role |-> "tool", content |-> <<results[k]>>]]
     ELSE IF calls # <<>> THEN <<[role |-> "assistant", content |-> calls]>>
     ELSE <<[role |-> Role(m), content |-> OfType(ContentOf(m), "text")]>>
toOpenAIMessages(msgs) == FlattenSeq([i \in DOMAIN msgs |-> OpenAIMessagesOf(msgs[i])])

----------------------------------------------------------------------------
(* What the servers demand of tool results *)

IDs(content, type) == {content[k].id : k \in {j \in DOMAIN content : content[j].type = type}}

\* Anthropic: a user message's results answer calls of the message before.
AnthropicResultsFollow(ms, exempt) ==
  \A i \in DOMAIN ms : \A id \in IDs(ms[i].content, "tool_result") :
    id[1] \notin exempt =>
      ms[i].role = "user" /\ i > 1 /\ id \in IDs(ms[i - 1].content, "tool_use")

\* OpenAI: tool messages follow, without a gap, the message that has their calls.
OpenAIResultsFollow(ms, exempt) ==
  \A i \in DOMAIN ms : \A id \in IDs(ms[i].content, "tool_result") :
    id[1] \notin exempt =>
      \E j \in 1..(i - 1) :
        /\ id \in IDs(ms[j].content, "tool_use")
        /\ \A k \in (j + 1)..i : ms[k].role = "tool"

\* The results of all turns but the exempt ones.
ResultsFollow(msgs, exempt) ==
  /\ AnthropicResultsFollow(toAnthropicMessages(msgs), exempt)
  /\ OpenAIResultsFollow(toOpenAIMessages(msgs), exempt)
=============================================================================
