----------------------------- MODULE Translation -----------------------------
(***************************************************************************)
(* The dialects of core/llm.py: what a provider's reply becomes for the    *)
(* router, what the router replays of it, and what of the router's         *)
(* messages reaches the provider again in the next round.                  *)
(*                                                                         *)
(* The router speaks Anthropic's dialect, in blocks.  A call is known by   *)
(* its id; its arguments are one object or another, or no object at all,   *)
(* the tool's name going with them.  Prose is one value, apart from the    *)
(* empty and the missing.                                                  *)
(***************************************************************************)
EXTENDS Naturals, Sequences, SequencesExt, Subsequence

CONSTANT Objects   \* what a model may write as a call's arguments

ASSUME TranslationAssumption == Objects \cap {"malformed", "text", "thinking"} = {}

Null == "null"
Empty == ""
Prose == "prose"

Text(text) == [type |-> "text", text |-> text]
ToolUse(id, input) == [type |-> "tool_use", id |-> id, input |-> input]
ToolResult(id) == [type |-> "tool_result", tool_use_id |-> id]
OfType(blocks, type) == Those(blocks, {b \in ToSet(blocks) : b.type = type})
Mapped(Op(_), s) == [i \in DOMAIN s |-> Op(s[i])]

\* "{}" stands in for arguments that are no JSON, or no object.
Arguments == Objects \cup {"malformed"}
Decoded(arguments) == IF arguments \in Objects THEN arguments ELSE "{}"

-----------------------------------------------------------------------------
(* From a provider: LLMResponse, its blocks and its stop_reason.           *)

\* A slip: a call whose arguments are not JSON is dropped.
from_groq_message_drops(message, finish_reason) ==
    LET calls == Those(message.tool_calls,
                       {c \in ToSet(message.tool_calls) : c.arguments # "malformed"}) IN
    [blocks |-> (IF message.content = Prose THEN <<Text(message.content)>> ELSE <<>>)
                \o Mapped(LAMBDA c : ToolUse(c.id, Decoded(c.arguments)), calls),
     stop_reason |-> IF finish_reason = "tool_calls" THEN "tool_use" ELSE finish_reason]

\* _from_groq_message(): content and tool_calls are fields apart; a reply with
\* neither becomes an empty text.
from_groq_message(message, finish_reason) ==
    LET blocks == (IF message.content = Prose THEN <<Text(message.content)>> ELSE <<>>)
                  \o Mapped(LAMBDA c : ToolUse(c.id, Decoded(c.arguments)), message.tool_calls)
    IN [blocks |-> IF blocks = <<>> THEN <<Text(Empty)>> ELSE blocks,
        stop_reason |-> IF finish_reason = "tool_calls" THEN "tool_use" ELSE finish_reason]

\* _to_response(): block by block, what it does not know left out.
to_response(raw) ==
    [blocks |-> Mapped(LAMBDA b : IF b.type = "tool_use" THEN ToolUse(b.id, Decoded(b.input)) ELSE b,
                       Those(raw.content, {b \in ToSet(raw.content) : b.type \in {"text", "tool_use"}})),
     stop_reason |-> raw.stop_reason]

tool_uses(response) == OfType(response.blocks, "tool_use")
HasText(response) == \E i \in DOMAIN response.blocks :
                        response.blocks[i].type = "text" /\ response.blocks[i].text = Prose

\* to_assistant_message(): the reply, replayed.
to_assistant_message(response) == [role |-> "assistant", blocks |-> response.blocks]

-----------------------------------------------------------------------------
(* To a provider.                                                          *)

\* _text_of(): one prose, or none, which is sent as null.
text_of(blocks) == IF \E i \in DOMAIN blocks : blocks[i].type = "text" /\ blocks[i].text = Prose
                   THEN Prose ELSE Null

Plain(role, content) == [role |-> role, content |-> content, tool_calls |-> <<>>]

\* A slip: the results left in one message of the user.
GroqFlattened(m) ==
    IF "content" \in DOMAIN m THEN <<Plain(m.role, m.content)>>
    ELSE <<[role |-> m.role, content |-> text_of(m.blocks),
            tool_calls |-> Mapped(LAMBDA b : [id |-> b.id, arguments |-> b.input],
                                  OfType(m.blocks, "tool_use"))]>>

\* One message of the router: a plain one, an assistant's, or a user's with
\* results, each of which becomes a message of its own.
GroqMessages(m) ==
    CASE "content" \in DOMAIN m -> <<Plain(m.role, m.content)>>
      [] "blocks" \in DOMAIN m /\ m.role = "assistant" ->
            <<[role |-> "assistant", content |-> text_of(m.blocks),
               tool_calls |-> Mapped(LAMBDA b : [id |-> b.id, arguments |-> b.input],
                                     OfType(m.blocks, "tool_use"))]>>
      [] OTHER ->
            Mapped(LAMBDA b : [role |-> "tool", tool_call_id |-> b.tool_use_id],
                   OfType(m.blocks, "tool_result"))
            \o (IF text_of(m.blocks) = Null THEN <<>> ELSE <<Plain("user", text_of(m.blocks))>>)

\* _to_groq_messages()
to_groq_messages(messages) ==
    <<Plain("system", Prose)>> \o FlattenSeq(Mapped(GroqMessages, messages))

-----------------------------------------------------------------------------
(* What either API accepts: the user speaks first, an assistant's message  *)
(* that calls tools is followed at once by one result for each call, in    *)
(* order, and there is no result anywhere else.                            *)

GroqAccepts(p) ==
    LET calls(i) == IF p[i].role = "assistant" THEN p[i].tool_calls ELSE <<>>
    IN /\ p[1].role = "system" /\ p[2].role = "user"
       /\ UNION {{<<i + k, calls(i)[k].id>> : k \in DOMAIN calls(i)} : i \in DOMAIN p}
          = {<<j, p[j].tool_call_id>> : j \in {i \in DOMAIN p : p[i].role = "tool"}}

AnthropicAccepts(p) ==
    LET of(i, type) == IF "blocks" \in DOMAIN p[i] THEN OfType(p[i].blocks, type) ELSE <<>>
        have(type) == {i \in DOMAIN p : of(i, type) # <<>>}
    IN /\ p[1].role = "user"
       /\ {<<i + 1, Mapped(LAMBDA b : b.id, of(i, "tool_use"))>> : i \in have("tool_use")}
          = {<<i, Mapped(LAMBDA b : b.tool_use_id, of(i, "tool_result"))>> : i \in have("tool_result")}

(* What is in a reply: as the provider sent it, or as it is replayed to it.*)
GroqContents(m) ==
    [prose |-> IF m.content = Prose THEN Prose ELSE Null,
     calls |-> Mapped(LAMBDA c : [id |-> c.id, arguments |-> c.arguments], m.tool_calls)]

AnthropicContents(blocks) ==
    [prose |-> OfType(blocks, "text"),
     calls |-> Mapped(LAMBDA b : [id |-> b.id, arguments |-> b.input], OfType(blocks, "tool_use"))]

\* The same prose and the same calls in the same order, each with the arguments it
\* was made with if those were an object, and with an empty object if they were not.
Echoes(heard, sent) ==
    /\ heard.prose = sent.prose
    /\ DOMAIN heard.calls = DOMAIN sent.calls
    /\ \A k \in DOMAIN sent.calls :
          /\ heard.calls[k].id = sent.calls[k].id
          /\ IF sent.calls[k].arguments \in Objects
             THEN heard.calls[k].arguments = sent.calls[k].arguments
             ELSE heard.calls[k].arguments = "{}"
==============================================================================
