---------------------------- MODULE ProviderWire ----------------------------
(* The conversions of the three protocol clients: a durable history into a   *)
(* request (Anthropic Messages, OpenAI Responses, OpenAI Chat Completions)   *)
(* and a provider's reply into a response and the message kept of it.        *)
(*                                                                           *)
(* A block stands for its payload: `id` is what a signature, an encrypted    *)
(* item, a text or a call id identifies, `named` tells a call with a function *)
(* name, `args` whether its arguments parse to an object.                    *)
EXTENDS Integers, Sequences, FiniteSets, SequencesExt

Protocols == {"anthropic", "responses", "chat"}

Block(t, id, named, args) == [t |-> t, id |-> id, named |-> named, args |-> args]
Think(id) == Block("think", id, TRUE, "none")
Redacted(id) == Block("redacted", id, TRUE, "none")
Text(id) == Block("text", id, TRUE, "none")
Call(id, named, args) == Block("call", id, named, args)
Result(id) == Block("result", id, TRUE, "none")

IsThinking(b) == b.t \in {"think", "redacted"}
IsText(b) == b.t = "text"
IsCall(b) == b.t = "call"
IsResult(b) == b.t = "result"
Ids(bs) == {bs[i].id : i \in DOMAIN bs}
HasThinking(bs) == \E i \in DOMAIN bs : IsThinking(bs[i])

\* A message of the history: content is a verbatim block list (raw) or a string.
Message(role, blocks, raw, calls, answers) ==
  [role |-> role, blocks |-> blocks, raw |-> raw, calls |-> calls,
   answers |-> answers, transient |-> FALSE]
UserMsg(id) == Message("user", <<Text(id)>>, FALSE, <<>>, 0)
ToolMsg(id) == Message("tool", <<>>, FALSE, <<>>, id)
AssistantMsg(blocks, raw, calls) == Message("asst", blocks, raw, calls, 0)

\* The loop's system_addendum_per_call: it exists only in the request.
Addendum == [UserMsg(0) EXCEPT !.transient = TRUE]

-----------------------------------------------------------------------------
(* Replies into responses *)

Response(raw, bs) ==
  [raw |-> raw, content |-> IF raw THEN bs ELSE SelectSeq(bs, IsText),
   calls |-> SelectSeq(bs, IsCall), reasoning |-> SelectSeq(bs, LAMBDA b : b.t = "think")]

\* A non-streaming response. Anthropic keeps the block list of a thinking turn,
\* Responses keeps it whenever there is one, Chat has only strings.
AnthropicResponse(bs) == Response(HasThinking(bs), bs)
ParseResponsesOutput(bs) == Response(bs # <<>>, bs)
ChatResponse(bs) == Response(FALSE, bs)

ToLLMResponse(p, bs) ==
  CASE p = "anthropic" -> AnthropicResponse(bs)
    [] p = "responses" -> ParseResponsesOutput(bs)
    [] p = "chat" -> ChatResponse(bs)

\* to_openai_tool_calls: arguments that do not parse to an object become {}.
ToOpenaiToolCalls(cs) == [i \in DOMAIN cs |-> [cs[i] EXCEPT !.args = "object"]]

\* DefaultThinkingParser.extract: a block list is handed on verbatim, of a string
\* the thinking is what the provider reported beside it.
Extract(r) == [visible |-> r.content, thinking |-> IF r.raw THEN <<>> ELSE r.reasoning]

\* NativeMessageNormalizer.to_history: Chat keeps its reasoning when the policy
\* says so.
ToHistory(p, keepThinking, r) ==
  LET e == Extract(r)
      thinking == IF p = "chat" /\ keepThinking THEN e.thinking ELSE <<>>
  IN AssistantMsg(thinking \o e.visible, r.raw, ToOpenaiToolCalls(r.calls))

\* _reset_signed_thinking_history: the loop commits the client's recovery.
ResetSignedThinkingHistory(h) ==
  LET strip(m) == [m EXCEPT !.blocks = SelectSeq(@, LAMBDA b : ~IsThinking(b))]
      signed(m) == m.role = "asst" /\ m.raw /\ HasThinking(m.blocks)
      reset(m) == IF ~signed(m) THEN <<m>>
                  ELSE IF strip(m).blocks = <<>> /\ m.calls = <<>> THEN <<>>
                  ELSE <<strip(m)>>
  IN FlattenSeq([i \in DOMAIN h |-> reset(h[i])])

-----------------------------------------------------------------------------
(* Histories into requests: wire messages [role, blocks, transient] *)

Wire(role, blocks, m) == [role |-> role, blocks |-> blocks, transient |-> m.transient]

\* _to_anthropic_tool_use: a call without a name cannot be expressed.
ToAnthropicToolUse(cs) == SelectSeq(cs, LAMBDA c : c.named)

\* The native blocks supply the order, the canonical calls what is sent: a call
\* the runtime removed is not, one the blocks do not hold is appended.
AssistantBlocks(m) ==
  LET calls == ToAnthropicToolUse(m.calls)
      canonical(id) == SelectSeq(calls, LAMBDA c : c.id = id)
      native == [i \in DOMAIN m.blocks |->
                   IF m.raw /\ IsCall(m.blocks[i]) THEN canonical(m.blocks[i].id)
                   ELSE <<m.blocks[i]>>]
      placed == FlattenSeq(native)
  IN placed \o SelectSeq(calls, LAMBDA c : c.id \notin Ids(SelectSeq(placed, IsCall)))

\* _to_anthropic_msg: at most one message; a contentless assistant turn is none.
ToAnthropicMsg(m) ==
  CASE m.role = "tool" -> <<Wire("user", <<Result(m.answers)>>, m)>>
    [] m.role = "user" -> <<Wire("user", m.blocks, m)>>
    [] m.role = "asst" ->
         IF AssistantBlocks(m) = <<>> THEN <<>> ELSE <<Wire("asst", AssistantBlocks(m), m)>>

OnlyResults(w) ==
  w.role = "user" /\ w.blocks # <<>> /\ \A i \in DOMAIN w.blocks : IsResult(w.blocks[i])

\* (Faulty variant: every tool result stays a message of its own.)
MergeToolResults_Split(ws) == ws

\* _merge_tool_results: neighbours that only hold results become one message.
MergeToolResults(ws) ==
  LET joins(i) == /\ i > 1 /\ ~ws[i - 1].transient /\ ~ws[i].transient
                  /\ OnlyResults(ws[i - 1]) /\ OnlyResults(ws[i])
      run(i) == LET end == CHOOSE e \in i..Len(ws) :
                             /\ \A k \in (i + 1)..e : joins(k)
                             /\ e < Len(ws) => ~joins(e + 1)
                IN FlattenSeq([k \in 1..(end - i + 1) |-> ws[i + k - 1].blocks])
  IN FlattenSeq([i \in DOMAIN ws |->
       IF joins(i) THEN <<>> ELSE <<[ws[i] EXCEPT !.blocks = run(i)]>>])

TransientTail(ws) ==
  LET kept == SelectLastInSeq(ws, LAMBDA w : ~w.transient) IN Len(ws) - kept

FoldTransientTail(ws, n) ==
  LET head == SubSeq(ws, 1, Len(ws) - n)
      tail == SubSeq(ws, Len(ws) - n + 1, Len(ws))
      extra == FlattenSeq([i \in DOMAIN tail |-> tail[i].blocks])
  IN IF n = 0 \/ head = <<>> THEN ws
     ELSE IF Last(head).role # "user" \/ \E i \in DOMAIN tail : tail[i].role # "user" THEN ws
     ELSE Front(head) \o <<[Last(head) EXCEPT !.blocks = @ \o extra]>>

Flat(ws) == FlattenSeq([i \in DOMAIN ws |-> ws[i].blocks])

\* _add_prompt_cache: the blocks up to the rolling breakpoint, which is the end
\* of the last message that will be in the next request too.
AddPromptCache(ws, n) == Flat(SubSeq(ws, 1, Len(ws) - n))

AnthropicRequest(h) ==
  LET ws == MergeToolResults(FlattenSeq([i \in DOMAIN h |-> ToAnthropicMsg(h[i])]))
      n == TransientTail(ws)
  IN [msgs |-> FoldTransientTail(ws, n), cached |-> AddPromptCache(ws, n)]

\* _without_thinking_blocks
WithoutThinkingBlocks(req) ==
  LET keep(bs) == SelectSeq(bs, LAMBDA b : ~IsThinking(b))
      strip(w) == IF keep(w.blocks) = <<>> /\ w.blocks # <<>> THEN <<>>
                  ELSE <<[w EXCEPT !.blocks = keep(@)]>>
  IN [msgs |-> FlattenSeq([i \in DOMAIN req.msgs |-> strip(req.msgs[i])]),
      cached |-> keep(req.cached)]

\* _to_responses_function_call: nothing for a call without a name; the
\* arguments of a verbatim item are passed through.
ToResponsesFunctionCall(cs) == SelectSeq(cs, LAMBDA c : c.named)

\* _to_responses_input: one item per block, in the provider's own order; the
\* canonical calls are used when the content holds no function call.
ToResponsesInput(m) ==
  LET sent == SelectSeq(m.blocks, LAMBDA b : ~IsCall(b) \/ b.named)
      own == m.raw /\ \E i \in DOMAIN sent : IsCall(sent[i])
      items == IF own THEN sent
               ELSE SelectSeq(sent, LAMBDA b : ~IsCall(b)) \o ToResponsesFunctionCall(m.calls)
      blocks == CASE m.role = "tool" -> <<Result(m.answers)>>
                  [] m.role = "user" -> m.blocks
                  [] m.role = "asst" -> items
      role == IF m.role = "asst" THEN "asst" ELSE "user"
  IN [i \in DOMAIN blocks |-> Wire(role, <<blocks[i]>>, m)]

\* _sanitize_tool_call_names: rewritten, never dropped.
SanitizeToolCallNames(cs) == [i \in DOMAIN cs |-> [cs[i] EXCEPT !.named = TRUE]]

\* for_wire: the messages of the history with their wire keys.
ForWire(m) ==
  CASE m.role = "tool" -> Wire("user", <<Result(m.answers)>>, m)
    [] m.role = "user" -> Wire("user", m.blocks, m)
    [] m.role = "asst" -> Wire("asst", m.blocks \o SanitizeToolCallNames(m.calls), m)

ResponsesRequest(h) ==
  [msgs |-> FlattenSeq([i \in DOMAIN h |-> ToResponsesInput(h[i])]), cached |-> <<>>]

ChatRequest(h) == [msgs |-> [i \in DOMAIN h |-> ForWire(h[i])], cached |-> <<>>]

Request(p, h) ==
  CASE p = "anthropic" -> AnthropicRequest(h)
    [] p = "responses" -> ResponsesRequest(h)
    [] p = "chat" -> ChatRequest(h)
=============================================================================
