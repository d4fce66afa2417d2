---------------------------- MODULE StreamAdapter ----------------------------
(* A streamed reply: the SDK events of each protocol, the deltas a client     *)
(* makes of them and the response the loop assembles from the deltas.         *)
(*                                                                            *)
(* A reply is [blocks, hides]. `hides` is a gateway that does not forward the *)
(* events opening a block (a text block of Anthropic, a call of Responses).   *)
EXTENDS ProviderWire, FiniteSetsExt

Event(k, i) == [k |-> k, i |-> i]

AnthropicEvents(r, i) ==
  LET b == r.blocks[i] IN
  (IF IsText(b) /\ r.hides THEN <<>> ELSE <<Event("open", i)>>)
  \o (IF b.t = "redacted" THEN <<>> ELSE <<Event("piece", i)>>)
  \o (IF b.t = "think" THEN <<Event("sign", i)>> ELSE <<>>)

\* The name of a call arrives with the first of its chunks.
ChatEvents(r, i) ==
  IF IsCall(r.blocks[i]) THEN <<Event("open", i), Event("piece", i)>> ELSE <<Event("piece", i)>>

ResponsesEvents(r, i) ==
  CASE (IsCall(r.blocks[i]) /\ r.hides) \/ r.blocks[i].t = "redacted" -> <<>>
    [] IsCall(r.blocks[i]) /\ ~r.hides -> <<Event("open", i), Event("piece", i)>>
    [] OTHER -> <<Event("piece", i)>>

\* The events of a whole stream; `stop` is message_stop, the usage chunk or
\* response.completed.
Events(p, r) ==
  LET of(i) == CASE p = "anthropic" -> AnthropicEvents(r, i)
                 [] p = "chat" -> ChatEvents(r, i)
                 [] p = "responses" -> ResponsesEvents(r, i)
      body == FlattenSeq([i \in DOMAIN r.blocks |-> of(i)])
      first == IF p = "anthropic" THEN <<Event("begin", 0)>> ELSE <<>>
      last == IF p = "responses" THEN <<Event("stop", 0)>>
              ELSE <<Event("finish", 0), Event("stop", 0)>>
  IN first \o body \o last

\* The terminator of a stream of which n events came. A finish_reason is enough
\* for Chat Completions, whose [DONE] the SDK does not yield.
SawTerminator(p, r, n) ==
  \E j \in 1..n : LET e == Events(p, r)[j] IN
    e.k = "stop" \/ (p = "chat" /\ e.k = "finish")

-----------------------------------------------------------------------------
(* Deltas: [src, k, i, b], and the final one with the authoritative blocks *)

Delta(s, k, i, b) == [src |-> s, k |-> k, i |-> i, b |-> b, blocks |-> <<>>, calls |-> <<>>]
NoBlock == Block("none", 0, FALSE, "none")

\* _ordered_blocks: the blocks opened so far, in the provider's order; a text
\* delta of a block that never opened is in none of them.
OrderedBlocks(p, r, n) ==
  LET seen(k, i) == \E j \in 1..n : Events(p, r)[j] = Event(k, i)
  IN FlattenSeq([i \in DOMAIN r.blocks |->
       IF seen("open", i) THEN <<r.blocks[i]>> ELSE <<>>])

\* Anthropic's terminal delta carries the block list of a thinking turn.
AnthropicFinal(s, r, n) ==
  LET bs == OrderedBlocks("anthropic", r, n) IN
  <<[Delta(s, "final", 0, NoBlock) EXCEPT !.blocks = IF HasThinking(bs) THEN bs ELSE <<>>]>>

\* _unstreamed_call_deltas: the calls no event opened, whole.
UnstreamedCallDeltas(s, r) ==
  IF ~r.hides THEN <<>>
  ELSE FlattenSeq([i \in DOMAIN r.blocks |->
         IF IsCall(r.blocks[i])
         THEN <<Delta(s, "open", i, r.blocks[i]), Delta(s, "piece", i, r.blocks[i])>>
         ELSE <<>>])

\* The completed response of the Responses API is authoritative.
ResponsesFinal(s, r) ==
  LET whole == ToLLMResponse("responses", r.blocks) IN
  UnstreamedCallDeltas(s, r)
  \o <<[Delta(s, "final", 0, NoBlock) EXCEPT
          !.blocks = IF whole.raw THEN whole.content ELSE <<>>, !.calls = <<whole.calls>>]>>

\* The deltas the client yields for the n-th event.
Deltas(p, s, r, n) ==
  LET e == Events(p, r)[n]
      b == IF e.i = 0 THEN NoBlock ELSE r.blocks[e.i] IN
  CASE e.k = "piece" -> <<Delta(s, "piece", e.i, b)>>
    [] e.k = "open" -> IF IsCall(b) THEN <<Delta(s, "open", e.i, b)>> ELSE <<>>
    [] e.k = "stop" /\ p = "responses" -> ResponsesFinal(s, r)
    [] e.k \in {"stop", "finish"} /\ p = "chat" -> <<Delta(s, e.k, 0, NoBlock)>>
    [] OTHER -> <<>>

\* What the client yields once the events ended: Anthropic's terminal delta.
EndDeltas(p, s, r, n) == IF p = "anthropic" THEN AnthropicFinal(s, r, n) ELSE <<>>

\* Usage the stream reported in its first n events: message_start of Anthropic,
\* the last event of the others. A reply without a block reports none.
ReportedUsage(p, r, n) ==
  r.blocks # <<>>
  /\ \E j \in 1..n : Events(p, r)[j].k = IF p = "anthropic" THEN "begin" ELSE "stop"

\* stream_delta_has_completion_signal: output, a named call or reported usage.
HasCompletionSignal(d, usage) ==
  \/ d.k = "piece" /\ ~IsCall(d.b)
  \/ d.k = "open" /\ d.b.named
  \/ d.blocks # <<>>
  \/ d.k \in {"stop", "final"} /\ usage

-----------------------------------------------------------------------------
(* _stream_llm_response: the fold of the deltas *)

\* StreamToolCalls: slots by index, the last id of a slot, a name from any of its
\* deltas; a slot that never got a name is dropped.
CompleteToolCalls(ds) ==
  LET opens(i) == SelectSeq(ds, LAMBDA d : d.k = "open" /\ d.i = i)
      named(i) == \E j \in DOMAIN opens(i) : opens(i)[j].b.named
      slots == {i \in {ds[j].i : j \in DOMAIN ds} : opens(i) # <<>> /\ named(i)}
      order == SetToSortSeq(slots, <)
  IN [k \in DOMAIN order |-> [Last(opens(order[k])).b EXCEPT !.named = TRUE]]

\* _assembled_response: a block list wins over the text, and is given the text
\* that was streamed when it holds none.
AssembledResponse(ds) ==
  LET finals == SelectSeq(ds, LAMBDA d : d.blocks # <<>>)
      blocks == IF finals = <<>> THEN <<>> ELSE Last(finals).blocks
      own == SelectSeq(ds, LAMBDA d : d.calls # <<>>)
      pieces == SelectSeq(ds, LAMBDA d : d.k = "piece" /\ ~IsCall(d.b))
      said == [j \in DOMAIN pieces |-> pieces[j].b]
      text == SelectSeq(said, IsText)
  IN [raw |-> blocks # <<>>,
      content |-> CASE blocks = <<>> -> text
                    [] blocks # <<>> /\ \E i \in DOMAIN blocks : IsText(blocks[i]) -> blocks
                    [] OTHER -> blocks \o text,
      calls |-> IF own # <<>> THEN Last(own).calls[1] ELSE CompleteToolCalls(ds),
      reasoning |-> SelectSeq(said, IsThinking)]

\* is_wholly_empty_response, of a response without reported usage
WhollyEmpty(r) == r.content = <<>> /\ r.calls = <<>> /\ r.reasoning = <<>>
=============================================================================
