---------------------------- MODULE ProviderTurns ----------------------------
(* The turns of a conversation through a provider stack: the client's request, *)
(* the reader task behind stream_events_with_activity, the fallback wrapper,   *)
(* the loop's assembler and the history the next request is made of.           *)
(*                                                                             *)
(* External: the provider. It signs thinking under the conversation it was     *)
(* shown and may refuse a request that shows another one.                      *)
EXTENDS StreamAdapter

CONSTANTS
  Stacks,        \* stacks to try, [p, wrap, streams, turns, keep, strict]: protocol, wrapper,
                 \* the turns asked for as a stream, all turns, chat's thinking_in_history, AGENT_CORE_STREAM_REQUIRE_TERMINATOR
  Templates,     \* per protocol, the replies a provider may give (block ids count up from 1)
  MaxAttempts,   \* attempts call_llm makes of one turn
  MaxRetries,    \* CooldownFallbackLLM.max_retries
  MaxPings,      \* chunks of a stream that complete no event
  MaxCompactions \* times the history is shortened

Wrappers == {"none", "chain", "cooldown"}
Legs == 2

ValidStack(s) ==
  /\ s.p \in Protocols /\ s.wrap \in Wrappers /\ {s.keep, s.strict} \subseteq BOOLEAN
  /\ s.turns \in Nat \ {0} /\ s.streams \subseteq 1..s.turns

ASSUME ProviderTurnsAssumption ==
  /\ \A s \in Stacks : ValidStack(s)
  /\ {MaxAttempts, MaxRetries} \subseteq Nat \ {0}
  /\ {MaxPings, MaxCompactions} \subseteq Nat

VARIABLES
  stack,   \* the stack of this conversation
  hist,    \* the durable history
  call,    \* the logical call: turn, pc, attempt, leg, tries, start, cooling,
           \* error, reset, answer
  wire,    \* the request sent, the cached prefix of the one before, refusals
  stream,  \* the open stream: reply, parsed events, fate, pings
  pump,    \* the reader's queue and the consumer it feeds
  out,     \* what reached the consumer: deltas, held ones, replies and fates by source
  signed   \* per signed block, the blocks it was signed under

vars == <<stack, hist, call, wire, stream, pump, out, signed>>

NoReply == [blocks |-> <<>>, hides |-> FALSE]
NoStream == [reply |-> NoReply, parsed |-> 0, fate |-> "none", pings |-> 0]
NoPump == [backlog |-> <<>>, queue |-> <<>>, pend |-> FALSE, busy |-> FALSE, stale |-> FALSE]
NoOut == [got |-> <<>>, held |-> <<>>, committed |-> FALSE, yielded |-> FALSE,
          replies |-> <<>>, fates |-> <<>>]

Init ==
  /\ stack \in Stacks
  /\ hist = <<UserMsg(1)>>
  /\ call = [turn |-> 0, pc |-> "idle", attempt |-> 0, leg |-> 1, tries |-> 0, start |-> 1,
             cooling |-> FALSE, error |-> "none", reset |-> FALSE, answer |-> <<>>]
  /\ wire = [msgs |-> <<>>, cached |-> <<>>, prev |-> <<>>, refusals |-> 0, compactions |-> 0]
  /\ stream = NoStream
  /\ pump = NoPump
  /\ out = NoOut
  /\ signed = {}

p == stack.p

TypeOK ==
  /\ stack \in Stacks
  /\ call.pc \in {"idle", "leg", "flow", "failed"}
  /\ call.leg \in 1..Legs /\ call.attempt \in 0..MaxAttempts /\ call.tries \in 0..(MaxRetries - 1)
  /\ Len(pump.queue) <= 1

-----------------------------------------------------------------------------
(* The request *)

\* External: a signature holds where the blocks before its message are the ones
\* it was made under. A request that shows another conversation is refused.
SignaturesHold(msgs) ==
  \A i \in DOMAIN msgs : \A b \in {msgs[i].blocks[j] : j \in DOMAIN msgs[i].blocks} :
    \A g \in signed : (IsThinking(b) /\ g.id = b.id) => g.under = Flat(SubSeq(msgs, 1, i - 1))

\* Where a call starts: the fallback during the cooldown, a logical call's cursor.
FirstLeg(c) == IF stack.wrap = "cooldown" /\ c.cooling THEN 2
               ELSE IF stack.wrap = "chain" THEN c.start ELSE 1

\* _build_kwargs and _create_message: a refused signature is retried once
\* without the historical thinking. for_logical_call takes a fresh cursor.
Begin ==
  /\ call.pc = "idle" /\ call.turn < stack.turns
  /\ \E extra \in {<<>>, <<Addendum>>} :
     \E req \in {Request(p, hist \o extra)} :
     \E refused \in {p = "anthropic" /\ ~SignaturesHold(req.msgs)} :
     \E sent \in {IF refused THEN WithoutThinkingBlocks(req) ELSE req} :
       /\ wire' = [wire EXCEPT !.msgs = sent.msgs, !.cached = sent.cached, !.prev = wire.cached,
                               !.refusals = @ + (IF refused THEN 1 ELSE 0)]
       /\ call' = [call EXCEPT !.pc = "leg", !.attempt = 1, !.tries = 0, !.start = 1, !.error = "none",
                               !.leg = FirstLeg([call EXCEPT !.start = 1]), !.reset = refused,
                               !.answer = <<>>]
  /\ out' = NoOut
  /\ UNCHANGED <<stack, hist, stream, pump, signed>>

\* The reply a leg gives, its ids those of this turn and leg.
Replies ==
  {[t EXCEPT !.blocks = [i \in DOMAIN @ |-> [@[i] EXCEPT !.id = 100 * call.turn + 10 * call.leg + i]]] :
     t \in Templates[p]}

-----------------------------------------------------------------------------
(* The history *)

\* The loop keeps the turn and answers each of its calls, or asks for more.
Answers(m) ==
  IF m.calls = <<>> THEN <<UserMsg(100 * call.turn + 99)>>
  ELSE [i \in DOMAIN m.calls |-> ToolMsg(m.calls[i].id)]

\* _process_llm_response: the reset precedes the turn.
Kept(r) ==
  LET m == ToHistory(p, stack.keep, r)
      before == IF call.reset THEN ResetSignedThinkingHistory(hist) ELSE hist
  IN before \o <<m>> \o Answers(m)

\* The response is the turn's; what the provider signed, it signed under the
\* blocks of the request that will be sent again.
Deliver(r, o, c) ==
  /\ hist' \in {Kept(r)}
  /\ signed' = signed \cup
       {[id |-> b.id, under |-> wire.cached] :
          b \in {x \in {r.content[j] : j \in DOMAIN r.content} : p = "anthropic" /\ IsThinking(x)}}
  /\ call' = [c EXCEPT !.pc = "idle", !.turn = @ + 1, !.attempt = 0, !.answer = <<r>>]
  /\ out' = o
  /\ stream' = NoStream /\ pump' = NoPump
  /\ UNCHANGED <<stack, wire>>

\* Compaction between two turns: a summary stands for the oldest turn.
Compact ==
  LET turns == {i \in DOMAIN hist : hist[i].role = "asst"} IN
  /\ call.pc = "idle" /\ wire.compactions < MaxCompactions
  /\ Cardinality(turns) > 1
  /\ LET next == Min(turns \ {Min(turns)}) IN
     hist' = SubSeq(hist, 1, Min(turns) - 1) \o <<UserMsg(2 + wire.compactions)>>
             \o SubSeq(hist, next, Len(hist))
  /\ wire' = [wire EXCEPT !.compactions = @ + 1, !.cached = <<>>]
  /\ UNCHANGED <<stack, call, stream, pump, out, signed>>

-----------------------------------------------------------------------------
(* The fallback wrapper: what follows the failure e of a leg *)

Source == Len(out.replies)

\* call_llm: the attempt is given up and another one made of the turn.
AttemptFails(e, c) ==
  LET again == e # "fatal" /\ c.attempt < MaxAttempts IN
  /\ call' = [c EXCEPT !.pc = IF again THEN "leg" ELSE "failed", !.tries = 0,
                       !.attempt = IF again THEN @ + 1 ELSE @, !.leg = FirstLeg(c),
                       !.error = "none"]
  /\ out' = NoOut

\* What the consumer already has of a failed stream stays with it.
Passed(o) ==
  IF o.got = <<>> THEN NoOut
  ELSE [o EXCEPT !.held = <<>>, !.committed = FALSE, !.yielded = FALSE]

NextLeg(c, o) ==
  /\ call' = [c EXCEPT !.pc = "leg", !.leg = @ + 1, !.tries = 0,
                       !.start = IF stack.wrap = "chain" THEN c.leg + 1 ELSE @]
  /\ out' = Passed(o)

\* (Faulty variant: a stream that failed after output falls through too.)
ChainFails_Combines(e, o) ==
  \/ call.leg = Legs /\ AttemptFails(e, call)
  \/ call.leg < Legs /\ NextLeg(call, o)

\* LLMFallbackChain.stream: no failover once output reached the consumer.
ChainFails(e, o) ==
  \/ (o.yielded \/ call.leg = Legs) /\ AttemptFails(e, call)
  \/ ~o.yielded /\ call.leg < Legs /\ NextLeg(call, o)

\* The primary is left for the fallback and its cooldown starts.
Degrade(e, o) == NextLeg([call EXCEPT !.cooling = TRUE, !.error = e], o)

\* A fallback that fails after the primary raises the primary's error.
LastError(e) == IF call.error = "none" THEN e ELSE call.error

\* CooldownFallbackLLM.stream (replay_partial_stream off, the default policy:
\* everything but "fatal" is retryable).
CooldownFails(e, o) ==
  LET truncated == o.yielded /\ e = "truncated" IN
  \/ call.leg = Legs /\ AttemptFails(LastError(e), call)
  \/ call.leg < Legs /\ truncated /\ AttemptFails(e, call)
  \/ /\ call.leg < Legs /\ ~truncated
     /\ e = "fatal" \/ o.yielded \/ call.tries + 1 >= MaxRetries
     /\ Degrade(e, o)
  \/ /\ call.leg < Legs /\ e # "fatal" /\ ~o.yielded /\ call.tries + 1 < MaxRetries
     /\ call' = [call EXCEPT !.pc = "leg", !.tries = @ + 1]
     /\ out' = Passed(o)

LegFails(e, o) ==
  /\ \/ stack.wrap = "none" /\ AttemptFails(e, call)
     \/ stack.wrap = "chain" /\ ChainFails(e, o)
     \/ stack.wrap = "cooldown" /\ CooldownFails(e, o)
  /\ stream' = NoStream /\ pump' = NoPump
  /\ UNCHANGED <<stack, hist, wire, signed>>

\* The cooldown window is over.
CooldownEnds ==
  /\ call.pc = "idle" /\ call.cooling
  /\ call' = [call EXCEPT !.cooling = FALSE]
  /\ UNCHANGED <<stack, hist, wire, stream, pump, out, signed>>

\* call_llm refuses an empty response.
Emptied ==
  /\ AttemptFails("empty", call)
  /\ stream' = NoStream /\ pump' = NoPump
  /\ UNCHANGED <<stack, hist, wire, signed>>

\* Chat: the whole reply, or what the request raises. A blank reply of the
\* primary is the cooldown wrapper's to refuse, any other one call_llm's.
Chat ==
  /\ call.pc = "leg" /\ call.turn + 1 \notin stack.streams
  /\ \/ \E e \in {"reset", "fatal"} : LegFails(e, out)
     \/ \E r \in Replies : \E whole \in {ToLLMResponse(p, r.blocks)} :
        \/ WhollyEmpty(whole) /\ stack.wrap = "cooldown" /\ call.leg < Legs
           /\ LegFails("empty", out)
        \/ WhollyEmpty(whole) /\ ~(stack.wrap = "cooldown" /\ call.leg < Legs)
           /\ Emptied
        \/ ~WhollyEmpty(whole) /\ Deliver(whole, NoOut, call)

-----------------------------------------------------------------------------
(* The stream: reader task, queue of one, consumer *)

Nothing == [n |-> 0, had |-> TRUE]   \* None: transport activity
TheEnd == [n |-> -1, had |-> FALSE]  \* the reader's end marker

Open ==
  /\ call.pc = "leg" /\ call.turn + 1 \in stack.streams
  /\ \E r \in Replies :
       /\ stream' = [reply |-> r, parsed |-> 0, fate |-> "open", pings |-> 0]
       /\ out' = [out EXCEPT !.replies = Append(@, r), !.fates = Append(@, "open")]
  /\ pump' = NoPump
  /\ call' = [call EXCEPT !.pc = "flow"]
  /\ UNCHANGED <<stack, hist, wire, signed>>

Runnable == ~pump.busy /\ pump.queue # <<>>

\* The reader awaits the socket. The event loop runs what is ready, the flush
\* and a woken consumer, before it looks at the socket again.
Reading ==
  /\ call.pc = "flow" /\ stream.fate = "open"
  /\ pump.backlog = <<>> /\ ~pump.pend /\ ~Runnable

\* The reader puts what it has; the second item waits for the queue's place.
Put(items) ==
  IF pump.queue = <<>> /\ items # <<>>
  THEN [pump EXCEPT !.queue = <<Head(items)>>, !.backlog = Tail(items)]
  ELSE [pump EXCEPT !.backlog = items]

\* on_bytes, then the events the bytes complete. The first event of a chunk
\* carries its progress; a chunk that completes none is left to the flush.
Chunk(k) ==
  LET items == [j \in 1..k |-> [n |-> stream.parsed + j, had |-> j = 1]] IN
  /\ Reading
  /\ stream.parsed + k <= Len(Events(p, stream.reply))
  /\ k = 0 => stream.pings < MaxPings
  /\ pump' = [Put(items) EXCEPT !.pend = (k = 0), !.stale = TRUE]
  /\ stream' = [stream EXCEPT !.parsed = @ + k, !.pings = @ + (IF k = 0 THEN 1 ELSE 0)]
  /\ UNCHANGED <<stack, hist, call, wire, out, signed>>

\* flush_activity
Flush ==
  /\ call.pc = "flow" /\ pump.pend
  /\ pump' = [pump EXCEPT !.pend = FALSE,
                          !.queue = IF @ = <<>> THEN <<Nothing>> ELSE @]
  /\ UNCHANGED <<stack, hist, call, wire, stream, out, signed>>

\* The blocked reader gets its place.
PutWaiting ==
  /\ call.pc = "flow" /\ pump.backlog # <<>> /\ pump.queue = <<>>
  /\ pump' = [pump EXCEPT !.queue = <<Head(pump.backlog)>>, !.backlog = Tail(@)]
  /\ UNCHANGED <<stack, hist, call, wire, stream, out, signed>>

\* The response body ends, whole or short of events, or the connection fails.
Close ==
  LET whole == stream.parsed = Len(Events(p, stream.reply)) IN
  /\ Reading
  /\ \E fate \in {IF whole THEN "done" ELSE "cut", "reset", "fatal"} :
       /\ stream' = [stream EXCEPT !.fate = fate]
       /\ out' = [out EXCEPT !.fates[Source] = fate]
  /\ pump' = Put(<<TheEnd>>)
  /\ UNCHANGED <<stack, hist, call, wire, signed>>

\* _nonempty_stream holds deltas back until one of them is a completion signal.
Held == stack.wrap = "cooldown" /\ ~out.committed

Forward(o, ds) ==
  LET usage == ReportedUsage(p, stream.reply, stream.parsed)
      signal == \E j \in DOMAIN ds : HasCompletionSignal(ds[j], usage)
      all == o.held \o ds IN
  IF Held /\ ~signal THEN [o EXCEPT !.held = all]
  ELSE [o EXCEPT !.got = @ \o all, !.held = <<>>, !.committed = TRUE,
                 !.yielded = @ \/ all # <<>>]

\* Whether the assembler sees the item: a delta, or the activity of an event that
\* gave none (mark_output was not called).
Progress(item, ds, o) ==
  \/ o.got # out.got
  \/ ds = <<>> /\ item.had

\* The consumer takes an item and hands on what it makes of it; on_delta may
\* suspend it.
Take ==
  /\ call.pc = "flow" /\ Runnable /\ Head(pump.queue).n >= 0
  /\ \E item \in {Head(pump.queue)} :
     \E ds \in {IF item.n = 0 THEN <<>> ELSE Deltas(p, Source, stream.reply, item.n)} :
     \E o \in {IF ds = <<>> THEN out ELSE Forward(out, ds)} :
       /\ out' = o
       /\ pump' = [pump EXCEPT !.queue = <<>>, !.busy = Progress(item, ds, o)]
  /\ UNCHANGED <<stack, hist, call, wire, stream, signed>>

\* The assembler re-arms its watchdog and asks for the next delta.
Rearm ==
  /\ call.pc = "flow" /\ pump.busy
  /\ pump' = [pump EXCEPT !.busy = FALSE, !.stale = FALSE]
  /\ UNCHANGED <<stack, hist, call, wire, stream, out, signed>>

\* A stream that ended without its terminator is an error, unless the
\* environment accepts it.
Truncated == stack.strict /\ ~SawTerminator(p, stream.reply, stream.parsed)

\* _nonempty_stream raises when no delta was a signal; the assembler refuses a
\* response without content or usage.
Unheard(o) == Held /\ ~o.committed
Blank(r) == WhollyEmpty(r) /\ ~ReportedUsage(p, stream.reply, stream.parsed)

\* The end marker: the reader's error, a missing terminator, or the terminal
\* deltas and with them the assembled response.
EndOfStream ==
  /\ call.pc = "flow" /\ Runnable /\ Head(pump.queue) = TheEnd
  /\ \/ stream.fate \in {"reset", "fatal"} /\ LegFails(stream.fate, out)
     \/ /\ stream.fate \in {"done", "cut"} /\ Truncated
        /\ LegFails("truncated", out)
     \/ /\ stream.fate \in {"done", "cut"} /\ ~Truncated
        /\ \E o \in {Forward(out, EndDeltas(p, Source, stream.reply, stream.parsed))} :
           \E r \in {AssembledResponse(o.got)} :
             \/ Unheard(o) /\ LegFails("empty", o)
             \/ ~Unheard(o) /\ Blank(r) /\ Emptied
             \/ ~Unheard(o) /\ ~Blank(r) /\ Deliver(r, o, call)

\* (Faulty variant: the watchdog is armed by the first delta.)
Stall_AfterOutput ==
  /\ Reading /\ ~pump.busy /\ out.got # <<>>
  /\ AttemptFails("stall", call)
  /\ stream' = NoStream /\ pump' = NoPump
  /\ UNCHANGED <<stack, hist, wire, signed>>

\* The watchdog of a silent stream cancels through the wrapper, which does not
\* get to handle it.
Stall ==
  /\ Reading /\ ~pump.busy
  /\ AttemptFails("stall", call)
  /\ stream' = NoStream /\ pump' = NoPump
  /\ UNCHANGED <<stack, hist, wire, signed>>

Finished ==
  /\ call.pc = "failed" \/ (call.pc = "idle" /\ call.turn = stack.turns)
  /\ UNCHANGED vars

Next ==
  \/ Begin \/ Compact \/ CooldownEnds
  \/ Chat \/ Open
  \/ \E k \in 0..2 : Chunk(k)
  \/ Flush \/ PutWaiting \/ Close \/ Take \/ Rearm \/ EndOfStream \/ Stall
  \/ Finished

Spec == Init /\ [][Next]_vars

\* What is ready runs, and a silent stream is noticed by the watchdog. Nothing makes
\* the provider send: its chunks and the end of its stream are not fair.
Progressing ==
  \/ Rearm \/ Flush \/ PutWaiting \/ Take \/ Stall
  \/ Open \/ Chat \/ EndOfStream

FairSpec == Spec /\ WF_vars(Progressing)

-----------------------------------------------------------------------------
(* Properties *)

Requested == call.pc \in {"leg", "flow", "failed"}
Delivered == call.pc = "idle" /\ call.answer # <<>>

\* What was sent, block by block.
Items == Flat(wire.msgs)

\* The calls the history holds without a name; two of the protocols cannot send them.
Unsendable ==
  IF p = "chat" THEN {}
  ELSE UNION {{c.id : c \in {x \in Range(hist[i].calls) : ~x.named}} : i \in DOMAIN hist}

\* Every call in a request is answered once, before anything else is said, and every
\* answer has its call; Anthropic gets the answers of a turn in the one message
\* after it (anthropic.py _merge_tool_results, openai_chat.py _sanitize_tool_call_names).
Answered ==
  Requested =>
    /\ \A i \in DOMAIN Items : IsCall(Items[i]) =>
         \E j \in DOMAIN Items :
           /\ j > i /\ Items[j] = Result(Items[i].id)
           /\ \A k \in (i + 1)..(j - 1) : IsText(Items[k]) => Items[k].id \div 10 = Items[i].id \div 10
    /\ \A j \in DOMAIN Items : IsResult(Items[j]) =>
         \/ Items[j].id \in Unsendable
         \/ \E i \in 1..(j - 1) : IsCall(Items[i]) /\ Items[i].id = Items[j].id
    /\ p = "anthropic" =>
         \A m \in DOMAIN wire.msgs :
           LET calls == Ids(SelectSeq(wire.msgs[m].blocks, IsCall)) IN
           calls # {} => /\ m < Len(wire.msgs)
                         /\ calls \subseteq Ids(SelectSeq(wire.msgs[m + 1].blocks, IsResult))

\* A signed turn is sent again as the provider made it: its calls and its thinking in
\* the order of the reply, whether it was streamed or not, all of its thinking or,
\* once a signature was refused, none of any turn (anthropic.py _to_anthropic_msg).
SignedInOrder ==
  (Requested /\ p = "anthropic") =>
    /\ \A m \in DOMAIN wire.msgs : HasThinking(wire.msgs[m].blocks) =>
         LET own == SelectSeq(wire.msgs[m].blocks, LAMBDA b : ~IsText(b)) IN
         \A i, j \in DOMAIN own : i < j => own[i].id < own[j].id
    /\ Ids(SelectSeq(Items, IsThinking))
         = IF call.reset THEN {}
           ELSE UNION {Ids(SelectSeq(hist[i].blocks, IsThinking)) : i \in DOMAIN hist}

\* What one request marked for the cache begins the next one, unless the history was
\* compacted or its thinking refused in between (anthropic.py _add_prompt_cache).
CacheReused ==
  (Requested /\ p = "anthropic" /\ ~call.reset) => IsPrefix(wire.prev, Items)

\* A conversation is refused once for each time it was shortened: the recovery the
\* client made is in the history the next request is made of
\* (agent_loop.py _reset_signed_thinking_history).
RecoveryKept == wire.refusals <= wire.compactions

\* Every request is one its provider accepts and has in its cache: calls answered,
\* signed thinking in order, the marked prefix sent again, and a recovery from a
\* refusal not undone by the next request.
RequestsWellFormed == Answered /\ SignedInOrder /\ CacheReused /\ RecoveryKept

\* The replies of which the delivered response holds something.
Sources == {out.got[i].src : i \in DOMAIN out.got}

\* The response of a reply that was not streamed, as the stream's assembler has it:
\* a call without a name is dropped, the text of an unopened block comes last.
Expected(r) ==
  LET whole == ToLLMResponse(p, r.blocks) IN
  IF p = "responses" THEN whole
  ELSE [whole EXCEPT
          !.calls = SelectSeq(@, LAMBDA c : c.named),
          !.content = IF whole.raw /\ r.hides
                      THEN SelectSeq(@, LAMBDA b : ~IsText(b)) \o SelectSeq(@, IsText) ELSE @]

\* A streamed turn is the turn chat would have given: however its events were cut into
\* chunks and queued, a stream that is not whole is no answer where a terminator is
\* required (_streaming.py _assembled_response, LLMTruncatedStream).
StreamedAsWhole ==
  (Delivered /\ call.turn \in stack.streams /\ stack.strict /\ Cardinality(Sources) = 1) =>
    \A s \in Sources : call.answer = <<Expected(out.replies[s])>>

\* No answer is put together from two replies, except by the cooldown wrapper after a
\* connection failed; never after a stream was cut (fallback.py, both stream methods).
OneSource ==
  Delivered => \A s \in Sources : s < Source =>
    /\ stack.wrap = "cooldown"
    /\ out.fates[s] \in {"reset", "fatal"}

\* While the assembler waits for a delta, every byte that came before is accounted for
\* in its watchdog, except those of deltas the wrapper still holds back
\* (_stream_activity.py stream_events_with_activity).
BytesKeepAlive ==
  /\ call.pc = "flow" /\ ~pump.busy /\ ~pump.pend
  /\ pump.queue = <<>> /\ pump.backlog = <<>> /\ out.held = <<>>
  => ~pump.stale

\* A stream is worth its reply: the same turn as without streaming, from one
\* reply, and not given up while bytes arrive.
StreamFaithful == StreamedAsWhole /\ OneSource /\ BytesKeepAlive

\* A call that was made returns, with an answer or an error: a lost wake-up between
\* the reader, its queue of one and the consumer, or a silent stream, would hang it.
TurnsEnd == call.pc = "leg" ~> call.pc \in {"idle", "failed"}
=============================================================================
