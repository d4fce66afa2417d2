---------------------------- MODULE ToolProtocol ----------------------------
(***************************************************************************)
(* The message list of the agent loop and the functions that edit it       *)
(* (runtime/loop/agent_loop.py, runtime/loop/compact.py).  A message keeps *)
(* its role, the tool calls an assistant message records, the id a tool    *)
(* message answers, and the reply its text came from; bodies are left out. *)
(* A call id is native when the provider issued it: only then does the     *)
(* assistant message record the call.                                      *)
(***************************************************************************)
EXTENDS Integers, Sequences, FiniteSets, FiniteSetsExt, SequencesExt

NoText == 0

SystemMsg == [role |-> "system"]
\* tag: "task" (the first prompt), "continue" (asked to resume a cut reply),
\* "compacted" (a compaction summary), "note" (anything else).
UserMsg(tag) == [role |-> "user", tag |-> tag]
AssistantMsg(calls, text, cut) ==
  [role |-> "assistant", calls |-> calls, text |-> text, cut |-> cut]
\* ran: the body is a real result, not a synthetic answer.
ToolMsg(id, ran) == [role |-> "tool", id |-> id, ran |-> ran]

IsTool(m) == m.role = "tool"
IsAssistant(m) == m.role = "assistant"
IdsOf(calls) == {calls[k].id : k \in DOMAIN calls}
Answers(calls) == [k \in DOMAIN calls |-> ToolMsg(calls[k].id, FALSE)]
Answered(messages) == {m.id : m \in {n \in ToSet(messages) : IsTool(n)}}

\* Index of the last assistant message, 0 when there is none.
LastAssistant(messages) ==
  Max({0} \cup {i \in DOMAIN messages : IsAssistant(messages[i])})

\* Last index of the run of tool messages that follows index i.
ToolsEnd(messages, i) ==
  Max({e \in i..Len(messages) : \A k \in (i + 1)..e : IsTool(messages[k])})

\* (Faulty variant: a call the parser dropped is not answered.)
AnswerDroppedToolCalls_KnownOnly(messages, recorded, parsed) ==
  messages \o Answers(SelectSeq(recorded,
    LAMBDA c : /\ c.id \notin Answered(messages) \cup IdsOf(parsed)
               /\ c.name # "unknown"))

\* _answer_dropped_tool_calls: recorded calls that will not be dispatched.
AnswerDroppedToolCalls(messages, recorded, parsed) ==
  messages \o Answers(SelectSeq(recorded,
    LAMBDA c : c.id \notin Answered(messages) \cup IdsOf(parsed)))

\* _answer_unexecuted_tool_calls: answers are inserted beneath the last
\* assistant message, whatever was injected after it.
AnswerUnexecutedToolCalls(messages) ==
  LET i == LastAssistant(messages)
      e == ToolsEnd(messages, i)
      open == SelectSeq(messages[i].calls,
                LAMBDA c : c.id \notin Answered(SubSeq(messages, i + 1, Len(messages))))
  IN  IF i = 0 THEN messages
      ELSE SubSeq(messages, 1, e) \o Answers(open) \o SubSeq(messages, e + 1, Len(messages))

\* _pop_last_assistant_turn: the message goes with its answers, later
\* injections stay.
PopLastAssistantTurn(messages) ==
  LET i == LastAssistant(messages)
  IN  IF i = 0 THEN messages
      ELSE SubSeq(messages, 1, i - 1)
             \o SubSeq(messages, ToolsEnd(messages, i) + 1, Len(messages))

\* The pop of _handle_context_overflow: trailing tool messages, then the
\* message before them if it is an assistant's.
PopOverflow(messages) ==
  LET kept == Max({0} \cup {i \in DOMAIN messages : ~IsTool(messages[i])})
  IN  IF kept > 0 /\ IsAssistant(messages[kept])
      THEN SubSeq(messages, 1, kept - 1) ELSE SubSeq(messages, 1, kept)

\* _reset_signed_thinking_history: an assistant message left without content
\* and calls goes.
ResetSignedThinkingHistory(messages) ==
  SelectSeq(messages,
    LAMBDA m : ~(IsAssistant(m) /\ m.calls = <<>> /\ m.text = NoText))

---------------------------------------------------------------------------
\* partition_for_compaction and compact_messages.

\* (Faulty variant: the cut is not moved off tool messages.)
SplitIndex_Raw(rest, keep) == Len(rest) - keep

\* How many messages of rest are summarised: never a cut that leaves a tool
\* message at the head of what is kept.
SplitIndex(rest, keep) ==
  LET split == Len(rest) - keep
      after == {f \in split..(Len(rest) - 1) : ~IsTool(rest[f + 1])}
      before == {f \in 1..split : ~IsTool(rest[f + 1])}
  IN  IF after # {} THEN Min(after)
      ELSE IF split = Len(rest) THEN split
      ELSE Max({0} \cup before)

CompactMessages(messages, keep) ==
  LET systems == Max({k \in 0..Len(messages) : \A i \in 1..k : messages[i].role = "system"})
      body == SubSeq(messages, systems + 1, Len(messages))
      pinned == /\ keep > 0
                /\ body # <<>>
                /\ body[1].role = "user"
                /\ body[1].tag # "compacted"
      head == systems + IF pinned THEN 1 ELSE 0
      rest == SubSeq(messages, head + 1, Len(messages))
      split == SplitIndex(rest, keep)
  IN  IF Len(body) <= keep \/ Len(rest) <= keep \/ split = 0 THEN messages
      ELSE SubSeq(messages, 1, head) \o <<UserMsg("compacted")>>
             \o SubSeq(rest, split + 1, Len(rest))

---------------------------------------------------------------------------
\* What a provider accepts (has_malformed_tool_protocol), for native ids:
\* every recorded call is answered exactly once directly beneath its
\* assistant message, and no answer stands anywhere else.
Replayable(messages) ==
  /\ \A i \in {j \in DOMAIN messages : IsAssistant(messages[j])} :
       LET block == (i + 1)..ToolsEnd(messages, i)
       IN  \A c \in ToSet(messages[i].calls) :
             Cardinality({k \in block : messages[k].id = c.id}) = 1
  /\ \A k \in {j \in DOMAIN messages : IsTool(messages[j])} :
       messages[k].id.native =>
         \E i \in 1..(k - 1) : /\ IsAssistant(messages[i])
                               /\ k <= ToolsEnd(messages, i)
                               /\ messages[k].id \in IdsOf(messages[i].calls)
=============================================================================
