----------------------------- MODULE AgentLoop ------------------------------
(***************************************************************************)
(* run_agent_loop (runtime/loop/agent_loop.py): the turn engine.  One pass *)
(* of the while loop is an attempt: prepare the request, call the model,   *)
(* process the reply, run its tools concurrently (tool_exec.py), end the   *)
(* turn with observers, compaction, checkpoint and pause probe.  Replays   *)
(* give the turn back, so attempts, not turns, bound the loop.             *)
(*                                                                         *)
(* The loop is one coroutine; what runs beside it are the tools of the     *)
(* batch, the host's stop requests and a cancellation.                     *)
(***************************************************************************)
EXTENDS ToolProtocol, LoopObservers

CONSTANTS
  MaxTurns, ExtraAttempts,    \* cfg.max_turns, EXTRA_ATTEMPTS_BUFFER
  Cap,                        \* max_tool_calls_per_turn
  NoToolBehavior, NoToolMax,  \* no_tool_behavior, no_tool_max_retries
  TruncMax, RunawayMax,       \* truncation_max_continuations, runaway_max_loop_recoveries
  MaxNudges,                  \* LeakedToolCallRetryObserver's cap
  KeepRecent,                 \* keep_recent
  Tools, Landing,             \* bound tools, landing_tool_names
  Visible,                    \* tool sets resolve_turn_tools may narrow a turn to
  Replies,                    \* what call_llm may return
  HostBefore, HostReply, HostInterrupt, HostTurnEnd,  \* interventions of host observers
  MaxStops                    \* bound: stop requests

NoLimit == {"any"}            \* _llm_allowed_tools is not set
MaxAttempts == MaxTurns + ExtraAttempts

ASSUME LoopAssumption ==
  /\ {MaxTurns, Cap, NoToolMax, KeepRecent} \subseteq Nat \ {0}
  /\ {ExtraAttempts, TruncMax, RunawayMax, MaxNudges, MaxStops} \subseteq Nat
  /\ NoToolBehavior \in {"stop", "nudge"}
  /\ "unknown" \notin Tools /\ Landing \subseteq Tools
  /\ \A v \in Visible : v \subseteq Tools

VARIABLES
  phase,     \* "top", "calling", "tools", "ran", "saving", "probing", "done"
  turn, attempts,
  messages,
  batch,     \* the parsed calls being executed
  finished,  \* positions in the batch, in the order their tools ended
  woken,     \* positions whose tool was interrupted
  noTool, truncations, runaways, parts,  \* the loop's retry counters and text parts
  meta,      \* loop metadata: strip, stripped, allowed, force, seq, leaks
  guard,     \* ContextSizeGuard
  fired,     \* LastTurnForcer._fired
  stopReq, stops,  \* SubAgentStopRegistry, and how many requests were made
  saved,     \* turn of the last checkpoint
  overs,     \* over-limit replies accepted since the last compaction
  final, stop      \* final_content and stopped_by of the result

counters == <<noTool, truncations, runaways, parts>>
tooling == <<batch, finished, woken>>
observing == <<guard, fired, stopReq, stops>>
vars == <<phase, turn, attempts, messages, tooling, counters, meta, observing,
          saved, overs, final, stop>>

Init ==
  /\ phase = "top" /\ turn = 0 /\ attempts = 0
  /\ messages = <<SystemMsg, UserMsg("task")>>
  /\ batch = <<>> /\ finished = <<>> /\ woken = {}
  /\ noTool = 0 /\ truncations = 0 /\ runaways = 0 /\ parts = <<>>
  /\ meta = [strip |-> FALSE, stripped |-> FALSE, allowed |-> NoLimit,
             force |-> FALSE, seq |-> 0, leaks |-> 0]
  /\ guard = SizeGuardInit /\ fired = FALSE /\ stopReq = FALSE /\ stops = 0
  /\ saved = 0 /\ overs = 0 /\ final = <<>> /\ stop = ""

Inject(ms, n) == ms \o [k \in 1..n |-> UserMsg("note")]

\* extract_final_content: the latest assistant text.
LastText(ms) ==
  LET i == Max({0} \cup {k \in DOMAIN ms : IsAssistant(ms[k]) /\ ms[k].text # NoText})
  IN  IF i = 0 THEN <<>> ELSE <<ms[i].text>>

\* _finalize_loop; stitched is metadata["_truncation_final_content"].
Finish(reason, ms, stitched) ==
  /\ phase' = "done"
  /\ stop' = reason
  /\ messages' = ms
  /\ final' = IF stitched # <<>> THEN stitched ELSE LastText(ms)

---------------------------------------------------------------------------
\* The top of the loop and _prepare_llm_request.

Exhausted ==
  /\ phase = "top"
  /\ turn >= MaxTurns \/ attempts >= MaxAttempts
  /\ Finish(IF attempts >= MaxAttempts /\ turn < MaxTurns THEN "max_attempts" ELSE "max_turns",
            messages, <<>>)
  /\ UNCHANGED <<turn, attempts, tooling, counters, meta, observing, saved, overs>>

\* (Faulty variant: a replayed turn does not count as a new attempt.)
PrepareLLMRequest_FreeReplay(allowed, iv) ==
  /\ phase = "top"
  /\ turn < MaxTurns /\ attempts < MaxAttempts
  /\ turn' = turn + 1 /\ attempts' = turn + 1
  /\ meta' = [meta EXCEPT !.strip = FALSE, !.stripped = meta.strip, !.allowed = allowed]
  /\ IF iv.stop THEN Finish("observer", Inject(messages, iv.inject), <<>>)
     ELSE /\ phase' = "calling"
          /\ messages' = Inject(messages, iv.inject)
          /\ UNCHANGED <<final, stop>>
  /\ UNCHANGED <<tooling, counters, observing, saved, overs>>

PrepareLLMRequest(allowed, iv) ==
  /\ phase = "top"
  /\ turn < MaxTurns /\ attempts < MaxAttempts
  /\ turn' = turn + 1 /\ attempts' = attempts + 1
  /\ meta' = [meta EXCEPT !.strip = FALSE, !.stripped = meta.strip, !.allowed = allowed]
  /\ IF iv.stop THEN Finish("observer", Inject(messages, iv.inject), <<>>)
     ELSE /\ phase' = "calling"
          /\ messages' = Inject(messages, iv.inject)
          /\ UNCHANGED <<final, stop>>
  /\ UNCHANGED <<tooling, counters, observing, saved, overs>>

\* _call_llm_with_callbacks: LLMCallExhausted, or no response at all.  On turn
\* 1 the error is raised when a provider chain is active.
CallFails(reason) ==
  /\ phase = "calling"
  /\ reason = "raised" => turn = 1
  /\ Finish(reason, messages, <<>>)
  /\ UNCHANGED <<turn, attempts, tooling, counters, meta, observing, saved, overs>>

---------------------------------------------------------------------------
\* _process_llm_response.  A reply r has calls (tool names), native, end
\* ("stop", "length", "runaway", "refused"), leak (its prose looks like a
\* leaked call), over (input tokens above the guard's limit) and reset.

CallsOf(r) ==
  [k \in DOMAIN r.calls |->
     [id |-> [at |-> attempts, k |-> k, native |-> r.native], name |-> r.calls[k]]]

TextOf(r) == IF r.calls # <<>> \/ r.end = "runaway" THEN NoText ELSE attempts

Named(calls, names) == SelectSeq(calls, LAMBDA c : c.name \in names)
NotNamed(calls, names) == SelectSeq(calls, LAMBDA c : c.name \notin names)

\* MultiFormatToolCallParser.parse: unknown companions of a known call are
\* dropped, a native batch of unknown calls is kept for the executor.
Parse(r, names) ==
  LET known == Named(CallsOf(r), names)
  IN  IF known = <<>> /\ r.native THEN CallsOf(r) ELSE known

\* The calls a landing turn or a narrowed turn lets through.
Permitted(calls) ==
  IF meta.stripped THEN Named(calls, Landing)
  ELSE IF meta.allowed # NoLimit THEN Named(calls, meta.allowed) ELSE calls

\* The reply in history, refused and capped calls answered; what is left to
\* run; whether a call was blocked.
Processed(r) ==
  LET recorded == IF r.native THEN CallsOf(r) ELSE <<>>
      history == Append(IF r.reset THEN ResetSignedThinkingHistory(messages) ELSE messages,
                        AssistantMsg(recorded, TextOf(r), r.end = "length"))
      names == IF meta.stripped \/ meta.allowed = NoLimit THEN Tools ELSE meta.allowed
      all == Parse(r, names)
      permitted == Permitted(all)
      refused == SelectSeq(all, LAMBDA c : c \notin ToSet(permitted))
      parsed == SubSeq(permitted, 1, Min({Cap, Len(permitted)}))
      answered == history \o Answers(SelectSeq(refused, LAMBDA c : c.id.native))
                          \o Answers(SubSeq(permitted, Len(parsed) + 1, Len(permitted)))
  IN  [messages |-> AnswerDroppedToolCalls(answered, recorded, parsed),
       parsed |-> parsed,
       blocked |-> refused # <<>>]

Leaks(r, p) == LeakRetry(r.leak, p.parsed # <<>>, p.blocked, meta.stripped, meta.leaks, MaxNudges)

\* notify_observers("on_llm_response") and merge_interventions.
Merged(r, p, host) ==
  MergeInterventions(MergeInterventions(StopSignal(stopReq), Leaks(r, p).iv),
    MergeInterventions(SizeGuard(guard, r.over, meta.seq).iv, host))

\* History after the rollback and the injections.
Intervened(p, iv) ==
  LET kept == IF iv.pop THEN PopLastAssistantTurn(p.messages) ELSE p.messages
      seen == Inject(kept, iv.inject)
  IN  IF iv.cont THEN AnswerUnexecutedToolCalls(seen) ELSE seen

\* What the observers and the provider changed, whatever the loop does next.
Observed(r, p) ==
  LET g == SizeGuard(guard, r.over, meta.seq)
  IN  /\ guard' = g.g
      /\ meta' = [meta EXCEPT !.leaks = Leaks(r, p).count, !.force = @ \/ g.force]
      /\ overs' = IF ~r.over THEN 0 ELSE IF g.iv.stop THEN overs ELSE overs + 1
      /\ stopReq' = FALSE
      /\ UNCHANGED <<attempts, fired, stops, saved>>

NoCall(r, p, iv) == ~iv.stop /\ ~iv.cont /\ ~p.blocked /\ r.end # "refused" /\ p.parsed = <<>>

\* A stop asked for by an observer, or a turn whose calls were all blocked.
ReplyStops(r, p, iv) ==
  LET blocked == ~iv.cont /\ p.blocked /\ p.parsed = <<>>
  IN  /\ iv.stop \/ blocked
      /\ Observed(r, p)
      /\ Finish(IF iv.stop THEN "observer" ELSE "max_turns", Intervened(p, iv), <<>>)
      /\ UNCHANGED <<turn, tooling, counters>>

\* continue_to_next_turn: the turn is replayed.
ReplyRewinds(r, p, iv) ==
  /\ iv.cont /\ ~iv.stop
  /\ Observed(r, p)
  /\ messages' = Intervened(p, iv)
  /\ turn' = turn - 1
  /\ phase' = "top"
  /\ UNCHANGED <<tooling, counters, final, stop>>

ReplyRejected(r, p, iv) ==
  /\ r.end = "refused" /\ ~iv.stop /\ ~iv.cont
  /\ ~(p.blocked /\ p.parsed = <<>>)
  /\ Observed(r, p)
  /\ Finish("refusal", AnswerUnexecutedToolCalls(Intervened(p, iv)), <<>>)
  /\ UNCHANGED <<turn, tooling, counters>>

\* is_truncated_with_text: the model is asked to go on, on its own budget.
ReplyTruncated(r, p, iv) ==
  /\ NoCall(r, p, iv) /\ r.end = "length"
  /\ Observed(r, p)
  /\ truncations' = truncations + 1
  /\ parts' = Append(parts, TextOf(r))
  /\ IF truncations' <= TruncMax
     THEN /\ messages' = Append(Intervened(p, iv), UserMsg("continue"))
          /\ turn' = turn - 1
          /\ phase' = "top"
          /\ UNCHANGED <<final, stop>>
     ELSE /\ Finish("response_truncated", Intervened(p, iv), parts')
          /\ UNCHANGED turn
  /\ UNCHANGED <<tooling, noTool, runaways>>

ReplyRunaway(r, p, iv) ==
  /\ NoCall(r, p, iv) /\ r.end = "runaway"
  /\ Observed(r, p)
  /\ runaways' = runaways + 1
  /\ IF runaways' <= RunawayMax
     THEN /\ messages' = Append(Intervened(p, iv), UserMsg("note"))
          /\ turn' = turn - 1
          /\ phase' = "top"
          /\ UNCHANGED <<final, stop>>
     ELSE /\ Finish("reasoning_runaway", Intervened(p, iv), <<>>)
          /\ UNCHANGED turn
  /\ UNCHANGED <<tooling, noTool, truncations, parts>>

\* A plain answer: it ends the loop, or is nudged towards a tool call.
ReplyPlain(r, p, iv) ==
  /\ NoCall(r, p, iv) /\ r.end = "stop"
  /\ Observed(r, p)
  /\ noTool' = noTool + 1
  /\ parts' = <<>>
  /\ IF NoToolBehavior # "nudge" \/ noTool' >= NoToolMax
     THEN Finish("no_tool", Intervened(p, iv),
                 IF parts = <<>> THEN <<>> ELSE Append(parts, TextOf(r)))
     ELSE /\ messages' = Append(Intervened(p, iv), UserMsg("note"))
          /\ phase' = "top"
          /\ UNCHANGED <<final, stop>>
  /\ UNCHANGED <<turn, tooling, truncations, runaways>>

\* Calls to run: they start together, or the observers suppress them.
ReplyCalls(r, p, iv) ==
  /\ p.parsed # <<>> /\ r.end # "refused" /\ ~iv.stop /\ ~iv.cont
  /\ Observed(r, p)
  /\ noTool' = 0 /\ truncations' = 0 /\ runaways' = 0 /\ parts' = <<>>
  /\ finished' = <<>> /\ woken' = {}
  /\ IF iv.skip
     THEN /\ messages' = AnswerUnexecutedToolCalls(Intervened(p, iv))
          /\ batch' = <<>>
          /\ phase' = "ran"
     ELSE /\ messages' = Intervened(p, iv)
          /\ batch' = p.parsed
          /\ phase' = "tools"
  /\ UNCHANGED <<turn, final, stop>>

Reply(r, host) ==
  LET p == Processed(r)
      iv == Merged(r, p, host)
  IN  /\ phase = "calling"
      /\ \/ ReplyStops(r, p, iv) \/ ReplyRewinds(r, p, iv) \/ ReplyRejected(r, p, iv)
         \/ ReplyTruncated(r, p, iv) \/ ReplyRunaway(r, p, iv) \/ ReplyPlain(r, p, iv)
         \/ ReplyCalls(r, p, iv)

---------------------------------------------------------------------------
\* execute_tools and _execute_tool_calls.

Running == {i \in DOMAIN batch : i \notin ToSet(finished)}

\* A tool returns, fails, times out, is unknown, or was answered without
\* running (invalid arguments, skip_with_result): every way gives a result.
ToolEnds(i) ==
  /\ phase = "tools" /\ i \in Running
  /\ finished' = Append(finished, i)
  /\ UNCHANGED <<phase, turn, attempts, messages, batch, woken, counters, meta, observing,
                 saved, overs, final, stop>>

\* The interrupt waiter of a fan-in tool wins over the tool.
ToolInterrupted(i) ==
  /\ phase = "tools" /\ i \in Running
  /\ batch[i].name = "collect"
  /\ finished' = Append(finished, i)
  /\ woken' = woken \cup {i}
  /\ UNCHANGED <<phase, turn, attempts, messages, batch, counters, meta, observing,
                 saved, overs, final, stop>>

\* Slots put the results back in the order of the calls.
Results == [k \in DOMAIN batch |-> ToolMsg(batch[k].id, TRUE)]

\* All results are in; an interrupted one is reported to the observers, who
\* may inject the new user message or stop.
ToolsDone(iv) ==
  /\ phase = "tools" /\ Running = {}
  /\ woken = {} => iv = NoIntervention
  /\ LET ms == Inject(messages \o Results, iv.inject)
     IN  IF iv.stop THEN Finish("observer", ms, <<>>)
         ELSE /\ phase' = "ran"
              /\ messages' = ms
              /\ UNCHANGED <<final, stop>>
  /\ batch' = <<>> /\ finished' = <<>> /\ woken' = {}
  /\ UNCHANGED <<turn, attempts, counters, meta, observing, saved, overs>>

---------------------------------------------------------------------------
\* The end of a turn.

\* _handle_context_overflow; the host may leave a recovery note.
ContextOverflow(note) ==
  /\ phase = "ran"
  /\ Finish("context_limit_reached", Inject(PopOverflow(messages), note), <<>>)
  /\ UNCHANGED <<turn, attempts, tooling, counters, meta, observing, saved, overs>>

\* _handle_turn_end up to the compaction; compact is the policy's answer.
TurnEnds(host, compact) ==
  LET fires == ForcerFires(fired, turn, MaxTurns)
      iv == MergeInterventions(LastTurnForcer(fires), host)
      kept == IF iv.pop /\ ~iv.stop THEN PopLastAssistantTurn(messages) ELSE messages
      seen == Inject(kept, iv.inject)
      squeeze == ~iv.stop /\ ~iv.cont /\ (compact \/ meta.force)
  IN  /\ phase = "ran"
      /\ fired' = (fired \/ fires)
      /\ meta' = [meta EXCEPT !.strip = @ \/ fires,
                              !.force = IF iv.stop \/ iv.cont THEN @ ELSE FALSE,
                              !.seq = @ + IF squeeze THEN 1 ELSE 0]
      /\ overs' = IF squeeze THEN 0 ELSE overs
      /\ IF iv.stop THEN Finish("observer", seen, <<>>) /\ UNCHANGED turn
         ELSE /\ messages' = IF squeeze THEN CompactMessages(seen, KeepRecent) ELSE seen
              /\ phase' = IF iv.cont THEN "top" ELSE "saving"
              /\ turn' = IF iv.cont THEN turn - 1 ELSE turn
              /\ UNCHANGED <<final, stop>>
      /\ UNCHANGED <<attempts, tooling, counters, guard, stopReq, stops, saved>>

\* on_turn_complete; a failing hook is logged and forgotten.
Checkpoint(ok) ==
  /\ phase = "saving"
  /\ phase' = "probing"
  /\ saved' = IF ok THEN turn ELSE saved
  /\ UNCHANGED <<turn, attempts, messages, tooling, counters, meta, observing, overs, final, stop>>

\* pause_check.
ProbePause(paused) ==
  /\ phase = "probing"
  /\ IF paused THEN Finish("paused", messages, <<>>)
     ELSE phase' = "top" /\ UNCHANGED <<messages, final, stop>>
  /\ UNCHANGED <<turn, attempts, tooling, counters, meta, observing, saved, overs>>

---------------------------------------------------------------------------
\* SubAgentStopRegistry.request_stop, by the coordinator.
RequestStop ==
  /\ phase # "done" /\ stops < MaxStops
  /\ stopReq' = TRUE /\ stops' = stops + 1
  /\ UNCHANGED <<phase, turn, attempts, messages, tooling, counters, meta, guard, fired,
                 saved, overs, final, stop>>

\* The loop's task is cancelled: CancelledError leaves run_agent_loop without
\* a result; execute_tools has awaited its tools.
CancelLoop ==
  /\ phase \notin {"done", "top"}
  /\ phase' = "done" /\ stop' = "cancelled"
  /\ batch' = <<>> /\ finished' = <<>> /\ woken' = {}
  /\ UNCHANGED <<turn, attempts, messages, counters, meta, observing, saved, overs, final>>

Step ==
  \/ Exhausted
  \/ \E a \in Visible \cup {meta.allowed}, iv \in HostBefore : PrepareLLMRequest(a, iv)
  \/ \E e \in {"empty_completion", "wall_deadline", "llm_error", "raised"} : CallFails(e)
  \/ \E r \in Replies, host \in HostReply : Reply(r, host)
  \/ \E i \in DOMAIN batch : ToolEnds(i) \/ ToolInterrupted(i)
  \/ \E iv \in HostInterrupt : ToolsDone(iv)
  \/ \E note \in {0, 1} : ContextOverflow(note)
  \/ \E host \in HostTurnEnd, compact \in BOOLEAN : TurnEnds(host, compact)
  \/ \E ok \in BOOLEAN : Checkpoint(ok)
  \/ \E paused \in BOOLEAN : ProbePause(paused)

Next == Step \/ RequestStop \/ CancelLoop

\* Every await of the loop is bounded: the call by its timeouts, a tool by
\* its own, the hooks are awaited host code.
Spec == Init /\ [][Next]_vars /\ WF_vars(Step)
---------------------------------------------------------------------------
\* Type invariant of the loop state, with the limit of every retry counter; with
\* ContextSizeGuard no run goes on after a third reply over the limit without a
\* compaction between them.
TypeOK ==
  /\ phase \in {"top", "calling", "tools", "ran", "saving", "probing", "done"}
  /\ turn \in 0..MaxTurns /\ attempts \in 0..MaxAttempts /\ turn <= attempts
  /\ IsInjective(finished) /\ ToSet(finished) \subseteq DOMAIN batch
  /\ woken \subseteq ToSet(finished)
  /\ noTool \in 0..NoToolMax /\ truncations \in 0..(TruncMax + 1)
  /\ runaways \in 0..(RunawayMax + 1) /\ meta.leaks \in 0..MaxNudges
  /\ saved \in 0..turn /\ overs \in 0..2
  /\ (stop = "") = (phase # "done")

\* Every history sent to the model or handed to the checkpoint hook answers
\* every recorded tool call exactly once, directly beneath it, whatever was
\* dropped by the parser, blocked, capped, suppressed, rolled back or
\* compacted before.
RequestReplayable == phase \in {"calling", "saving"} => Replayable(messages)

\* Tools end in any order, but their results stand in the order of the calls.
AnswersInOrder ==
  \A i, j \in {k \in DOMAIN messages : IsTool(messages[k]) /\ messages[k].ran} :
    (i < j /\ messages[i].id.at = messages[j].id.at) => messages[i].id.k < messages[j].id.k

\* However often history is compacted or rolled back, the system prompt and
\* the task stay in front, followed by at most one compaction summary.
HistoryAnchored ==
  /\ SubSeq(messages, 1, 2) = <<SystemMsg, UserMsg("task")>>
  /\ \A i \in 3..Len(messages) :
       messages[i] = UserMsg("compacted") => i = 3

\* An attempt an observer discards at the end of its turn leaves no
\* checkpoint: each logical turn is handed to on_turn_complete once.
DiscardedNotSaved == phase = "saving" => turn > saved

\* The texts of the longest run of cut replies, each followed by the request
\* to continue, that ends in the message at index i.
CutRun(ms, i) ==
  LET from == Min({s \in 1..i : /\ (i - s) % 2 = 0
                                /\ \A k \in s..i :
                                     IF (i - k) % 2 = 1 THEN ms[k] = UserMsg("continue")
                                     ELSE IsAssistant(ms[k]) /\ (k < i => ms[k].cut)})
  IN  [n \in 1..(1 + (i - from) \div 2) |-> ms[from + 2 * (n - 1)].text]

\* When the loop ends in an answer, the answer given to the caller contains
\* every part of a reply that was cut at the output cap and continued.
ChainKept ==
  stop \in {"no_tool", "response_truncated"} =>
    IsSuffix(CutRun(messages, LastAssistant(messages)), final)

\* What leaves the loop is a history a provider accepts and a replay repeats, each
\* call answered once beneath it in the order of the calls, and nothing is lost of
\* what has to survive a rollback, a replay, a cut or a compaction: the task in
\* front, one checkpoint for each turn, all of a cut answer.
HistoryKept ==
  RequestReplayable /\ AnswersInOrder /\ HistoryAnchored /\ DiscardedNotSaved /\ ChainKept

\* Every way of replaying a turn is bounded: the loop always ends.
Terminates == <>(phase = "done")

\* Every retry is counted: the loop ends, and until then a run under
\* ContextSizeGuard sees at most two replies over the limit without a
\* compaction between them (context_size_guard.py).
RetriesBounded == [](overs \in 0..2) /\ Terminates

\* Once LastTurnForcer has fired, the last turn runs no tool but the landing
\* tools ("The next turn will run without tools").
LandingHolds ==
  (fired /\ turn = MaxTurns /\ phase = "tools") =>
    \A k \in DOMAIN batch : batch[k].name \in Tools => batch[k].name \in Landing
=============================================================================
