---------------------------- MODULE TieredCompact ----------------------------
(***************************************************************************)
(* Tiered compaction of a tool-heavy history: the token gauge and trigger, *)
(* the deterministic tiers, the spill store's recovery handles and the     *)
(* retried summary (runtime/loop/tiered_compact.py, compact.py,            *)
(* compact_llm.py, runtime/spill.py, and the turn end of agent_loop.py).   *)
(*                                                                         *)
(* Lengths are counted in units of 300 characters and are tokens at the    *)
(* same time.  A body is the call that produced it; a handle names a body  *)
(* and the length at which it was stored, the file name being a digest of  *)
(* tool and text.  result_store_ref, which only hosts set, is left out.    *)
(***************************************************************************)
EXTENDS Integers, Sequences, FiniteSets, FiniteSetsExt, SequencesExt

CONSTANTS
  Configs,       \* constructor arguments, a set of records (ValidConfig)
  Shapes,        \* the tool calls of one turn: sequences of [name, size]
  SummarySizes,  \* lengths of a generated summary; 0 is an empty text
  CallTimes,     \* how long one summariser call may take
  MaxTurns       \* bound on the turns of a run

P == INSTANCE ToolProtocol

SpillMinChars == 5           \* _SPILL_MIN_CHARS, 1 500 characters
Widths == <<4, 2, 1>>        \* 1 200, 600 and 300 characters
CardSize == 2                \* the elided-result card
Unbounded == -1
NoTimer == 0
MaxScale == 3                \* InputTokenThresholdPolicy._MAX_SCALE

\* The constructors' checks: KeepLastNToolResultsCompactor, the manifest
\* bounds and the pair of retry knobs of TieredCompactor.  spill is "none",
\* "hidden" (a store without visible_root) or "visible"; manifest is how many
\* handles both index caps together let through; scales are the tokens the
\* endpoint may charge per estimated token.
ValidConfig(c) ==
  /\ c.spill \in {"none", "hidden", "visible"}
  /\ c.keepTools >= -1
  /\ c.keepRecent >= 0
  /\ c.manifest >= Unbounded
  /\ c.retries >= 0 /\ c.timeout >= NoTimer
  /\ c.summarizer \in BOOLEAN
  /\ c.limit > 0 /\ c.relief > 0
  /\ c.scales \subseteq Nat \ {0}

ASSUME CompactAssumption ==
  /\ \A c \in Configs : ValidConfig(c)
  /\ \A s \in Shapes : \A k \in DOMAIN s : s[k].size > 0
  /\ SummarySizes \subseteq Nat
  /\ CallTimes \subseteq Nat \ {0}
  /\ MaxTurns \in Nat

VARIABLES
  conf,      \* the configuration of this run
  messages,  \* the loop's history
  turns,     \* turns taken
  gauge,     \* InputTokenGauge: [tokens, estimate] of the last request
  store,     \* handles of the files the spill store holds
  noRelief,  \* _last_no_relief_estimate
  seq,       \* compactions so far (COMPACTION_SEQ_KEY)
  payload,   \* _tier2_payload: [seq, rolled], NoPayload when empty
  event,     \* last_event as broadcast
  pc,        \* "request", "end", "call", "backoff" or "cancelled"
  work,      \* what compact() holds across the summary's awaits
  clock,     \* [attempts, spent] of the running summary sequence
  received,  \* history: a handle for every tool result that arrived
  unsaved    \* history: bodies shortened while the store could not be written

vars == <<conf, messages, turns, gauge, store, noRelief, seq, payload, event,
          pc, work, clock, received, unsaved>>

-----------------------------------------------------------------------------
(* Messages *)

Blank == [role |-> "user", kind |-> "note", calls |-> <<>>, id |-> 0,
          size |-> 1, think |-> 0, refs |-> <<>>, whole |-> TRUE, seq |-> 0]
SystemMsg == [Blank EXCEPT !.role = "system", !.kind = "system"]
TaskMsg == [Blank EXCEPT !.kind = "task"]
NoteMsg == Blank
SummaryMsg(n, size) == [Blank EXCEPT !.kind = "summary", !.size = size, !.seq = n]
AssistantMsg(calls, think) ==
  [Blank EXCEPT !.role = "assistant", !.kind = "assistant", !.calls = calls, !.think = think]
ToolMsg(id, size) ==
  [Blank EXCEPT !.role = "tool", !.kind = "result", !.id = id, !.size = size]

IsTool(m) == m.role = "tool"

\* estimate_tokens: bodies and replayed reasoning.
EstimateTokens(msgs) == FoldLeft(LAMBDA n, m : n + m.size + m.think, 0, msgs)

\* tool_names_by_call_id, for the protected names: a tool message carries no
\* name, so it is resolved through the assistant message that asked.
ProtectedIds(msgs) ==
  {c.id : c \in {d \in UNION {ToSet(m.calls) : m \in ToSet(msgs)} : d.name = "protected"}}

\* strip_stale_reasoning: only the last keep traces stay.
StripStaleReasoning(msgs, keep) ==
  LET thinking == {i \in DOMAIN msgs : msgs[i].think > 0}
      later(i) == Cardinality({k \in thinking : k > i})
  IN  [i \in DOMAIN msgs |-> IF i \in thinking /\ later(i) >= keep
                             THEN [msgs[i] EXCEPT !.think = 0] ELSE msgs[i]]

-----------------------------------------------------------------------------
(* The spill store *)

Handle(m) == [of |-> m.id, len |-> m.size]
Unique(refs) ==
  FoldLeft(LAMBDA acc, r : IF r \in ToSet(acc) THEN acc ELSE Append(acc, r), <<>>, refs)

\* _spill_can_recover: whether the callback can hand back a readable path.
SpillCanRecover == conf.spill = "visible"

\* spill_compacted_body with write(require_visible=True): declined without a
\* visible root, below the minimum, or when the file cannot be written (ok).
SpillTakes(m, ok) == SpillCanRecover /\ m.size >= SpillMinChars /\ ok

SpillAll(msgs, ok) ==
  Unique([i \in DOMAIN SelectSeq(msgs, LAMBDA m : SpillTakes(m, ok)) |->
            Handle(SelectSeq(msgs, LAMBDA m : SpillTakes(m, ok))[i])])

\* _spill_refs: the handles the messages carry, in order.
SpillRefs(msgs) == Unique(FoldLeft(LAMBDA acc, m : acc \o m.refs, <<>>, msgs))

\* _spill_protected_results: bodies Tier 1 never stored.
SpillProtectedResults(msgs, ok) ==
  SpillAll(SelectSeq(msgs, LAMBDA m : IsTool(m) /\ m.id \in ProtectedIds(msgs)), ok)

\* (Faulty variant: results the candidate shortened are not stored.)
SpillChangedToolResults_None(source, transformed, ok) == <<>>

\* _spill_changed_tool_results: every body the candidate shortened.
SpillChangedToolResults(source, transformed, ok) ==
  LET changed == {source[i] : i \in {k \in DOMAIN source :
                    IsTool(source[k]) /\ source[k].size # transformed[k].size}}
  IN  SpillAll(SelectSeq(source, LAMBDA m : m \in changed), ok)

\* _with_spill_manifest: one index message carrying the newest handles, in
\* place of an earlier index or right after the task.
WithSpillManifest(msgs, refs) ==
  LET count == IF conf.manifest = Unbounded THEN Len(refs) ELSE Min({Len(refs), conf.manifest})
      selected == SubSeq(refs, Len(refs) - count + 1, Len(refs))
      index == IF selected = <<>> THEN <<>>
               ELSE <<[Blank EXCEPT !.kind = "index", !.refs = selected]>>
      at == {i \in DOMAIN msgs : msgs[i].kind = "index"}
      rest(from) == SelectSeq(SubSeq(msgs, from, Len(msgs)), LAMBDA m : m.kind # "index")
      systems == Max({k \in 0..Len(msgs) : \A i \in 1..k : msgs[i].role = "system"})
      head == IF /\ systems < Len(msgs)
                 /\ msgs[systems + 1].role = "user"
                 /\ msgs[systems + 1].kind # "summary"
              THEN systems + 1 ELSE systems
  IN  IF refs = <<>> THEN msgs
      ELSE IF at # {} THEN SubSeq(msgs, 1, Min(at) - 1) \o index \o rest(Min(at))
      ELSE SubSeq(msgs, 1, head) \o index \o SubSeq(msgs, head + 1, Len(msgs))

-----------------------------------------------------------------------------
(* The tiers *)

\* KeepLastNToolResultsCompactor.compact and _elided_tool_card: what stands in
\* for an older result.  A condensed card is not recognised as a card, but
\* still carries the handle it was given (_message_recovery_ref).
Elide(m, ok) ==
  LET ref == IF m.refs # <<>> THEN <<m.refs[1]>>
             ELSE IF SpillTakes(m, ok) THEN <<Handle(m)>> ELSE <<>>
  IN  IF \/ m.kind = "card"
         \/ ref = <<>> /\ (conf.spill # "none" \/ CardSize >= m.size)
      THEN m
      ELSE [m EXCEPT !.kind = "card", !.size = CardSize, !.refs = ref, !.whole = FALSE]

Tier1(msgs, ok) ==
  LET s == StripStaleReasoning(msgs, Max({conf.keepTools, 1}))
      tools == {i \in DOMAIN s : IsTool(s[i])}
      kept == {i \in tools : Cardinality({k \in tools : k > i}) < conf.keepTools}
      shielded == ProtectedIds(s)
  IN  IF conf.keepTools = -1 THEN msgs
      ELSE [i \in DOMAIN s |-> IF i \in tools \ kept /\ s[i].id \notin shielded
                               THEN Elide(s[i], ok) ELSE s[i]]

\* compress_tool_results with _condense: no unprotected result longer than
\* width, except those whose ids must stay byte for byte.
CompressToolResults(msgs, width, preserve) ==
  LET shielded == ProtectedIds(msgs)
      cut(m) == IF IsTool(m) /\ m.id \notin preserve \cup shielded /\ m.size > width
                THEN [m EXCEPT !.size = width, !.kind = "cut", !.whole = FALSE] ELSE m
  IN  StripStaleReasoning([i \in DOMAIN msgs |-> cut(msgs[i])], 1)

\* _latest_tool_result_ids: results the model has not seen yet.
LatestToolResultIds(msgs) ==
  LET asking == {i \in DOMAIN msgs : msgs[i].calls # <<>>}
  IN  IF asking = {} THEN {} ELSE {c.id : c \in ToSet(msgs[Max(asking)].calls)}

\* partition_for_compaction: [head, middle, recent].
Partition(msgs, keep) ==
  LET systems == Max({k \in 0..Len(msgs) : \A i \in 1..k : msgs[i].role = "system"})
      pinned == /\ keep > 0
                /\ systems < Len(msgs)
                /\ msgs[systems + 1].role = "user"
                /\ msgs[systems + 1].kind # "summary"
      head == systems + IF pinned THEN 1 ELSE 0
      rest == SubSeq(msgs, head + 1, Len(msgs))
      split == IF Len(msgs) - systems <= keep \/ Len(rest) <= keep THEN 0
               ELSE P!SplitIndex(rest, keep)
  IN  [head |-> SubSeq(msgs, 1, head), middle |-> SubSeq(rest, 1, split),
       recent |-> SubSeq(rest, split + 1, Len(rest))]

Rolled(msgs, keep, n, size) ==
  LET p == Partition(msgs, keep)
  IN  IF p.middle = <<>> THEN msgs ELSE p.head \o <<SummaryMsg(n, size)>> \o p.recent

\* compact_messages: a line per message of the middle that is neither an
\* index or card nor an earlier rollup.
StringSlice(msgs, keep, n) ==
  LET told == SelectSeq(Partition(msgs, keep).middle,
                        LAMBDA m : m.kind # "summary" /\ m.refs = <<>>)
  IN  Rolled(msgs, keep, n, 1 + Len(told))

\* The cheapest of tier 1 and the three widths, [label, msgs].
Candidates(msgs, tier1, preserve) ==
  LET beat(best, w) ==
        LET c == CompressToolResults(msgs, w, preserve)
        IN  IF EstimateTokens(c) < EstimateTokens(best.msgs)
            THEN [label |-> "compression", msgs |-> c] ELSE best
  IN  FoldLeft(beat, [label |-> "tier1", msgs |-> tier1], Widths)

-----------------------------------------------------------------------------
(* Trigger and result *)

\* real_to_estimate_scale, kept as a fraction.
Scale == IF gauge.tokens > 0 /\ gauge.estimate > 0 THEN gauge
         ELSE [tokens |-> 1, estimate |-> 1]

\* InputTokenThresholdPolicy.should_compact: the scale is clamped to [1, 3].
ShouldCompact(msgs) ==
  LET est == EstimateTokens(msgs)
      projected == Min({Max({est, (est * Scale.tokens) \div Scale.estimate}), est * MaxScale})
  IN  Max({gauge.tokens, projected}) > conf.limit

ReliefMet(tokens) == tokens * Scale.tokens <= conf.relief * Scale.estimate

NoPayload == [seq |-> 0, rolled |-> FALSE]
NoEvent == [label |-> "none", seq |-> 0, summary |-> 0, rolled |-> FALSE, relief |-> TRUE]
NoWork == [source |-> <<>>, tier1 |-> <<>>, best |-> [label |-> "none", msgs |-> <<>>],
           refs |-> <<>>, input |-> <<>>, ok |-> TRUE]
Idle == [attempts |-> 0, spent |-> 0]

\* _selected: only a label that used the summary reports it.
Selected(label, msgs, stash, n) ==
  [label |-> label, seq |-> n,
   summary |-> IF label = "tier2" /\ ~stash.rolled THEN stash.seq ELSE 0,
   rolled |-> label = "tier2" /\ stash.rolled,
   relief |-> ReliefMet(EstimateTokens(msgs))]

\* The handles of a history and what they stand for are only ever added.
Indexed(best, source, refs, ok) ==
  IF best.label = "tier1" THEN best.msgs
  ELSE WithSpillManifest(best.msgs,
         Unique(refs \o SpillChangedToolResults(source, best.msgs, ok)))

Whole(msgs) == {m.id : m \in {n \in ToSet(msgs) : IsTool(n) /\ n.whole}}

\* What ends a compaction: the loop takes the list over and reports it.
Apply(label, msgs, stash, source, ok) ==
  /\ messages' = msgs
  /\ seq' = seq + 1
  /\ event' = Selected(label, msgs, stash, seq + 1)
  /\ payload' = stash
  /\ store' = store \cup ToSet(SpillRefs(msgs))
  /\ unsaved' = unsaved \cup (IF ok THEN {} ELSE Whole(source) \ Whole(msgs))
  /\ pc' = "request"
  /\ work' = NoWork
  /\ clock' = Idle
  /\ UNCHANGED <<conf, turns, gauge, received>>

-----------------------------------------------------------------------------
(* Actions *)

Init ==
  /\ conf \in Configs
  /\ messages = <<SystemMsg, TaskMsg>>
  /\ turns = 0
  /\ gauge = [tokens |-> 0, estimate |-> 0]
  /\ store = {}
  /\ noRelief = 0
  /\ seq = 0
  /\ payload = NoPayload
  /\ event = NoEvent
  /\ pc = "request"
  /\ work = NoWork
  /\ clock = Idle
  /\ received = {}
  /\ unsaved = {}

\* One request and its tool results; the gauge reads the request that was
\* sent.  A note is an observer's injection at the end of the turn.
Turn(shape, scale, note) ==
  /\ pc = "request" /\ turns < MaxTurns
  /\ LET id(k) == 10 * (turns + 1) + k
         calls == [k \in DOMAIN shape |-> [id |-> id(k), name |-> shape[k].name]]
         est == EstimateTokens(messages)
     IN  /\ gauge' = [tokens |-> est * scale, estimate |-> est]
         /\ messages' = messages \o <<AssistantMsg(calls, 1)>>
                          \o [k \in DOMAIN shape |-> ToolMsg(id(k), shape[k].size)]
                          \o (IF note THEN <<NoteMsg>> ELSE <<>>)
         /\ received' = received \cup
                          {[of |-> id(k), len |-> shape[k].size] : k \in DOMAIN shape}
  /\ turns' = turns + 1
  /\ pc' = "end"
  /\ UNCHANGED <<conf, store, noRelief, seq, payload, event, work, clock, unsaved>>

SkipCompaction ==
  /\ pc = "end" /\ ~ShouldCompact(messages)
  /\ pc' = "request"
  /\ UNCHANGED <<conf, messages, turns, gauge, store, noRelief, seq, payload, event,
                 work, clock, received, unsaved>>

\* compact up to the summary: tier 1, the cheap candidates, the no-relief
\* cache.  An observer can request a pass at any turn (FORCE_COMPACTION_KEY),
\* so only skipping one has a guard.  ok is whether the spill store can be
\* written this time.
Compact(ok) ==
  /\ pc = "end"
  /\ \E tier1 \in {Tier1(messages, ok)} :
     \E preserve \in {IF SpillCanRecover THEN {} ELSE LatestToolResultIds(messages)} :
     \E best \in {Candidates(messages, tier1, preserve)} :
     \E refs \in {SpillRefs(tier1)} :
       LET est == EstimateTokens(messages)
           futile == noRelief # 0 /\ est * 10 <= noRelief * 11
       IN  IF ReliefMet(EstimateTokens(tier1))
           THEN Apply("tier1", tier1, NoPayload, messages, ok) /\ noRelief' = 0
           ELSE IF ReliefMet(EstimateTokens(best.msgs))
           THEN /\ Apply(best.label, Indexed(best, messages, refs, ok), NoPayload, messages, ok)
                /\ noRelief' = 0
           ELSE IF futile
           THEN /\ Apply("cached", Indexed(best, messages, refs, ok), NoPayload, messages, ok)
                /\ UNCHANGED noRelief
           ELSE /\ work' = [source |-> messages, tier1 |-> tier1, best |-> best, refs |-> refs,
                            input |-> CompressToolResults(messages, Widths[1], preserve),
                            ok |-> ok]
                /\ payload' = NoPayload
                /\ store' = store \cup ToSet(refs)
                /\ pc' = "call"
                /\ clock' = [attempts |-> 1, spent |-> 0]
                /\ UNCHANGED <<conf, messages, turns, gauge, noRelief, seq, event, received, unsaved>>

\* The choice between the summarised history and the best cheap candidate.
Choose(tier2, stash) ==
  LET wins == EstimateTokens(tier2) < EstimateTokens(work.best.msgs)
      all == Unique(work.refs \o SpillProtectedResults(work.source, work.ok)
                      \o SpillChangedToolResults(work.source, work.input, work.ok))
      won == IF wins THEN tier2 ELSE work.best.msgs
  IN  /\ Apply(IF wins THEN "tier2" ELSE work.best.label,
               IF wins THEN WithSpillManifest(tier2, all)
               ELSE Indexed(work.best, work.source, work.refs, work.ok),
               stash, work.source, work.ok)
      /\ noRelief' = IF EstimateTokens(won) >= EstimateTokens(work.tier1)
                     THEN EstimateTokens(work.source) ELSE 0

\* No summariser, or nothing to summarise: no call is made.
NoSummary ==
  /\ pc = "call" /\ clock.spent = 0 /\ clock.attempts = 1
  /\ ~conf.summarizer \/ Partition(work.input, conf.keepRecent).middle = <<>>
  /\ Choose(IF conf.summarizer THEN work.input
            ELSE StringSlice(work.input, conf.keepRecent, seq + 1), NoPayload)

Calling == /\ pc = "call" /\ conf.summarizer
           /\ Partition(work.input, conf.keepRecent).middle # <<>>

\* Retries without a total timeout are ignored (TieredCompactor.__init__).
Retries == IF conf.timeout = NoTimer THEN 0 ELSE conf.retries
InTime(t) == conf.timeout = NoTimer \/ clock.spent + t < conf.timeout
Backoff(n) == Min({2 * n, 5})

\* _generate_summary_with_retry: a text within what remains of the budget; an
\* empty one rolls back.
Summarised(t, size) ==
  /\ Calling /\ InTime(t)
  /\ IF size > 0
     THEN Choose(Rolled(work.input, conf.keepRecent, seq + 1, size),
                 [seq |-> seq + 1, rolled |-> FALSE])
     ELSE Choose(StringSlice(work.input, conf.keepRecent, seq + 1),
                 [seq |-> seq + 1, rolled |-> TRUE])

\* _rollback with failure_fallback="deterministic".
RolledBack == Choose(StringSlice(work.input, conf.keepRecent, seq + 1),
                     [seq |-> seq + 1, rolled |-> TRUE])

PermanentError(t) == Calling /\ InTime(t) /\ RolledBack

\* (Faulty variant: the backoff is not charged against the budget.)
TransientError_FreeBackoff(t) ==
  LET cut == conf.timeout # NoTimer /\ clock.spent + t >= conf.timeout
      spent == IF cut THEN conf.timeout ELSE clock.spent + t
      tired == \/ clock.attempts > Retries
               \/ conf.timeout # NoTimer /\ spent >= conf.timeout
  IN  /\ Calling
      /\ \/ tired /\ RolledBack
         \/ /\ ~tired
            /\ pc' = "backoff"
            /\ clock' = [clock EXCEPT !.spent = spent + Backoff(clock.attempts)]
            /\ UNCHANGED <<conf, messages, turns, gauge, store, noRelief, seq, payload,
                           event, work, received, unsaved>>

\* A transient failure, or wait_for cutting the call at the deadline: retry
\* after a backoff that fits, else roll back.
TransientError(t) ==
  LET cut == conf.timeout # NoTimer /\ clock.spent + t >= conf.timeout
      spent == IF cut THEN conf.timeout ELSE clock.spent + t
      tired == \/ clock.attempts > Retries
               \/ conf.timeout # NoTimer /\ spent + Backoff(clock.attempts) >= conf.timeout
  IN  /\ Calling
      /\ \/ tired /\ RolledBack
         \/ /\ ~tired
            /\ pc' = "backoff"
            /\ clock' = [clock EXCEPT !.spent = spent + Backoff(clock.attempts)]
            /\ UNCHANGED <<conf, messages, turns, gauge, store, noRelief, seq, payload,
                           event, work, received, unsaved>>

Retry ==
  /\ pc = "backoff"
  /\ pc' = "call"
  /\ clock' = [clock EXCEPT !.attempts = @ + 1]
  /\ UNCHANGED <<conf, messages, turns, gauge, store, noRelief, seq, payload, event,
                 work, received, unsaved>>

\* Cancellation during a summary call or its backoff leaves the history as it
\* was.
Cancel ==
  /\ pc \in {"call", "backoff"} /\ conf.summarizer
  /\ pc' = "cancelled"
  /\ UNCHANGED <<conf, messages, turns, gauge, store, noRelief, seq, payload, event,
                 work, clock, received, unsaved>>

SummaryStep ==
  \/ NoSummary
  \/ \E t \in CallTimes : \/ \E size \in SummarySizes : Summarised(t, size)
                          \/ PermanentError(t)
                          \/ TransientError(t)
  \/ Retry

Next ==
  \/ \E shape \in Shapes, scale \in conf.scales, note \in BOOLEAN : Turn(shape, scale, note)
  \/ SkipCompaction
  \/ \E ok \in (IF SpillCanRecover THEN BOOLEAN ELSE {TRUE}) : Compact(ok)
  \/ SummaryStep
  \/ Cancel

Spec == Init /\ [][Next]_vars

-----------------------------------------------------------------------------
(* Properties *)

\* However often the history is compacted, with a readable store and an index
\* without caps, a result long enough to be stored is still there in full or
\* the history carries the handle of its full text and the file exists
\* (_spill_changed_tool_results, _spill_protected_results, _spill_refs).
Recoverable ==
  SpillCanRecover /\ conf.manifest = Unbounded =>
    \A h \in received :
      h.len >= SpillMinChars /\ h.of \notin unsaved =>
        h.of \in Whole(messages) \/ h \in ToSet(SpillRefs(messages)) \cap store

\* The two invariants MessageCompactor asks of every compactor, through any
\* sequence of tiers: the system prompt keeps its place, with the task behind
\* it, and every tool call is answered right beneath the message that made
\* it, no answer standing anywhere else.
ContractKept ==
  /\ messages[1] = SystemMsg
  /\ conf.keepRecent > 0 => messages[2] = TaskMsg
  /\ \A i \in DOMAIN messages :
       LET calls == messages[i].calls
       IN  /\ \A k \in DOMAIN calls : /\ i + k \in DOMAIN messages
                                       /\ messages[i + k].id = calls[k].id
           /\ IsTool(messages[i]) =>
                \E j \in 1..(i - 1) : \E k \in DOMAIN messages[j].calls :
                  j + k = i /\ messages[j].calls[k].id = messages[i].id

\* The advertised ceiling of a retried summary is strict: calls and backoffs
\* together never outlast retry_total_timeout_s, and without one there is no
\* second attempt (_generate_summary_with_retry).
SummaryBounded ==
  IF conf.timeout = NoTimer THEN clock.attempts <= 1
  ELSE clock.spent <= conf.timeout

\* The event broadcast for a compaction tells what the model was left with: a
\* reported summary is in the history, and a rollup this compaction put there
\* is reported as a summary or as a rollback (_selected, on_compaction).
SummaryReported ==
  LET rollups == {m.seq : m \in {n \in ToSet(messages) : n.kind = "summary"}}
  IN  /\ event.summary # 0 => event.summary \in rollups
      /\ conf.summarizer /\ seq > 0 /\ seq \in rollups =>
           event.summary = seq \/ event.rolled

\* A summary the compactor pays for is bounded in time, and what became of it
\* is what on_compaction is told.
SummarySound == SummaryBounded /\ SummaryReported
=============================================================================
