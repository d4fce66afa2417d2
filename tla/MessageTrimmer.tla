--------------------------- MODULE MessageTrimmer ---------------------------
(***************************************************************************)
(* The history algorithms of a reusable sub-agent session                  *)
(* (runtime/loop/message_trimmer.py and the boundary bookkeeping of        *)
(* components/agent_bus).  A message is abstracted to the task it belongs  *)
(* to and its kind: "prompt" is the task's user message, "final" an        *)
(* assistant message without tool calls, "turn" anything else.  Indices    *)
(* start at 1; a boundary whose end is Open is still running (None).       *)
(***************************************************************************)
EXTENDS Integers, Sequences, SequencesExt

Open == 0

Message(owner, kind) == [owner |-> owner, kind |-> kind]
Boundary(start, end) == [start |-> start, end |-> end]
IsClosed(b) == b.end # Open

\* find_final_assistant: index of the last clean assistant message of
\* messages[start..end], 0 when there is none.
FindFinalAssistant(messages, start, end) ==
  LET hits == {i \in start..end : /\ i \in DOMAIN messages
                                  /\ messages[i].kind = "final"}
  IN  IF hits = {} THEN 0 ELSE CHOOSE i \in hits : \A k \in hits : k <= i

\* What a completed task keeps: its prompt and its final report, if any.
CompletedSlice(messages, b) ==
  LET final == FindFinalAssistant(messages, b.start + 1, b.end)
  IN  <<messages[b.start]>> \o (IF final = 0 THEN <<>> ELSE <<messages[final]>>)

KeptSlice(messages, b) ==
  IF IsClosed(b) THEN CompletedSlice(messages, b)
  ELSE SubSeq(messages, b.start, Len(messages))

InRange(messages, b) == b.start >= 1 /\ b.start <= Len(messages)

NothingCompleted(messages, boundaries) ==
  messages = <<>> \/ \A i \in DOMAIN boundaries : ~IsClosed(boundaries[i])

\* TaskBoundaryTrimmer.trim: the history that seeds the session's next task.
Trim(messages, boundaries) ==
  IF NothingCompleted(messages, boundaries) THEN messages
  ELSE FoldLeft(LAMBDA acc, b : acc \o (IF InRange(messages, b)
                                        THEN KeptSlice(messages, b) ELSE <<>>),
                <<>>, boundaries)

\* (Faulty variant: a completed slice is taken for its prompt alone.)
RemapBoundary_Short(offset, slice, b) ==
  Boundary(offset + 1, IF IsClosed(b) THEN offset + 1 ELSE Open)

\* The remapped boundary of a completed task ends one past its start unless
\* the fallback applied.
RemapBoundary(offset, slice, b) ==
  Boundary(offset + 1, IF IsClosed(b) THEN offset + Len(slice) ELSE Open)

\* trim_and_remap_boundaries: the eager post-task compression.
TrimAndRemap(messages, boundaries) ==
  LET Step(acc, b) ==
        IF ~InRange(messages, b) THEN acc
        ELSE LET slice == KeptSlice(messages, b)
             IN  [messages |-> acc.messages \o slice,
                  boundaries |-> Append(acc.boundaries,
                                   RemapBoundary(Len(acc.messages), slice, b))]
  IN  IF NothingCompleted(messages, boundaries)
      THEN [messages |-> messages, boundaries |-> boundaries]
      ELSE FoldLeft(Step, [messages |-> <<>>, boundaries |-> <<>>], boundaries)

-----------------------------------------------------------------------------
(* Boundary bookkeeping of a session h = [messages, boundaries] *)

EmptyHistory == [messages |-> <<>>, boundaries |-> <<>>]

\* _dispatch_session_task_inner: the prompt opens a new boundary at the tail.
OpenBoundary(h, owner) ==
  [messages |-> Append(h.messages, Message(owner, "prompt")),
   boundaries |-> Append(h.boundaries, Boundary(Len(h.messages) + 1, Open))]

\* The synthesised stub that makes every closed slice end in a clean message.
WithFinal(messages, owner, start) ==
  IF FindFinalAssistant(messages, start + 1, Len(messages)) # 0 THEN messages
  ELSE Append(messages, Message(owner, "final"))

\* _run: absorb the loop's new turns, then close the last boundary.
CloseBoundary(h, owner, turns) ==
  LET start == Last(h.boundaries).start
      all   == WithFinal(h.messages \o turns, owner, start)
  IN  [messages |-> all,
       boundaries |-> Front(h.boundaries) \o <<Boundary(start, Len(all))>>]

\* close_session_boundary_aborted.
CloseBoundaryAborted(h, owner) ==
  IF h.boundaries = <<>> \/ IsClosed(Last(h.boundaries)) THEN h
  ELSE CloseBoundary(h, owner, <<>>)

\* The SubAgentSession invariant: a closed boundary holds a clean final report.
BoundaryHasReport(h) ==
  \A i \in DOMAIN h.boundaries :
    IsClosed(h.boundaries[i]) =>
      FindFinalAssistant(h.messages, h.boundaries[i].start + 1,
                         h.boundaries[i].end) # 0
=============================================================================
