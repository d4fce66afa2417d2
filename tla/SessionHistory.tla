--------------------------- MODULE SessionHistory ---------------------------
(***************************************************************************)
(* One reused sub-agent session's message list over several tasks: each    *)
(* task opens a boundary, absorbs the loop's turns or is aborted, and is   *)
(* then trimmed eagerly, unless that failed ("eager_trim failed;           *)
(* continuing").  `done' records per task the report a reader expects to   *)
(* find, independently of the indices the code keeps.                      *)
(***************************************************************************)
EXTENDS MessageTrimmer, FiniteSets

CONSTANTS
  MaxTasks,   \* bound: tasks assigned to the session
  Transcripts \* kinds of the messages a loop may add

VARIABLES h, done, phase

vars == <<h, done, phase>>

Init == h = EmptyHistory /\ done = <<>> /\ phase = "idle"

Task == Len(done) + 1
\* The k-th message a task's loop adds; 0 is its prompt.
Owner(t, k) == <<t, k>>
Turns(t, kinds) == [k \in DOMAIN kinds |-> Message(Owner(t, k), kinds[k])]

Assign ==
  /\ phase = "idle"
  /\ Len(done) < MaxTasks
  /\ h' = OpenBoundary(h, Owner(Task, 0))
  /\ phase' = "running"
  /\ UNCHANGED done

\* The last clean message of the transcript, or the stub.
Report(t, kinds) ==
  LET finals == {k \in DOMAIN kinds : kinds[k] = "final"}
  IN  Message(Owner(t, IF finals = {} THEN 0
                       ELSE CHOOSE k \in finals : \A i \in finals : i <= k), "final")

Complete(kinds) ==
  /\ phase = "running"
  /\ h' = CloseBoundary(h, Owner(Task, 0), Turns(Task, kinds))
  /\ done' = Append(done, Report(Task, kinds))
  /\ phase' = "closed"

Fail ==
  /\ phase = "running"
  /\ h' = CloseBoundaryAborted(h, Owner(Task, 0))
  /\ done' = Append(done, Report(Task, <<>>))
  /\ phase' = "closed"

EagerTrim ==
  /\ phase = "closed"
  /\ h' = TrimAndRemap(h.messages, h.boundaries)
  /\ phase' = "idle"
  /\ UNCHANGED done

EagerTrimFailed ==
  /\ phase = "closed"
  /\ phase' = "idle"
  /\ UNCHANGED <<h, done>>

Next ==
  \/ Assign
  \/ \E kinds \in Transcripts : Complete(kinds)
  \/ Fail
  \/ EagerTrim
  \/ EagerTrimFailed

Spec == Init /\ [][Next]_vars

-----------------------------------------------------------------------------
(* Properties *)

Prompt(t) == Message(Owner(t, 0), "prompt")
Expected ==
  FlattenSeq([t \in DOMAIN done |-> <<Prompt(t), done[t]>>])
    \o (IF phase = "running" THEN <<Prompt(Task)>> ELSE <<>>)

\* TaskBoundaryTrimmer.trim seeds the next task with exactly the prompt and the
\* final report of every finished task, then the task in flight, whichever of
\* the earlier eager trims ran; and another trim_and_remap_boundaries changes
\* neither what it wrote nor what the trimmer makes of it.
TrimIsTaskMemory ==
  LET once == TrimAndRemap(h.messages, h.boundaries) IN
  h.messages # <<>> =>
    /\ Trim(h.messages, h.boundaries) = Expected
    /\ Trim(once.messages, once.boundaries) = Expected
    /\ TrimAndRemap(once.messages, once.boundaries) = once
    /\ BoundaryHasReport(once)

\* Boundaries partition the history: they are contiguous, each starts at its
\* task's prompt, and only the last may be open.
BoundariesPartition ==
  /\ Len(h.boundaries) = Len(done) + (IF phase = "running" THEN 1 ELSE 0)
  /\ \A i \in DOMAIN h.boundaries :
       /\ h.messages[h.boundaries[i].start] = Prompt(i)
       /\ i < Len(h.boundaries) => h.boundaries[i + 1].start = h.boundaries[i].end + 1

\* What _dispatch_session_task_inner and the eager trim rely on together: a
\* session's history is cut at its tasks, and the trimmer makes of it what the
\* next task should remember.
HistorySound == TrimIsTaskMemory /\ BoundariesPartition
=============================================================================
