-------------------------- MODULE MCTieredCompact --------------------------
(***************************************************************************)
(* What becomes of a history: within a task it is compacted                *)
(* (TieredCompact), between the tasks of a reused session it is cut at the *)
(* task boundaries (SessionHistory).  The two share no state, so one moves *)
(* only while the other is still where it began.                           *)
(***************************************************************************)
EXTENDS TieredCompact

Call(name, size) == [name |-> name, size |-> size]

Plain == [spill |-> "visible", keepTools |-> 1, keepRecent |-> 2, manifest |-> Unbounded,
          retries |-> 2, timeout |-> 10, summarizer |-> TRUE, limit |-> 14, relief |-> 9,
          scales |-> {1}]

MCConfigs ==
  {Plain,
   [Plain EXCEPT !.keepTools = 0, !.keepRecent = 3, !.scales = {1, 2}],
   [Plain EXCEPT !.manifest = 1, !.summarizer = FALSE],
   [Plain EXCEPT !.spill = "none", !.timeout = NoTimer, !.scales = {2}],
   [Plain EXCEPT !.spill = "hidden", !.keepTools = -1, !.manifest = 0]}

MCShapes == {<<Call("search", 8)>>,
             <<Call("search", 3), Call("search", 6)>>,
             <<Call("protected", 6)>>}

-----------------------------------------------------------------------------

VARIABLES
  trimmed, \* the session's messages and boundaries
  reports, \* the reports of its finished tasks
  phase    \* of its current task

\* A loop adds nothing, only tool turns, a report, a report after tool turns,
\* text followed by a tool call, or two reports.
Session == INSTANCE SessionHistory WITH
  h <- trimmed, done <- reports, MaxTasks <- 4,
  Transcripts <- {<<>>, <<"turn">>, <<"final">>, <<"turn", "final">>, <<"final", "turn">>,
                  <<"final", "turn", "final">>}

sessionVars == <<trimmed, reports, phase>>

MCInit == Init /\ Session!Init
MCNext ==
  \/ Session!Init /\ Next /\ UNCHANGED sessionVars
  \/ Init /\ Session!Next /\ UNCHANGED vars
MCSpec == MCInit /\ [][MCNext]_<<vars, sessionVars>>

\* The session's history is cut at its tasks, and the trimmer makes of it what
\* the next task should remember (see SessionHistory).
HistorySound == Session!HistorySound
=============================================================================
