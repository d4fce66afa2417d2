--------------------------- MODULE LoopObservers ----------------------------
(***************************************************************************)
(* The critical observers of the agent loop that change its control flow   *)
(* (components/observers) and the merge of what they ask for               *)
(* (loop_types.py).  An intervention says how many user messages to inject *)
(* and which controls to apply; the observers that only warn or only stop  *)
(* are in GuardObservers and WallTime, and here among the interventions of *)
(* a host that AgentLoop is given.                                         *)
(***************************************************************************)
EXTENDS Integers

NoIntervention ==
  [inject |-> 0, stop |-> FALSE, skip |-> FALSE, pop |-> FALSE, cont |-> FALSE]

MergeInterventions(a, b) ==
  [inject |-> a.inject + b.inject, stop |-> a.stop \/ b.stop, skip |-> a.skip \/ b.skip,
   pop |-> a.pop \/ b.pop, cont |-> a.cont \/ b.cont]

\* StopSignalObserver: the stop request is consumed, the turn rolled back.
StopSignal(requested) ==
  IF requested THEN [NoIntervention EXCEPT !.inject = 1, !.pop = TRUE, !.cont = TRUE]
  ELSE NoIntervention

\* LeakedToolCallRetryObserver: a tool call that leaked into prose is asked
\* for again, unless the turn was a landing turn; a parsed call resets the
\* count.
LeakRetry(leak, parsed, blocked, stripped, count, max) ==
  IF blocked \/ stripped THEN [count |-> 0, iv |-> NoIntervention]
  ELSE IF parsed \/ ~leak \/ count >= max
  THEN [count |-> IF parsed THEN 0 ELSE count, iv |-> NoIntervention]
  ELSE [count |-> count + 1, iv |-> [NoIntervention EXCEPT !.inject = 1, !.cont = TRUE]]

\* ContextSizeGuard(force_compaction_first=True); requested is -1 when no
\* compaction was asked for.
SizeGuardInit == [requested |-> -1, rearms |-> 0, tripped |-> FALSE]

SizeGuard(g, over, seq) ==
  IF g.tripped \/ ~over
  THEN [g |-> [g EXCEPT !.requested = IF g.tripped THEN @ ELSE -1], force |-> FALSE,
        iv |-> NoIntervention]
  ELSE IF g.requested = -1
  THEN [g |-> [g EXCEPT !.requested = seq, !.rearms = 1], force |-> TRUE, iv |-> NoIntervention]
  ELSE IF seq <= g.requested /\ g.rearms > 0
  THEN [g |-> [g EXCEPT !.rearms = @ - 1], force |-> TRUE, iv |-> NoIntervention]
  ELSE [g |-> [g EXCEPT !.tripped = TRUE], force |-> FALSE,
        iv |-> [NoIntervention EXCEPT !.inject = 1, !.stop = TRUE]]

\* LastTurnForcer: at the end of the penultimate turn, once, the next turn is
\* stripped of its tools.
ForcerFires(fired, turn, maxTurns) == ~fired /\ turn = maxTurns - 1
LastTurnForcer(fires) ==
  IF fires THEN [NoIntervention EXCEPT !.inject = 1] ELSE NoIntervention
=============================================================================
