---------------------------- MODULE SessionStatus ----------------------------
(***************************************************************************)
(* What the coordinator is told about its sub-agents: session_state and    *)
(* format_status_line (components/agent_bus/fan_in.py) and                 *)
(* describe_sessions_for_task (components/agent_bus/bus.py), as functions  *)
(* of the sessions.  A session is seen as [current, queued, results,       *)
(* tasks, report]: the status of its current job ("none" without one), its *)
(* queue lengths, total_task_count, and whether it has a last_report.      *)
(***************************************************************************)
EXTENDS Integers

HasWork(s) == s.current # "none" \/ s.queued > 0
Untouched(s) == s.tasks = 0 /\ ~s.report

\* (Faulty variant: a queued task does not count as running.)
SessionState_IgnoresQueue(sessions) ==
  CASE sessions = {} -> "no_subagents"
    [] \E s \in sessions : s.results > 0 -> "ready_to_collect"
    [] OTHER -> IF \E s \in sessions : s.current # "none" THEN "running"
                ELSE IF \A s \in sessions : Untouched(s) THEN "no_work_queued"
                ELSE "all_collected"

SessionState(sessions) ==
  CASE sessions = {} -> "no_subagents"
    [] \E s \in sessions : s.results > 0 -> "ready_to_collect"
    [] OTHER -> IF \E s \in sessions : HasWork(s) THEN "running"
                ELSE IF \A s \in sessions : Untouched(s) THEN "no_work_queued"
                ELSE "all_collected"

\* The label of one session in the status line; "" is not shown.
StatusLabel(s, paused) ==
  IF paused THEN "paused"
  ELSE IF HasWork(s) THEN "running"
  ELSE IF s.results > 0 THEN "ready_to_collect" ELSE ""

\* The labels of the line, or what it collapses to when no session has one.
StatusLine(sessions, pausedSessions) ==
  LET labels == {StatusLabel(s, s \in pausedSessions) : s \in sessions} \ {""}
  IN  IF sessions = {} THEN {"no_subagents"}
      ELSE IF labels # {} THEN labels
      ELSE IF \A s \in sessions : Untouched(s) THEN {"no_work_queued"}
      ELSE {"all_collected"}

\* One session in the progress snapshot.
Described(s) ==
  IF s.current # "none" THEN s.current
  ELSE IF s.results > 0 THEN "ready"
  ELSE IF s.queued > 0 THEN "queued"
  ELSE IF s.tasks > 0 THEN "idle" ELSE "unassigned"
=============================================================================
