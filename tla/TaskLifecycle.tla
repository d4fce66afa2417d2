---------------------------- MODULE TaskLifecycle ---------------------------
(***************************************************************************)
(* What a caller of the scheduler may rely on: the life of a task's status.*)
(* A run's outcome is recorded only while the task is running, so neither  *)
(* an abort nor a suspension is overwritten by a run that was under way.   *)
(***************************************************************************)
VARIABLE status

Init == status = "created"

Begin == status \in {"created", "running", "suspended", "failed"} /\ status' = "running"
Suspend == status = "running" /\ status' = "suspended"
Abort == status \in {"created", "running", "suspended"} /\ status' = "aborted"
Outcome == status = "running" /\ status' \in {"completed", "failed"}

Spec == Init /\ [][Begin \/ Suspend \/ Abort \/ Outcome]_status
=============================================================================
