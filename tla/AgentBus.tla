------------------------------ MODULE AgentBus ------------------------------
(***************************************************************************)
(* AgentBus (components/agent_bus/bus.py): sub-agent jobs of one parent    *)
(* task.  A job is an asyncio task; a session job belongs to a persistent  *)
(* session, which runs one job at a time and queues the others.            *)
(*                                                                         *)
(* asyncio is cooperative, so the code between two awaits that suspend is  *)
(* one action.  An await of the event sink or of the history offload may   *)
(* or may not suspend (SinkSuspends, OffloadSuspends): `turn' names the    *)
(* coroutine that goes on without giving the event loop back.              *)
(*                                                                         *)
(* Job ids are the values of the bus's counter.  A submit the guard        *)
(* refuses leaves no trace but an unused id and is not an action.          *)
(***************************************************************************)
EXTENDS Integers, Sequences, FiniteSets, FiniteSetsExt, SequencesExt, MessageTrimmer,
        SessionStatus

CONSTANTS
  MaxJobs,         \* bound: ids handed out by _next_job_id
  Sessions,        \* session ids, integers: the order of the _sessions dict
  MaxParallel, MaxTokens, MaxDepth, Estimates, Depths,  \* see SpawnGuard
  SinkSuspends,    \* event_store.append suspends its caller
  OffloadSuspends, \* a session_history_dir is set: trim awaits to_thread
  Failures,        \* of "trim" (trimmer raises), "emit" (append raises or
                   \* the dispatching coroutine is cancelled)
  Calls,           \* host calls made: "submit", "assign" (to a session),
                   \* "abort", "sweep", "clean", "wait"
  Outcomes         \* how a loop may end: "ok" (a clean report), "stub" (no
                   \* report), "error" (exception, hard timeout), "aborted"

Jobs == 1..MaxJobs
Free == 0                     \* nobody holds the event loop; also "no job"
NoJob == 0
NoSession == 0
Waiter == MaxJobs + 1         \* the coroutine of wait_any_session
Host == MaxJobs + 2           \* the coroutine of submit_task_to_session
Sweeper == MaxJobs + 3        \* the coroutine of cancel_for_parent
Cleaner == MaxJobs + 4        \* the coroutine of cleanup_task
Terminal == {"completed", "failed", "aborted"}
Busy == {"submitted", "running"}

ASSUME BusAssumption ==
  /\ MaxJobs \in Nat /\ Sessions \subseteq Nat \ {0} /\ IsFiniteSet(Sessions)
  /\ SinkSuspends \in BOOLEAN /\ OffloadSuspends \in BOOLEAN
  /\ Failures \subseteq {"trim", "emit"}
  /\ Calls \subseteq {"submit", "assign", "abort", "sweep", "clean", "wait"}
  /\ Outcomes \subseteq {"ok", "stub", "error", "aborted"}

VARIABLES
  active, est, tokens_reserved, value, waiters, woken,    \* the SpawnGuard
  counter,     \* _counter
  status,      \* JobEntry.status, "none" without an entry
  published,   \* results the job's entry holds (JobEntry.result), by error class
  session,     \* the session of the job
  pc,          \* where the job's asyncio task is suspended
  cancelling,  \* Task.cancel() was called and is not delivered yet
  current,     \* session.current_job_id
  pending_tasks, pending_results,  \* the queues of SubAgentSession
  history,     \* session.messages and task_boundaries
  snapshot,    \* new_messages, new_boundaries of an _eager_trim in progress
  live,        \* "absent", "live" (in _sessions) or "dropped" (by cleanup_task)
  dispatch,    \* the job's dispatch: who awaits it, and in which await
  aborting,    \* jobs an abort() call awaits
  sweep,       \* the cancel_for_parent call: jobs left, its snapshot
  clean,       \* the cleanup_task call: sessions left, the one in hand
  wait,        \* the wait_any_session call
  delivered,   \* how often each job's result was handed to the coordinator
  rescued,     \* jobs whose result cleanup_task rescued
  turn         \* the coroutine that runs on without suspending, or Free

guardVars == <<active, est, tokens_reserved, value, waiters, woken>>
jobVars == <<status, published, pc, cancelling>>
callVars == <<aborting, sweep, clean>>
vars == <<guardVars, counter, status, published, session, pc, cancelling, current,
          pending_tasks, pending_results, history, snapshot, live, dispatch,
          aborting, sweep, clean, wait, delivered, rescued, turn>>

G == INSTANCE SpawnGuard

NoDispatch == [by |-> NoJob, at |-> "none"]
Idle == [at |-> "idle", todo |-> {}, jobs |-> {}]

Init ==
  /\ G!GuardInit
  /\ counter = 0
  /\ status = [j \in Jobs |-> "none"]
  /\ published = [j \in Jobs |-> "none"]
  /\ session = [j \in Jobs |-> NoSession]
  /\ pc = [j \in Jobs |-> "none"]
  /\ cancelling = [j \in Jobs |-> FALSE]
  /\ current = [s \in Sessions |-> NoJob]
  /\ pending_tasks = [s \in Sessions |-> <<>>]
  /\ pending_results = [s \in Sessions |-> <<>>]
  /\ history = [s \in Sessions |-> EmptyHistory]
  /\ snapshot = [j \in Jobs |-> EmptyHistory]
  /\ live = [s \in Sessions |-> "absent"]
  /\ dispatch = [j \in Jobs |-> NoDispatch]
  /\ aborting = {}
  /\ sweep = Idle /\ clean = Idle /\ wait = Idle
  /\ delivered = [j \in Jobs |-> 0]
  /\ rescued = {}
  /\ turn = Free

Turn(who) == turn \in {Free, who}
Suspend == turn' = Free
RunOn(who) == turn' = who
TaskDone(j) == pc[j] = "done"
IsTerminal(j) == status[j] \in Terminal

-----------------------------------------------------------------------------
(* Marking and purging *)

\* (Faulty variant: the terminal check is missing.)
MarkedStatus_Overwrites(S) == [j \in Jobs |-> IF j \in S THEN "aborted" ELSE status[j]]

\* _mark_job_aborted on a set of jobs that still hold no terminal status: the
\* reservation goes back, the entry gets a synthetic result.
MarkedStatus(S) == [j \in Jobs |-> IF j \in S /\ ~IsTerminal(j) THEN "aborted" ELSE status[j]]
MarkedResult(S) ==
  [j \in Jobs |-> IF j \in S /\ ~IsTerminal(j) /\ published[j] = "none"
                  THEN "aborted" ELSE published[j]]

\* (Faulty variant: the reservation is kept.)
MarkJobAborted_KeepsReservation(j) ==
  /\ UNCHANGED guardVars
  /\ status' = MarkedStatus({j})
  /\ published' = MarkedResult({j})

MarkJobAborted(j) ==
  /\ G!Release(j)
  /\ status' = MarkedStatus({j})
  /\ published' = MarkedResult({j})

\* A reservation that never took a slot: only tokens go back.
ReleaseUnstarted(S) ==
  /\ active' = [j \in Jobs |-> IF j \in S THEN "none" ELSE active[j]]
  /\ est' = [j \in Jobs |-> IF j \in S THEN 0 ELSE est[j]]
  /\ tokens_reserved' = tokens_reserved - MapThenSumSet(LAMBDA j : est[j], S)
  /\ UNCHANGED <<value, waiters, woken>>

IsQueued(j) == status[j] = "queued" \/ (status[j] # "none" /\ pc[j] = "none")

\* _purge_queued_job: what is kept keeps its order.
Purged(q, S) ==
  LET kept    == {i \in DOMAIN q : q[i] \notin S}
      rank(i) == Cardinality({k \in kept : k <= i})
  IN  [n \in 1..Cardinality(kept) |-> q[CHOOSE i \in kept : rank(i) = n]]

-----------------------------------------------------------------------------
(* Dispatching a session task *)

\* _dispatch_session_task_inner up to its first await: the boundary opens, the
\* entry is registered or upgraded, the asyncio task exists.
DispatchTask(s, j, by) ==
  /\ history' = [history EXCEPT ![s] = OpenBoundary(@, j)]
  /\ status' = [status EXCEPT ![j] = "submitted"]
  /\ current' = [current EXCEPT ![s] = j]
  /\ dispatch' = [dispatch EXCEPT ![j] = [by |-> by, at |-> "emitting"]]

CreateSession(s) ==
  /\ Turn(Free)
  /\ live[s] = "absent"
  /\ live' = [live EXCEPT ![s] = "live"]
  /\ UNCHANGED <<guardVars, counter, jobVars, session, current, pending_tasks,
                 pending_results, history, snapshot, dispatch, callVars, wait,
                 delivered, rescued, turn>>

\* (Faulty variant: a job that has not reached its loop does not count.)
SessionBusy_RunningOnly(s) == current[s] # NoJob /\ status[current[s]] = "running"
SessionBusy(s) == current[s] # NoJob /\ status[current[s]] \in Busy

\* submit_task_to_session and _queue_or_dispatch_session_task.  The host does
\* not assign to sessions it is cleaning up.
SubmitTask(s) ==
  LET j == counter + 1 IN
  /\ "assign" \in Calls
  /\ clean.at = "idle"
  /\ Turn(Free)
  /\ live[s] = "live"
  /\ counter < MaxJobs
  /\ counter' = j
  /\ \E e \in Estimates : G!PreCheck(j, 1, e)
  /\ session' = [session EXCEPT ![j] = s]
  /\ \/ /\ SessionBusy(s)
        /\ status' = [status EXCEPT ![j] = "queued"]
        /\ pending_tasks' = [pending_tasks EXCEPT ![s] = Append(@, j)]
        /\ UNCHANGED <<pc, current, history, dispatch>>
     \/ /\ ~SessionBusy(s)
        /\ DispatchTask(s, j, Host)
        /\ pc' = [pc EXCEPT ![j] = "new"]
        /\ UNCHANGED pending_tasks
  /\ UNCHANGED <<published, cancelling, pending_results, snapshot, live, callVars,
                 wait, delivered, rescued, turn>>

\* submit: a job without a session, started at once.
Submit ==
  LET j == counter + 1 IN
  /\ "submit" \in Calls
  /\ Turn(Free)
  /\ counter < MaxJobs
  /\ counter' = j
  /\ \E e \in Estimates, d \in Depths : G!PreCheck(j, d, e)
  /\ status' = [status EXCEPT ![j] = "submitted"]
  /\ pc' = [pc EXCEPT ![j] = "new"]
  /\ UNCHANGED <<published, cancelling, session, current, pending_tasks,
                 pending_results, history, snapshot, live, dispatch, callVars,
                 wait, delivered, rescued, turn>>

\* _drain_session_queue skips entries aborted while parked.
DropAborted(q) ==
  LET kept == {i \in DOMAIN q : status[q[i]] # "aborted"}
  IN  IF kept = {} THEN <<>> ELSE SubSeq(q, Min(kept), Len(q))

\* The dispatching coroutine goes on: the finisher of the previous job ends,
\* the waiter drains its next session or, after an exception, returns.
OwnerResumes(by, raised, pcs) ==
  /\ pc' = IF by \in Jobs THEN [pcs EXCEPT ![by] = "done"] ELSE pcs
  /\ wait' = IF by # Waiter THEN wait
             ELSE IF raised THEN Idle
             ELSE [wait EXCEPT !.at = IF @ = "handoff1" THEN "drain1" ELSE "drain2"]
  /\ turn' = IF by = Waiter /\ ~raised THEN Waiter ELSE Free

\* The dispatch returns after sleep(0) has given the child its first step.
DispatchDone(j) ==
  LET by == dispatch[j].by IN
  /\ Turn(Free)
  /\ dispatch[j].at = "emitting"
  /\ pc[j] # "new"
  /\ by \in Jobs => ~cancelling[by]
  /\ dispatch' = [dispatch EXCEPT ![j] = NoDispatch]
  /\ OwnerResumes(by, FALSE, pc)
  /\ UNCHANGED <<guardVars, counter, status, published, session, cancelling, current,
                 pending_tasks, pending_results, history, snapshot, live, callVars,
                 delivered, rescued>>

\* The failure path of the dispatch: cancel the child and await it ...
DispatchFail(j) ==
  LET by == dispatch[j].by IN
  /\ Turn(Free)
  /\ dispatch[j].at = "emitting"
  /\ "emit" \in Failures
  /\ dispatch' = [dispatch EXCEPT ![j].at = "reaping"]
  /\ cancelling' = [i \in Jobs |-> IF i = j THEN ~TaskDone(j)
                                   ELSE IF i = by THEN FALSE ELSE cancelling[i]]
  /\ UNCHANGED <<guardVars, counter, status, published, session, pc, current,
                 pending_tasks, pending_results, history, snapshot, live, callVars,
                 wait, delivered, rescued, turn>>

\* ... then settle the entry, clear current_job_id and release the reservation.
Reaped(j) ==
  LET s == session[j] IN
  /\ Turn(Free)
  /\ dispatch[j].at = "reaping"
  /\ TaskDone(j)
  /\ MarkJobAborted(j)
  /\ history' = IF IsTerminal(j) THEN history
                ELSE [history EXCEPT ![s] = CloseBoundaryAborted(@, j)]
  /\ current' = [current EXCEPT ![s] = IF @ = j THEN NoJob ELSE @]
  /\ dispatch' = [dispatch EXCEPT ![j] = NoDispatch]
  /\ OwnerResumes(dispatch[j].by, TRUE, pc)
  /\ UNCHANGED <<counter, session, cancelling, pending_tasks, pending_results,
                 snapshot, live, callVars, delivered, rescued>>

-----------------------------------------------------------------------------
(* The job's asyncio task: _run_and_finalize *)

\* Up to the concurrency gate; a task cancelled before its first step never runs.
Start(j) ==
  /\ Turn(Free)
  /\ pc[j] = "new"
  /\ \/ /\ cancelling[j]
        /\ pc' = [pc EXCEPT ![j] = "done"]
        /\ cancelling' = [cancelling EXCEPT ![j] = FALSE]
        /\ UNCHANGED <<guardVars, status>>
     \/ /\ ~cancelling[j]
        /\ G!AcquireSlotNow(j)
        /\ pc' = [pc EXCEPT ![j] = "loop"]
        /\ status' = [status EXCEPT ![j] = "running"]
        /\ UNCHANGED cancelling
     \/ /\ ~cancelling[j]
        /\ G!AcquireSlotWait(j)
        /\ pc' = [pc EXCEPT ![j] = "gate"]
        /\ UNCHANGED <<status, cancelling>>
  /\ UNCHANGED <<counter, published, session, current, pending_tasks,
                 pending_results, history, snapshot, live, dispatch, callVars, wait,
                 delivered, rescued, turn>>

\* Granted a slot, or cancelled at the gate: the finally is then not reached.
Gate(j) ==
  /\ Turn(Free)
  /\ pc[j] = "gate"
  /\ \/ /\ ~cancelling[j]
        /\ G!AcquireSlotResume(j)
        /\ pc' = [pc EXCEPT ![j] = "loop"]
        /\ status' = [status EXCEPT ![j] = "running"]
     \/ /\ cancelling[j]
        /\ G!AcquireSlotCancelled(j)
        /\ pc' = [pc EXCEPT ![j] = "done"]
        /\ UNCHANGED status
  /\ cancelling' = [cancelling EXCEPT ![j] = FALSE]
  /\ UNCHANGED <<counter, published, session, current, pending_tasks,
                 pending_results, history, snapshot, live, dispatch, callVars, wait,
                 delivered, rescued, turn>>

\* What the ended loop leaves in the entry.
ResultOf(o) == IF o \in {"stub", "error"} THEN "failed" ELSE o
StatusOf(r) == IF r = "ok" THEN "completed" ELSE r

LoopEnds(j, o) ==
  /\ Turn(Free)
  /\ pc[j] = "loop"
  /\ o = "aborted" => cancelling[j]
  /\ published' = [published EXCEPT ![j] = ResultOf(o)]
  /\ status' = [status EXCEPT ![j] = StatusOf(ResultOf(o))]
  /\ cancelling' = [cancelling EXCEPT ![j] = FALSE]

\* The history after the loop: its turns absorbed and the last boundary closed.
Absorbed(h, j, o) ==
  CASE o = "ok"   -> CloseBoundary(h, j, <<Message(j, "turn"), Message(j, "final")>>)
    [] o = "stub" -> CloseBoundary(h, j, <<Message(j, "turn")>>)
    [] OTHER      -> CloseBoundaryAborted(h, j)

\* Session job: the result is published, then the completion event is sent.
FinishRun(j, o) ==
  LET s == session[j] IN
  /\ s # NoSession
  /\ LoopEnds(j, o)
  /\ history' = [history EXCEPT ![s] = Absorbed(@, j, o)]
  /\ pending_results' = [pending_results EXCEPT ![s] = Append(@, j)]
  /\ pc' = [pc EXCEPT ![j] = "emit"]
  /\ IF SinkSuspends THEN Suspend ELSE RunOn(j)
  /\ UNCHANGED <<guardVars, counter, session, current, pending_tasks, snapshot,
                 live, dispatch, callVars, wait, delivered, rescued>>

\* Job of submit(): status, result and release in one step.
FinishJob(j, o) ==
  /\ session[j] = NoSession
  /\ LoopEnds(j, o)
  /\ G!Release(j)
  /\ pc' = [pc EXCEPT ![j] = "done"]
  /\ UNCHANGED <<counter, session, current, pending_tasks, pending_results, history,
                 snapshot, live, dispatch, callVars, wait, delivered, rescued, turn>>

\* The finally block: release, free the session, compute the trimmed history.
Finalize(j) ==
  LET s == session[j]
      h == history[s] IN
  /\ Turn(j)
  /\ pc[j] = "emit"
  /\ G!Release(j)
  /\ current' = [current EXCEPT ![s] = IF @ = j THEN NoJob ELSE @]
  /\ snapshot' = [snapshot EXCEPT ![j] = TrimAndRemap(h.messages, h.boundaries)]
  /\ cancelling' = [cancelling EXCEPT ![j] = FALSE]
  /\ pc' = [pc EXCEPT ![j] = "trim"]
  /\ IF OffloadSuspends /\ ~NothingCompleted(h.messages, h.boundaries)
     THEN Suspend ELSE RunOn(j)
  /\ UNCHANGED <<counter, status, published, session, pending_tasks, pending_results,
                 history, live, dispatch, callVars, wait, delivered, rescued>>

\* _eager_trim_and_offload writes its snapshot back; a cancellation delivered at
\* the to_thread await leaves the finally block without draining.
FinalizeTrim(j) ==
  LET s == session[j] IN
  /\ Turn(j)
  /\ pc[j] = "trim"
  /\ snapshot' = [snapshot EXCEPT ![j] = EmptyHistory]
  /\ cancelling' = [cancelling EXCEPT ![j] = FALSE]
  /\ \/ /\ cancelling[j]
        /\ pc' = [pc EXCEPT ![j] = "done"]
        /\ Suspend
        /\ UNCHANGED history
     \/ /\ ~cancelling[j]
        /\ history' = [history EXCEPT ![s] = snapshot[j]]
        /\ pc' = [pc EXCEPT ![j] = "drain"]
        /\ RunOn(j)
  /\ UNCHANGED <<guardVars, counter, status, published, session, current,
                 pending_tasks, pending_results, live, dispatch, callVars, wait,
                 delivered, rescued>>

\* _drain_session_queue with something to dispatch; the trimmer may raise
\* before the entry is touched.
DispatchNext(s, by, pcs) ==
  LET q == DropAborted(pending_tasks[s])
      j == Head(q) IN
  /\ q # <<>>
  /\ pending_tasks' = [pending_tasks EXCEPT ![s] = Tail(q)]
  /\ \/ /\ DispatchTask(s, j, by)
        /\ pc' = [pcs EXCEPT ![j] = "new"]
        /\ wait' = IF by # Waiter THEN wait
                   ELSE [wait EXCEPT !.at = IF @ = "drain1" THEN "handoff1" ELSE "handoff2",
                                     !.todo = @ \ {s}]
        /\ Suspend
        /\ UNCHANGED guardVars
     \/ /\ "trim" \in Failures
        /\ G!Release(j)
        /\ OwnerResumes(by, TRUE, pcs)
        /\ UNCHANGED <<history, status, current, dispatch>>

\* (Faulty variant: the finally block does not hand over to the next task.)
Drain_Forgotten(j) ==
  /\ Turn(j)
  /\ pc[j] = "drain"
  /\ OwnerResumes(j, FALSE, pc)
  /\ UNCHANGED <<guardVars, counter, status, published, session, cancelling, current,
                 pending_tasks, pending_results, history, snapshot, live, dispatch,
                 callVars, delivered, rescued>>

\* The finisher drains its session's queue, as its task's last step.
Drain(j) ==
  LET s == session[j] IN
  /\ Turn(j)
  /\ pc[j] = "drain"
  /\ \/ DispatchNext(s, j, [pc EXCEPT ![j] = "handoff"])
     \/ /\ DropAborted(pending_tasks[s]) = <<>>
        /\ pending_tasks' = [pending_tasks EXCEPT ![s] = <<>>]
        /\ OwnerResumes(j, FALSE, pc)
        /\ UNCHANGED <<guardVars, history, status, current, dispatch>>
  /\ UNCHANGED <<counter, published, session, cancelling, pending_results, snapshot,
                 live, callVars, delivered, rescued>>

-----------------------------------------------------------------------------
(* abort *)

Abort(j) ==
  /\ "abort" \in Calls
  /\ Turn(Free)
  /\ status[j] # "none"
  /\ ~IsTerminal(j)
  /\ \/ /\ IsQueued(j)
        /\ MarkJobAborted(j)
        /\ pending_tasks' = [s \in Sessions |-> Purged(pending_tasks[s], {j})]
        /\ UNCHANGED <<cancelling, aborting>>
     \/ /\ ~IsQueued(j)
        /\ j \notin aborting
        /\ aborting' = aborting \cup {j}
        /\ cancelling' = [cancelling EXCEPT ![j] = ~TaskDone(j)]
        /\ UNCHANGED <<guardVars, status, published, pending_tasks>>
  /\ UNCHANGED <<counter, pc, session, current, pending_results, history, snapshot,
                 live, dispatch, sweep, clean, wait, delivered, rescued, turn>>

\* After the awaited task ended.
AbortDone(j) ==
  /\ Turn(Free)
  /\ j \in aborting
  /\ TaskDone(j)
  /\ aborting' = aborting \ {j}
  /\ \/ /\ published[j] = "ok"
        /\ status' = [status EXCEPT ![j] = "completed"]
        /\ UNCHANGED <<guardVars, published>>
     \/ /\ published[j] # "ok"
        /\ status[j] \notin {"completed", "failed"}
        /\ MarkJobAborted(j)
     \/ /\ published[j] # "ok"
        /\ status[j] \in {"completed", "failed"}
        /\ UNCHANGED <<guardVars, status, published>>
  /\ UNCHANGED <<counter, pc, cancelling, session, current, pending_tasks,
                 pending_results, history, snapshot, live, dispatch, sweep, clean,
                 wait, delivered, rescued, turn>>

-----------------------------------------------------------------------------
(* cancel_for_parent *)

Unfinished == {j \in Jobs : status[j] # "none" /\ ~IsTerminal(j)}

\* The snapshot, and the first pass: queued jobs are purged and marked.
SweepStart ==
  LET queued == {j \in Unfinished : IsQueued(j)} IN
  /\ "sweep" \in Calls
  /\ Turn(Free)
  /\ sweep.at = "idle"
  /\ Unfinished # {}
  /\ ReleaseUnstarted(queued)
  /\ status' = MarkedStatus(queued)
  /\ published' = MarkedResult(queued)
  /\ pending_tasks' = [s \in Sessions |-> Purged(pending_tasks[s], queued)]
  /\ sweep' = [at |-> "run", jobs |-> Unfinished, todo |-> Unfinished \ queued]
  /\ RunOn(Sweeper)
  /\ UNCHANGED <<counter, pc, cancelling, session, current, pending_results, history,
                 snapshot, live, dispatch, aborting, clean, wait, delivered, rescued>>

\* The second pass cancels one unfinished job at a time, in the order of the
\* ids, and awaits it.
SweepCancel ==
  LET left == {i \in sweep.todo : ~IsTerminal(i)}
      j    == Min(left) IN
  /\ Turn(Sweeper)
  /\ sweep.at = "run"
  /\ \/ /\ left # {}
        /\ cancelling' = [cancelling EXCEPT ![j] = ~TaskDone(j)]
        /\ sweep' = [sweep EXCEPT !.at = "await", !.todo = left]
     \/ /\ left = {}
        /\ sweep' = Idle
        /\ UNCHANGED cancelling
  /\ Suspend
  /\ UNCHANGED <<guardVars, counter, status, published, pc, session, current,
                 pending_tasks, pending_results, history, snapshot, live, dispatch,
                 aborting, clean, wait, delivered, rescued>>

SweepAwaited ==
  LET j == Min(sweep.todo) IN
  /\ Turn(Free)
  /\ sweep.at = "await"
  /\ TaskDone(j)
  /\ \/ ~IsTerminal(j) /\ MarkJobAborted(j)
     \/ IsTerminal(j) /\ UNCHANGED <<guardVars, status, published>>
  /\ sweep' = [sweep EXCEPT !.at = "run", !.todo = @ \ {j}]
  /\ RunOn(Sweeper)
  /\ UNCHANGED <<counter, pc, cancelling, session, current, pending_tasks,
                 pending_results, history, snapshot, live, dispatch, aborting, clean,
                 wait, delivered, rescued>>

-----------------------------------------------------------------------------
(* cleanup_task *)

CleanStart ==
  /\ "clean" \in Calls
  /\ Turn(Free)
  /\ clean.at = "idle"
  /\ \E s \in Sessions : live[s] = "live"
  /\ clean' = [at |-> "run", jobs |-> {}, todo |-> {s \in Sessions : live[s] = "live"}]
  /\ RunOn(Cleaner)
  /\ UNCHANGED <<guardVars, counter, jobVars, session, current, pending_tasks,
                 pending_results, history, snapshot, live, dispatch, aborting, sweep,
                 wait, delivered, rescued>>

\* (Faulty variant: reads the results without popping them.)
Rescue_Copies(s) ==
  /\ rescued' = rescued \cup ToSet(pending_results[s])
  /\ UNCHANGED pending_results

Rescue(s) ==
  /\ rescued' = rescued \cup ToSet(pending_results[s])
  /\ pending_results' = [pending_results EXCEPT ![s] = <<>>]

\* (Faulty variant: the queue is left for the cancelled job's finally.)
CleanSession_KeepsQueue ==
  LET s == Min(clean.todo)
      j == current[s] IN
  /\ Turn(Cleaner)
  /\ clean.at = "run"
  /\ clean.todo # {}
  /\ Rescue(s)
  /\ \/ /\ SessionBusy(s)
        /\ cancelling' = [cancelling EXCEPT ![j] = ~TaskDone(j)]
        /\ clean' = [clean EXCEPT !.at = "await", !.jobs = {j}]
        /\ Suspend
     \/ /\ ~SessionBusy(s)
        /\ clean' = [clean EXCEPT !.at = "drop"]
        /\ RunOn(Cleaner)
        /\ UNCHANGED cancelling
  /\ UNCHANGED <<guardVars, counter, status, published, pc, session, current,
                 pending_tasks, history, snapshot, live, dispatch, aborting, sweep,
                 wait, delivered>>

\* Rescue, abort the queue, cancel the current job and await it.
CleanSession ==
  LET s == Min(clean.todo)
      j == current[s] IN
  /\ Turn(Cleaner)
  /\ clean.at = "run"
  /\ clean.todo # {}
  /\ Rescue(s)
  /\ ReleaseUnstarted(ToSet(pending_tasks[s]))
  /\ status' = MarkedStatus(ToSet(pending_tasks[s]))
  /\ published' = MarkedResult(ToSet(pending_tasks[s]))
  /\ pending_tasks' = [pending_tasks EXCEPT ![s] = <<>>]
  /\ \/ /\ SessionBusy(s)
        /\ cancelling' = [cancelling EXCEPT ![j] = ~TaskDone(j)]
        /\ clean' = [clean EXCEPT !.at = "await", !.jobs = {j}]
        /\ Suspend
     \/ /\ ~SessionBusy(s)
        /\ clean' = [clean EXCEPT !.at = "drop"]
        /\ RunOn(Cleaner)
        /\ UNCHANGED cancelling
  /\ UNCHANGED <<counter, pc, session, current, history, snapshot, live, dispatch,
                 aborting, sweep, wait, delivered>>

\* asyncio.wait_for cancels again at its timeout but returns only when the task
\* has ended.
CleanAwaited ==
  \E j \in clean.jobs :
    /\ Turn(Free)
    /\ clean.at = "await"
    /\ TaskDone(j)
    /\ \/ ~IsTerminal(j) /\ MarkJobAborted(j)
       \/ IsTerminal(j) /\ UNCHANGED <<guardVars, status, published>>
    /\ clean' = [clean EXCEPT !.at = "drop", !.jobs = {}]
    /\ RunOn(Cleaner)
    /\ UNCHANGED <<counter, pc, cancelling, session, current, pending_tasks,
                   pending_results, history, snapshot, live, dispatch, aborting,
                   sweep, wait, delivered, rescued>>

\* Rescue again, drop the session, go on or return.
CleanDrop ==
  LET s == Min(clean.todo) IN
  /\ Turn(Cleaner)
  /\ clean.at = "drop"
  /\ Rescue(s)
  /\ live' = [live EXCEPT ![s] = "dropped"]
  /\ clean' = IF clean.todo = {s} THEN Idle
              ELSE [clean EXCEPT !.at = "run", !.todo = @ \ {s}]
  /\ IF clean.todo = {s} THEN Suspend ELSE RunOn(Cleaner)
  /\ UNCHANGED <<guardVars, counter, jobVars, session, current, pending_tasks,
                 history, snapshot, dispatch, aborting, sweep, wait, delivered>>

-----------------------------------------------------------------------------
(* wait_any_session *)

Ready == {s \in Sessions : live[s] = "live" /\ pending_results[s] # <<>>}

PopReadyResult ==
  LET s == Min(Ready) IN
  /\ delivered' = [delivered EXCEPT ![Head(pending_results[s])] = @ + 1]
  /\ pending_results' = [pending_results EXCEPT ![s] = Tail(@)]

\* _reconcile_terminal_session_jobs up to its drains: the current job's task
\* ended without its finally.
Dead == {s \in Sessions : live[s] = "live" /\ current[s] # NoJob /\ TaskDone(current[s])}

ReconcileTerminalSessionJobs(phase) ==
  LET jobs == {current[s] : s \in Dead}
      lost == {j \in jobs : published[j] = "none"}
      res  == [j \in Jobs |-> IF j \in lost THEN "aborted" ELSE published[j]] IN
  /\ published' = res
  /\ status' = [j \in Jobs |-> IF j \in jobs THEN StatusOf(res[j]) ELSE status[j]]
  /\ history' = [s \in Sessions |-> IF s \in Dead /\ current[s] \in lost
                                    THEN CloseBoundaryAborted(history[s], current[s])
                                    ELSE history[s]]
  /\ pending_results' =
       [s \in Sessions |-> IF s \in Dead /\ current[s] \notin ToSet(pending_results[s])
                           THEN Append(pending_results[s], current[s])
                           ELSE pending_results[s]]
  /\ current' = [s \in Sessions |-> IF s \in Dead THEN NoJob ELSE current[s]]
  /\ ReleaseUnstarted(jobs)
  /\ wait' = [at |-> phase, todo |-> Dead, jobs |-> {}]
  /\ RunOn(Waiter)
  /\ UNCHANGED <<counter, pc, cancelling, session, pending_tasks, snapshot, live,
                 dispatch, callVars, delivered, rescued>>

WaitReturns == wait' = Idle /\ Suspend

Awaitable == {j \in {current[s] : s \in {s \in Sessions : live[s] = "live"}} :
                j # NoJob /\ status[j] \in Busy /\ ~TaskDone(j)}

WaitBegins ==
  /\ wait' = [Idle EXCEPT !.at = "wait", !.jobs = Awaitable]
  /\ Suspend

\* A call that finds neither a result nor a task to wait for returns without
\* a trace ("no_pending") and is no step.
WaitCall ==
  /\ "wait" \in Calls
  /\ Turn(Free)
  /\ wait.at = "idle"
  /\ \/ /\ Ready # {}
        /\ PopReadyResult
        /\ UNCHANGED <<guardVars, counter, jobVars, session, current, pending_tasks,
                       history, snapshot, live, dispatch, callVars, wait, rescued, turn>>
     \/ Ready = {} /\ Dead # {} /\ ReconcileTerminalSessionJobs("drain1")
     \/ /\ Ready = {} /\ Dead = {} /\ Awaitable # {}
        /\ WaitBegins
        /\ UNCHANGED <<guardVars, counter, jobVars, session, current, pending_tasks,
                       pending_results, history, snapshot, live, dispatch, callVars,
                       delivered, rescued>>

WaitDrain ==
  LET s == Min(wait.todo) IN
  /\ Turn(Waiter)
  /\ wait.at \in {"drain1", "drain2"}
  /\ wait.todo # {}
  /\ \/ DispatchNext(s, Waiter, pc)
     \/ /\ DropAborted(pending_tasks[s]) = <<>>
        /\ pending_tasks' = [pending_tasks EXCEPT ![s] = <<>>]
        /\ wait' = [wait EXCEPT !.todo = @ \ {s}]
        /\ RunOn(Waiter)
        /\ UNCHANGED <<guardVars, history, status, pc, current, dispatch>>
  /\ UNCHANGED <<counter, published, session, cancelling, pending_results, snapshot,
                 live, callVars, delivered, rescued>>

\* After the drains: a result, the tasks to wait for, or nothing.
WaitDrained ==
  /\ Turn(Waiter)
  /\ wait.at \in {"drain1", "drain2"}
  /\ wait.todo = {}
  /\ \/ /\ Ready # {}
        /\ PopReadyResult
        /\ WaitReturns
     \/ /\ Ready = {}
        /\ wait.at = "drain1" /\ Awaitable # {}
        /\ WaitBegins
        /\ UNCHANGED <<delivered, pending_results>>
     \/ /\ Ready = {}
        /\ wait.at = "drain2" \/ Awaitable = {}
        /\ WaitReturns
        /\ UNCHANGED <<delivered, pending_results>>
  /\ UNCHANGED <<guardVars, counter, jobVars, session, current, pending_tasks,
                 history, snapshot, live, dispatch, callVars, rescued>>

WaitWake ==
  /\ Turn(Free)
  /\ wait.at = "wait"
  /\ \E j \in wait.jobs : TaskDone(j)
  /\ ReconcileTerminalSessionJobs("drain2")

WaitTimeout ==
  /\ Turn(Free)
  /\ wait.at = "wait"
  /\ WaitReturns
  /\ UNCHANGED <<guardVars, counter, jobVars, session, current, pending_tasks,
                 pending_results, history, snapshot, live, dispatch, callVars,
                 delivered, rescued>>

-----------------------------------------------------------------------------
TaskStep(j) ==
  \/ Start(j) \/ Gate(j) \/ \E o \in Outcomes : FinishRun(j, o) \/ FinishJob(j, o)
  \/ Finalize(j) \/ FinalizeTrim(j) \/ Drain(j)

SweepStep == SweepCancel \/ SweepAwaited
CleanStep == CleanSession \/ CleanAwaited \/ CleanDrop
WaitStep == WaitDrain \/ WaitDrained \/ WaitWake

Next ==
  \/ Submit
  \/ \E s \in Sessions : CreateSession(s) \/ SubmitTask(s)
  \/ \E j \in Jobs : \/ TaskStep(j) \/ DispatchDone(j) \/ DispatchFail(j) \/ Reaped(j)
                     \/ Abort(j) \/ AbortDone(j)
  \/ SweepStart \/ CleanStart \/ WaitCall \/ WaitTimeout
  \/ SweepStep \/ CleanStep \/ WaitStep

JobStep(j) == TaskStep(j) \/ DispatchDone(j) \/ Reaped(j) \/ AbortDone(j)

\* The event loop runs every coroutine that can go on (other coroutines hold
\* the turn only finitely often), a sub-agent loop ends (by its wall-clock
\* guard or the wait_for around it), and the coordinator keeps collecting.
\* Nothing makes the host submit, abort, sweep or clean up.
Fairness ==
  /\ \A j \in Jobs : WF_vars(JobStep(j))
  /\ WF_vars(SweepStep) /\ WF_vars(CleanStep) /\ WF_vars(WaitStep) /\ WF_vars(WaitCall)

Spec == Init /\ [][Next]_vars
FairSpec == Spec /\ Fairness

-----------------------------------------------------------------------------
(* Properties *)

TypeOK ==
  /\ G!TypeOK
  /\ counter \in 0..MaxJobs
  /\ status \in [Jobs -> {"none", "queued"} \cup Busy \cup Terminal]
  /\ published \in [Jobs -> {"none", "ok", "failed", "aborted"}]
  /\ session \in [Jobs -> Sessions \cup {NoSession}]
  /\ pc \in [Jobs -> {"none", "new", "gate", "loop", "emit", "trim", "drain",
                      "handoff", "done"}]
  /\ cancelling \in [Jobs -> BOOLEAN]
  /\ current \in [Sessions -> Jobs \cup {NoJob}]
  /\ pending_tasks \in [Sessions -> Seq(Jobs)]
  /\ pending_results \in [Sessions -> Seq(Jobs)]
  /\ live \in [Sessions -> {"absent", "live", "dropped"}]
  /\ dispatch \in [Jobs -> [by : Jobs \cup {NoJob, Host, Waiter},
                            at : {"none", "emitting", "reaping"}]]
  /\ aborting \subseteq Jobs
  /\ delivered \in [Jobs -> Nat]
  /\ rescued \subseteq Jobs
  /\ turn \in Jobs \cup {Free, Waiter, Sweeper, Cleaner}

\* "A leaked reservation is permanent" (submit): a reservation exists only
\* while somebody will still release it: the queue, the task's finally, or the
\* call that awaits the ended task.
Settling(j) ==
  /\ TaskDone(j)
  /\ \/ j \in aborting
     \/ dispatch[j].at = "reaping"
     \/ sweep.at = "await" /\ Min(sweep.todo) = j
     \/ clean.at = "await" /\ j \in clean.jobs
ReservationOwned ==
  \A j \in Jobs : active[j] # "none" =>
    \/ \E s \in Sessions : Contains(pending_tasks[s], j)
    \/ pc[j] \in {"new", "gate", "loop", "emit"}
    \/ Settling(j)

\* submit_task_to_session: "Sessions execute tasks strictly serially".
SerialExecution ==
  \A i, j \in Jobs :
    /\ session[i] = session[j] /\ session[i] # NoSession
    /\ {pc[i], pc[j]} \subseteq {"new", "gate", "loop"}
    => i = j

\* The SubAgentSession boundary invariant: every closed boundary holds a clean
\* final report, whatever way its task ended.
ClosedBoundariesReport == \A s \in Sessions : BoundaryHasReport(history[s])

\* The tasks of a session run one after the other, and each leaves a closed
\* boundary with a report to the one after it.
SerialHistory == SerialExecution /\ ClosedBoundariesReport

\* A job's task prompt stays in the session's history once it is dispatched:
\* no trim write-back loses a task that started meanwhile.
PromptKept ==
  \A j \in Jobs : session[j] # NoSession /\ pc[j] # "none" =>
    Cardinality({i \in DOMAIN history[session[j]].messages :
      history[session[j]].messages[i] = Message(j, "prompt")}) = 1

\* A published result is pending, delivered or rescued, exactly once.
Occurrences(q, j) == Cardinality({i \in DOMAIN q : q[i] = j})
ResultOnce ==
  \A j \in Jobs :
    LET n == delivered[j] + (IF j \in rescued THEN 1 ELSE 0)
             + (IF session[j] = NoSession THEN 0
                ELSE Occurrences(pending_results[session[j]], j))
    IN  /\ n <= 1
        /\ session[j] # NoSession /\ pc[j] \in {"emit", "trim", "drain", "handoff"} => n = 1

\* The sessions as the status helpers read them.
SessionView(s) ==
  [current |-> IF current[s] = NoJob THEN "none" ELSE status[current[s]],
   queued |-> Len(pending_tasks[s]), results |-> Len(pending_results[s]),
   tasks |-> Cardinality({j \in Jobs : session[j] = s /\ pc[j] # "none"}),
   report |-> \E j \in Jobs : session[j] = s /\ published[j] = "ok"]
LiveViews == {SessionView(s) : s \in {s \in Sessions : live[s] = "live"}}

\* session_state: the coordinator "should keep waiting rather than concluding
\* all_collected": whenever it may ask, no summary says that the work is done
\* while a result is uncollected or still to come from a job that holds its
\* reservation.
CoordinatorInformed ==
  LET done == {"no_subagents", "no_work_queued", "all_collected"}
      owed(s) == \E j \in Jobs :
                   /\ session[j] = s
                   /\ \/ active[j] # "none" /\ published[j] = "none"
                      \/ Contains(pending_results[s], j)
  IN  turn = Free =>
        /\ SessionState(LiveViews) \in done \/ StatusLine(LiveViews, {}) \cap done # {} =>
             \A s \in Sessions : live[s] = "live" => ~owed(s)
        /\ \A s \in Sessions : live[s] = "live" /\ Described(SessionView(s)) \in {"idle", "unassigned"} =>
             ~owed(s)

\* A finished job keeps its status: an abort, a sweep or a reconciliation that
\* loses the race with the job's own end does not rewrite it.
TerminalStable ==
  [][\A j \in Jobs : IsTerminal(j) => status'[j] = status[j]]_vars

\* cancel_for_parent: "neither survives the round boundary": when it returns
\* every job it found unfinished is terminal and holds no reservation.
SweepSettles ==
  [][sweep.at = "run" /\ sweep'.at = "idle" =>
       \A j \in sweep.jobs : status'[j] \in Terminal
                             /\ (active'[j] # "none" => pc[j] \in {"emit"})]_vars

\* cleanup_task drops a session only when none of its jobs can still run or
\* wait, and no result of it is left behind.
CleanSettles ==
  [][\A s \in Sessions : live[s] = "live" /\ live'[s] = "dropped" =>
       /\ pending_tasks'[s] = <<>> /\ pending_results'[s] = <<>>
       /\ \A j \in Jobs : session[j] = s => pc[j] \notin {"new", "gate", "loop"}]_vars

\* What the two teardown calls promise about what they leave behind.
TeardownSettles == SweepSettles /\ CleanSettles

\* Every queued task is eventually finished: the session "continues draining
\* without the main agent having to re-call assign_task".
QueueDrains == \A j \in Jobs : status[j] = "queued" ~> IsTerminal(j)

\* abort, cancel_for_parent and cleanup_task return.
CallsReturn ==
  /\ sweep.at # "idle" ~> sweep.at = "idle"
  /\ clean.at # "idle" ~> clean.at = "idle"
  /\ \A j \in Jobs : j \in aborting ~> j \notin aborting

\* While jobs are aborted, swept and cleaned up, the queue still drains and
\* every call that tears something down comes back.
TeardownReturns == QueueDrains /\ CallsReturn
=============================================================================
