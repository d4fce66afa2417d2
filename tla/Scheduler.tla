------------------------------ MODULE Scheduler -----------------------------
(***************************************************************************)
(* Scheduler.execute (scheduling/scheduler.py) driving MiniDAGRunner       *)
(* (runtime/dag/minidag.py) for one task.  A runner is one call of         *)
(* execute; the host may launch another one while the first is still       *)
(* running, and only the runner whose execution token is the task's active *)
(* token may decide the task's fate.                                       *)
(*                                                                         *)
(* The state of the graph is abstracted to its log, the nodes whose deltas *)
(* were merged (a field with an operator.add reducer), and whether a       *)
(* merged delta held a reader-facing output.  Process manager and          *)
(* checkpointer are external stores.                                       *)
(***************************************************************************)
EXTENDS DagGraph

CONSTANTS
  Runners,   \* calls of execute, 1..n in launch order
  Specs,     \* the pipeline specs a task may name, valid or not
  Reports,   \* nodes whose delta holds report or final_content
  MaxSteps,  \* _MAX_STEPS
  Yields,    \* points where a runner lets others run
  MaxHostOps \* bound: suspensions, aborts and crashes

NoCheckpoint == [log |-> <<>>, next |-> End]

Points == {"idle", "start", "mark", "compile", "load", "node", "save", "chunk", "consume", "advance",
           "final", "reading", "final2", "complete", "raised", "aborting", "failing", "done"}

ASSUME SchedulerAssumption ==
  /\ Runners \subseteq Nat \ {0} /\ MaxSteps \in Nat \ {0} /\ MaxHostOps \in Nat
  /\ \A p \in Specs : p.nodes # {} /\ End \notin p.nodes /\ DOMAIN p.transitions \subseteq Nat
  /\ {"idle", "node", "consume", "done"} \subseteq Yields /\ Yields \subseteq Points

VARIABLES
  spec,             \* the pipeline of the task
  status, active,   \* TaskStatus and context["active_execution_token"]
  ckpt,             \* the latest checkpoint of the thread
  cache,            \* MiniDAGRunner._states[thread]; <<>> before the first node
  run,              \* run[r]: point, log, next node, steps taken, kind of failure
  lost,             \* the last runner was cancelled, crashed or had no graph
  hostOps

stores == <<status, active, ckpt, cache, lost, hostOps>>
vars == <<spec, stores, run>>

Graph == Build(spec)
Locals(point) == [pc |-> point, log |-> <<>>, next |-> End, step |-> 0, err |-> ""]

Init ==
  /\ spec \in Specs
  /\ status = "created" /\ active = 0
  /\ ckpt = NoCheckpoint /\ cache = <<>>
  /\ run = [r \in Runners |-> Locals("idle")]
  /\ lost = FALSE /\ hostOps = 0

\* Between two suspension points a coroutine runs alone.
Scheduled(r) == \A q \in Runners \ {r} : run[q].pc \in Yields
At(r, point) == run[r].pc = point /\ Scheduled(r)
Goto(r, point) ==
  run' = [run EXCEPT ![r] = IF point = "done" THEN Locals("done") ELSE [@ EXCEPT !.pc = point]]
Raise(r, kind) == run' = [run EXCEPT ![r].pc = "raised", ![r].err = kind]
Live(r) == run[r].pc \notin {"idle", "done"}

\* (Faulty variant: every runner takes itself for the current one.)
Stale_Never(r) == FALSE

\* _is_stale_execution.
Stale(r) == active # r

\* _has_terminal_output.
HasTerminalOutput(log) == \E i \in DOMAIN log : log[i].ok /\ log[i].node \in Reports

---------------------------------------------------------------------------
\* MiniDAGRunner.

\* (Faulty variant: resumes at the node the checkpoint completed.)
LoadOrInit_Completed == 
  IF ckpt.next # End THEN [log |-> ckpt.log, next |-> ckpt.log[Len(ckpt.log)].node]
  ELSE [log |-> <<>>, next |-> Graph.entry]

\* _load_or_init: a checkpoint with a next node is resumed, else a fresh start.
LoadOrInit ==
  IF ckpt.next # End THEN [log |-> ckpt.log, next |-> ckpt.next]
  ELSE [log |-> <<>>, next |-> Graph.entry]

Load(r) ==
  /\ At(r, "load")
  /\ run' = [run EXCEPT ![r].pc = "node", ![r].log = LoadOrInit.log, ![r].next = LoadOrInit.next]
  /\ UNCHANGED stores

\* The node returned, possibly after retries; its delta is merged and the
\* next node resolved.  ok is FALSE when the middleware suppressed its error.
NodeEnds(r, ok, next) ==
  /\ At(r, "node")
  /\ next \in ResolveNext(Graph, run[r].next)
  /\ run' = [run EXCEPT ![r].pc = "save", ![r].step = @ + 1, ![r].next = next,
                        ![r].log = Append(@, [node |-> run[r].next, ok |-> ok])]
  /\ UNCHANGED stores

NodeFails(r) == At(r, "node") /\ Raise(r, "error") /\ UNCHANGED stores

Save(r) ==
  /\ At(r, "save")
  /\ ckpt' = [log |-> run[r].log, next |-> run[r].next]
  /\ cache' = run[r].log
  /\ Goto(r, "chunk")
  /\ UNCHANGED <<status, active, lost, hostOps>>

StoreFails(r) ==
  /\ run[r].pc \in {"load", "save"} /\ Scheduled(r)
  /\ Raise(r, "error")
  /\ UNCHANGED stores

\* The generator is resumed for the next chunk.
Advance(r) ==
  /\ At(r, "advance")
  /\ Goto(r, IF run[r].next = End \/ run[r].step >= MaxSteps THEN "final" ELSE "node")
  /\ UNCHANGED stores

---------------------------------------------------------------------------
\* Scheduler.execute.

Start(r) ==
  /\ At(r, "start")
  /\ Goto(r, IF status # "running" THEN "mark" ELSE "compile")
  /\ UNCHANGED stores

MarkRunning(r) ==
  /\ At(r, "mark")
  /\ status' = "running"
  /\ Goto(r, "compile")
  /\ UNCHANGED <<active, ckpt, cache, lost, hostOps>>

\* _get_graph: a graph that does not validate raises here, before the try
\* that would record the failure, with the task already running.
CompileGraph(r) ==
  /\ At(r, "compile")
  /\ Goto(r, IF Errors(Graph) = {} THEN "load" ELSE "done")
  /\ lost' = (lost \/ (Errors(Graph) # {} /\ ~Stale(r)))
  /\ UNCHANGED <<status, active, ckpt, cache, hostOps>>

\* Before a chunk is delivered.
CheckBeforeChunk(r) ==
  /\ At(r, "chunk")
  /\ Goto(r, IF Stale(r) THEN "done" ELSE "consume")
  /\ UNCHANGED stores

\* The consumer is done with the chunk: the phase boundary.
CheckAfterChunk(r) ==
  /\ At(r, "consume")
  /\ Goto(r, IF Stale(r) \/ status \in {"suspended", "aborted"} THEN "done" ELSE "advance")
  /\ UNCHANGED stores

\* The graph has ended.
CheckFinished(r) ==
  /\ At(r, "final")
  /\ Goto(r, IF Stale(r) \/ status \in {"suspended", "aborted", "completed"}
             THEN "done" ELSE "reading")
  /\ UNCHANGED stores

\* _get_state_for_config: the thread's cached state, else its checkpoint.
ReadFinalState(r) ==
  /\ At(r, "reading")
  /\ IF HasTerminalOutput(IF cache # <<>> THEN cache ELSE ckpt.log)
     THEN Goto(r, "final2") ELSE Raise(r, "error")
  /\ UNCHANGED stores

CheckBeforeCompletion(r) ==
  /\ At(r, "final2")
  /\ Goto(r, IF Stale(r) \/ status = "completed" THEN "done" ELSE "complete")
  /\ UNCHANGED stores

Complete(r) ==
  /\ At(r, "complete")
  /\ status' = "completed"
  /\ Goto(r, "done")
  /\ UNCHANGED <<active, ckpt, cache, lost, hostOps>>

\* (Faulty variant: a failure that arrives late is not suppressed.)
HandleError_Unsuppressed(r) ==
  /\ At(r, "raised")
  /\ Goto(r, IF run[r].err = "wall" THEN "aborting" ELSE "failing")
  /\ UNCHANGED stores

\* except Exception: a failure counts only while the task is still ours.
HandleError(r) ==
  /\ At(r, "raised")
  /\ Goto(r, IF Stale(r) \/ status \in {"completed", "suspended", "aborted"} THEN "done"
             ELSE IF run[r].err = "wall" THEN "aborting" ELSE "failing")
  /\ UNCHANGED stores

AbortTask(r) ==
  /\ At(r, "aborting")
  /\ status' = "aborted"
  /\ Goto(r, "done")
  /\ UNCHANGED <<active, ckpt, cache, lost, hostOps>>

SetError(r) ==
  /\ At(r, "failing")
  /\ status' = "failed"
  /\ Goto(r, "done")
  /\ UNCHANGED <<active, ckpt, cache, lost, hostOps>>

\* (Faulty variant: the deadline is looked at between nodes only.)
WallTimeExceeded_BetweenNodes(r, wrote) ==
  /\ run[r].pc = "advance" /\ Scheduled(r)
  /\ ~wrote
  /\ Raise(r, "wall")
  /\ UNCHANGED stores

\* _astream_with_wall_time cancels whatever __anext__ was waiting for; a save
\* that was under way may have reached the store.
WallTimeExceeded(r, wrote) ==
  /\ run[r].pc \in ({"load", "node", "save"} \cap Yields) \cup {"advance"} /\ Scheduled(r)
  /\ wrote => run[r].pc = "save"
  /\ Raise(r, "wall")
  /\ ckpt' = IF wrote THEN [log |-> run[r].log, next |-> run[r].next] ELSE ckpt
  /\ UNCHANGED <<status, active, cache, lost, hostOps>>

---------------------------------------------------------------------------
\* The host (external), as execute is used: tokens, suspension, abort.

Quiet == \A r \in Runners : run[r].pc \in Yields

\* A new runner, with the active token: a first start, a resume, a retry of a
\* failed task, or a takeover of a running one.
Launch(r) ==
  /\ Quiet
  /\ run[r].pc = "idle" /\ \A q \in Runners : q < r => run[q].pc # "idle"
  /\ status \in {"created", "running", "suspended", "failed"}
  /\ active' = r /\ lost' = FALSE
  /\ Goto(r, "start")
  /\ UNCHANGED <<status, ckpt, cache, hostOps>>

HostOp == Quiet /\ hostOps < MaxHostOps /\ hostOps' = hostOps + 1

SuspendTask ==
  /\ HostOp /\ status = "running" /\ status' = "suspended"
  /\ UNCHANGED <<active, ckpt, cache, lost, run>>

HostAbort ==
  /\ HostOp /\ status \in {"running", "suspended"} /\ status' = "aborted"
  /\ UNCHANGED <<active, ckpt, cache, lost, run>>

\* CancelledError is no Exception: nothing is recorded.
CancelRunner(r) ==
  /\ HostOp /\ Live(r)
  /\ lost' = (lost \/ active = r)
  /\ Goto(r, "done")
  /\ UNCHANGED <<status, active, ckpt, cache>>

Crash ==
  /\ HostOp /\ \E r \in Runners : Live(r)
  /\ run' = [r \in Runners |-> IF Live(r) THEN Locals("done") ELSE run[r]]
  /\ cache' = <<>> /\ lost' = TRUE
  /\ UNCHANGED <<status, active, ckpt>>

NodeStep(r) ==
  \/ \E ok \in BOOLEAN, next \in spec.nodes \cup {End} : NodeEnds(r, ok, next)
  \/ NodeFails(r)

RunnerStep(r) ==
  \/ Start(r) \/ MarkRunning(r) \/ CompileGraph(r) \/ Load(r) \/ Save(r) \/ StoreFails(r) \/ Advance(r)
  \/ CheckBeforeChunk(r) \/ CheckAfterChunk(r) \/ CheckFinished(r) \/ ReadFinalState(r)
  \/ CheckBeforeCompletion(r) \/ Complete(r) \/ HandleError(r) \/ AbortTask(r) \/ SetError(r)
  \/ \E wrote \in BOOLEAN : WallTimeExceeded(r, wrote)

Next ==
  /\ \/ \E r \in Runners : RunnerStep(r) \/ NodeStep(r) \/ Launch(r) \/ CancelRunner(r)
     \/ SuspendTask \/ HostAbort \/ Crash
  /\ UNCHANGED spec

\* A node may hang, so only the deadline is sure to end it; everything else a
\* runner waits for returns.
Spec == Init /\ [][Next]_vars /\ \A r \in Runners : WF_vars(RunnerStep(r) /\ UNCHANGED spec)

---------------------------------------------------------------------------
\* Type invariant.
TypeOK ==
  /\ status \in {"created", "running", "suspended", "aborted", "completed", "failed"}
  /\ active \in Runners \cup {0}
  /\ \A r \in Runners :
       /\ run[r].pc \in Points /\ run[r].next \in spec.nodes \cup {End}
       /\ run[r].step \in 0..MaxSteps /\ run[r].err \in {"", "error", "wall"}

\* What a pipeline spec itself says may follow a node.
Declared(p, n, m) ==
  LET from(i) == p.transitions[i].from = n IN
  \/ \E i \in DOMAIN p.transitions : from(i) /\ p.transitions[i].to = m
  \/ m = End /\ \A i \in DOMAIN p.transitions :
                   from(i) => \E k \in DOMAIN p.transitions : from(k) /\ p.transitions[k].cond

\* The nodes a log went through and the one after them, from the entry.
IsPath(p, log, next) ==
  LET nodes == [i \in 1..(Len(log) + 1) |-> IF i <= Len(log) THEN log[i].node ELSE next]
  IN  /\ nodes[1] = p.entry
      /\ \A i \in 1..Len(log) : nodes[i] \in p.nodes /\ Declared(p, nodes[i], nodes[i + 1])

\* What is persisted, and what every runner works on, is the outcome of one
\* walk through the pipeline as its spec declares it: across crashes, resumes, takeovers, and saves cut
\* off by the deadline, no node's delta is merged twice or left out.
PathExact ==
  /\ ckpt # NoCheckpoint => IsPath(spec, ckpt.log, ckpt.next)
  /\ \A r \in Runners : run[r].pc \in {"node", "save", "chunk", "consume", "advance"} =>
       IsPath(spec, run[r].log, run[r].next)

\* A task that says it is running has a runner, unless that runner was
\* cancelled, the process crashed, or the graph could not be compiled.
NotAbandoned == status = "running" => lost \/ (active # 0 /\ Live(active))

\* A task completes only with a reader-facing output in the thread's state.
CompletesWithOutput ==
  [][status # "completed" /\ status' = "completed" => HasTerminalOutput(cache)]_vars

\* A runner that was superseded never moves the task's status.
StaleSilent ==
  [][\A r \in Runners : (run'[r].pc # run[r].pc /\ active # r /\ active' = active)
       => status' = status]_vars

\* Only the runner that owns the task moves its status, and it completes the
\* task only with something to show.
OutcomeEarned == CompletesWithOutput /\ StaleSilent

Lifecycle == INSTANCE TaskLifecycle

\* The task's status lives as TaskLifecycle says: no outcome of a run
\* overwrites an abort or a suspension.
LifecycleRefined == Lifecycle!Spec

\* Every runner ends, hung nodes included.
RunnersEnd == \A r \in Runners : run[r].pc # "idle" ~> run[r].pc = "done"

\* A running task is being run, and its runner comes to an end.
RunnersSettle == []NotAbandoned /\ RunnersEnd
=============================================================================
