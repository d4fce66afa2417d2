----------------------------- MODULE GuardedRun -----------------------------
(***************************************************************************)
(* One loop run with the guards that bound it: the wall clock, followed by *)
(* the finalization phase and enforced from outside by a renewable lease   *)
(* (run_with_renewable_wall_time) or, for a sub-agent, by a plain          *)
(* wait_for; the observers that look for lack of progress; the middleware  *)
(* that refuses duplicate calls; and the history a finalization stage is   *)
(* handed.  conf says which of them the host attached.  Timers are         *)
(* punctual and bookkeeping takes no time; model and tool calls take any   *)
(* time up to their timeout.                                               *)
(***************************************************************************)
EXTENDS WallTime, GuardObservers, FinalRecovery

CONSTANTS
  Confs,          \* [kind, watch, batches, maxTurns, settings, leased, maxSession, budget]
  Threads,        \* callers of lease.renew
  MaxRenewals,    \* bound on renewals
  RenewTimes,     \* bound on when a thread calls renew
  LlmTimeout, ToolTimeout, Margin, Floor,
  DefaultReserve, MinimumPhase, Grace,
  Texts,          \* visible texts a reply may have, as sets of shingles
  Spend,          \* tokens a reply may use
  ResultBodies,   \* bodies a tool may return
  ResultBlocks,   \* numbered blocks a batched fetch may return
  Transparent,    \* reader and archive hosts
  Stuck, Repeat, TextRule, Rails, TokenLimit, ReserveTurns, Cooldown,
  Messages, MaxHistory, ItemMax, ContextMax, CutMin

ASSUME GuardedAssumption ==
  /\ MaxRenewals \in Nat /\ MaxHistory \in Nat
  /\ {LlmTimeout, ToolTimeout, Margin, Floor, DefaultReserve, MinimumPhase, Grace} \subseteq Nat

\* What a host may attach to a run.  A tick is short enough for half of a
\* total to be some time; a finalization that is late gets 1 s of a grace of
\* 5 s (the defaults of remaining_phase_budget_s and
\* run_with_renewable_wall_time).
ASSUME ConfsAssumption ==
  /\ Confs \subseteq [kind : {"root", "sub"}, watch : SUBSET STRING,
                      batches : SUBSET Seq([tool : STRING, urls : SUBSET STRING, named : SUBSET STRING]),
                      maxTurns : Nat, settings : AllSettings, leased : BOOLEAN,
                      maxSession : Nat \cup {NoTime}, budget : Nat]
  /\ \A c \in Confs : \A t \in Totals(c.settings) : t > 1
  /\ MinimumPhase < Grace /\ LlmTimeout > 0

\* A call has finitely many arguments.
ASSUME BatchesAssumption ==
  \A c \in Confs : \A b \in c.batches : \A i \in DOMAIN b : IsFiniteSet(b[i].urls \cup b[i].named)

\* The thresholds as the observers' constructors leave them.
ASSUME RulesAssumption ==
  /\ Stuck.block \in Nat \ {0} /\ Stuck.window \in Nat \ {0}
  /\ {Repeat.threshold, Repeat.stopAfter} \subseteq Nat /\ ReserveTurns \in Nat

VARIABLES
  conf,      \* what the host attached
  now,       \* the monotonic clock
  lease,     \* the renewable lease of the scope
  pending,   \* thread -> when it called renew, NoTime when it did not
  accepted,  \* when the latest renewal entered its critical section
  sup,       \* run_with_renewable_wall_time, or the sub-agent's wait_for
  view,      \* the wall-clock observer
  run,       \* the loop, then the finalization phase
  guards,    \* the observers' and the middleware's state
  trail,     \* what the turns of the run did, for the properties
  hist       \* a history handed to finalization

clocks == <<now, lease, pending, accepted>>
vars == <<conf, now, lease, pending, accepted, sup, view, run, guards, trail, hist>>

Watches(what) == what \in conf.watch
Ended(r) == r.pc \in {"done", "cancelled"}

NoSettings == [research |-> Unset, total |-> Unset, reserve |-> Unset, envReport |-> Unset,
               envResearch |-> Unset, envTotal |-> Unset, legacyTotal |-> Unset]

Init ==
  /\ conf \in Confs
  /\ now = 0 /\ lease = NewLease(0) /\ pending = [t \in Threads |-> NoTime] /\ accepted = NoTime
  /\ sup = [pc |-> "off", dur |-> NoTime, start |-> 0, until |-> 0, why |-> "none", slack |-> 0, seq |-> 0]
  /\ view = NoView
  /\ run = [pc |-> "new", turn |-> 0, until |-> 0, stop |-> "none", slack |-> 0, hung |-> FALSE,
            wall |-> [deadline |-> 0, hard |-> 0], reserve |-> 0, calls |-> NoCalls, text |-> {}, reached |-> {}]
  /\ guards = [stuck |-> StuckInit, rails |-> RailsInit, rep |-> RepetitionInit, text |-> TextInit,
               conclude |-> FALSE, reserve |-> FALSE, board |-> NeverFired, used |-> 0,
               warned |-> FALSE]
  /\ trail = [network |-> <<>>, same |-> [call |-> NoCalls, ran |-> 0], turns |-> <<>>, concludeAt |-> 0, reserveAt |-> 0]
  /\ hist = <<>>

----------------------------------------------------------------------------
(* The lease. *)

\* renew samples the clock inside the lock that orders the renewals.
Sampled(t) == now

CallRenew(t) ==
  /\ Watches("wall") /\ conf.leased /\ ~Ended(run) /\ pending[t] = NoTime /\ now \in RenewTimes
  /\ lease.seq + Cardinality({u \in Threads : pending[u] # NoTime}) < MaxRenewals
  /\ pending' = [pending EXCEPT ![t] = now]
  /\ UNCHANGED <<conf, now, lease, accepted, sup, view, run, guards, trail, hist>>

AcceptRenew(t) ==
  /\ pending[t] # NoTime
  /\ lease' = Renew(lease, Sampled(t))
  /\ accepted' = now
  /\ pending' = [pending EXCEPT ![t] = NoTime]
  /\ UNCHANGED <<conf, now, sup, view, run, guards, trail, hist>>

----------------------------------------------------------------------------
(* The run. *)

\* What serve enforces from outside: the least total the task was given.
Ceiling(settings) == IF Totals(settings) = {} THEN NoTime ELSE Min(Totals(settings))

\* The node that runs the loop resolves its wall; a sub-agent's guard
\* derives its soft deadline from the budget of its SpawnGuard.
Begin ==
  LET root == conf.kind = "root"
      reserve == ReportWallTime(conf.settings, DefaultReserve)
      wall == ResearchWall(conf.settings, reserve)
      soft == IF root THEN SoftDeadline(wall.deadline, 0)
              ELSE SoftDeadline(conf.budget, GuardReserve(0, LlmTimeout, ToolTimeout, Margin))
      hard == IF root THEN Ceiling(conf.settings) ELSE conf.budget
  IN  /\ run.pc = "new"
      /\ run' = [run EXCEPT !.pc = "turn", !.wall = IF root THEN wall ELSE @,
                            !.reserve = IF root THEN reserve ELSE @]
      /\ view' = IF Watches("wall") /\ (root => wall.deadline > 0)
                 THEN StartView(soft, conf.leased, lease, now) ELSE view
      /\ sup' = IF Watches("wall") /\ hard # NoTime
                THEN [sup EXCEPT !.pc = "check", !.dur = hard, !.start = now] ELSE sup
      /\ conf' = [conf EXCEPT !.settings = NoSettings]
      /\ UNCHANGED <<clocks, guards, trail, hist>>

\* What finalization may take, of the wall that is left when it starts; the
\* node started at 0.
PhaseBudget ==
  RemainingPhaseBudget(run.reserve, IF run.wall.hard > 0 THEN run.wall.hard ELSE NoTime,
                       MinimumPhase, now)

\* The loop has ended for a reason: a root run goes on to its finalization.
Stopped(r, why) ==
  IF conf.kind = "root" /\ Watches("wall")
  THEN [r EXCEPT !.pc = "final", !.stop = why, !.until = now + PhaseBudget]
  ELSE [r EXCEPT !.pc = "done", !.stop = why]

AskModel ==
  LET left == IF view.soft = NoTime THEN LlmTimeout ELSE DeadlineRemaining(view, lease, now)
      timeout == Min({LlmTimeout, left})
  IN  /\ run.pc = "turn"
      /\ run' = CASE run.turn >= conf.maxTurns -> Stopped(run, "max_turns")
                  [] run.turn < conf.maxTurns /\ left < LlmTimeout /\ left < Floor ->
                       Stopped(run, "llm_error")
                  [] OTHER -> [run EXCEPT !.pc = "llm", !.turn = @ + 1, !.until = now + timeout]
      /\ UNCHANGED <<conf, clocks, sup, view, guards, trail, hist>>

ModelReplies ==
  /\ run.pc = "llm"
  /\ \E calls \in conf.batches, text \in IF Watches("repeat") THEN Texts ELSE {{}},
        spent \in IF Watches("budget") THEN Spend ELSE {0} :
       /\ run' = [run EXCEPT !.pc = "tools", !.calls = calls, !.text = text,
                             !.until = now + (IF calls = NoCalls THEN 0 ELSE ToolTimeout)]
       /\ guards' = [guards EXCEPT !.used = @ + spent]
  /\ UNCHANGED <<conf, clocks, sup, view, trail, hist>>

ModelAnswers ==
  /\ run.pc = "llm"
  /\ run' = Stopped(run, "no_tool")
  /\ UNCHANGED <<conf, clocks, sup, view, guards, trail, hist>>

\* A tool, or a custom client in finalization, that does not honour its timeout.
Hangs ==
  /\ run.pc \in {"tools", "final"} /\ Watches("wall") /\ (run.pc = "tools" => run.calls # NoCalls)
  /\ run' = [run EXCEPT !.pc = "hung", !.hung = TRUE]
  /\ UNCHANGED <<conf, clocks, sup, view, guards, trail, hist>>

----------------------------------------------------------------------------
(* The end of a turn.  Calls are offered to the observers in order, then   *)
(* run through the middleware; results come back in call order.            *)

Hosts(i) == HostsFor(run.calls[i], Transparent)
SkippedAt(i) == Watches("stuck") /\ Skipped(guards.stuck, Hosts(i))

\* The middleware's state and refusals over the calls that are not skipped.
Admission ==
  FoldLeft(LAMBDA acc, i :
             LET checked == BeforeToolCall(acc.r, run.calls[i], Rails)
             IN  IF SkippedAt(i) \/ ~Watches("rails") THEN acc
                 ELSE [r |-> checked.r,
                       refused |-> IF checked.block THEN acc.refused \cup {i} ELSE acc.refused],
           [r |-> guards.rails, refused |-> {}], [i \in DOMAIN run.calls |-> i])

Results(refused) ==
  {res \in [DOMAIN run.calls -> [body : ResultBodies, blocks : ResultBlocks]
                                  \cup {[body |-> RefusedBody, blocks |-> {}]}] :
     \A i \in DOMAIN run.calls :
       IF SkippedAt(i) \/ i \in refused THEN res[i] = [body |-> RefusedBody, blocks |-> {}]
       ELSE /\ res[i].body \in ResultBodies /\ res[i].blocks \in ResultBlocks
            /\ res[i].blocks # {} => run.calls[i].tool = "fetch" /\ Cardinality(Hosts(i)) > 1}

\* The hosts with a verdict in the turn's results.
Judged(results, verdict) ==
  {h \in UNION {Hosts(i) : i \in DOMAIN run.calls} : \E i \in DOMAIN run.calls :
     LET v == HostVerdicts(run.calls[i].tool, Hosts(i), results[i])
     IN  h \in DOMAIN v /\ v[h] = verdict}

\* How often the latest call the middleware saw has run since it last saw
\* another one.
SameCalls(refused) ==
  FoldLeft(LAMBDA same, i :
             LET ran == IF i \in refused THEN 0 ELSE 1
             IN  IF SkippedAt(i) THEN same
                 ELSE IF same.call = <<run.calls[i]>> THEN [same EXCEPT !.ran = @ + ran]
                 ELSE [call |-> <<run.calls[i]>>, ran |-> ran],
           trail.same, [i \in DOMAIN run.calls |-> i])

\* The hosts a result accuses by name: alone in their call, or in their own
\* block of a batched fetch.
OwnFailures(results) ==
  {h \in UNION {Hosts(i) : i \in DOMAIN run.calls} : \E i \in DOMAIN run.calls :
     LET tool == run.calls[i].tool
     IN  \/ Hosts(i) = {h} /\ ResultVerdict(tool, results[i].body) = "hard"
         \/ /\ Cardinality(Hosts(i)) > 1 /\ h \in Hosts(i) /\ tool = "fetch"
            /\ \E b \in results[i].blocks : b.host = h /\ ResultVerdict(tool, b.body) = "hard"}

KeepLast(s, n) == IF Len(s) > n THEN SubSeq(s, Len(s) - n + 1, Len(s)) ELSE s

\* The hosts of the calls that were executed.
Reached(refused) ==
  UNION {Hosts(i) : i \in {k \in DOMAIN run.calls : ~SkippedAt(k) /\ k \notin refused}}

\* The first observer that asks for a stop gives the reason.
StopReason(repeated, similar, exhausted, late) ==
  CASE repeated -> "repeated_tool_calls"
    [] ~repeated /\ similar -> "cross_turn_repetition"
    [] ~repeated /\ ~similar /\ exhausted -> "budget_exhausted"
    [] ~repeated /\ ~similar /\ ~exhausted /\ late -> "wall_deadline"
    [] OTHER -> "none"

\* The next turn, or the end of the loop.
AfterTurn(why, reached) ==
  LET over == [run EXCEPT !.pc = "turn", !.calls = NoCalls, !.text = {}]
      after == [over EXCEPT !.reached = reached,
                            !.slack = IF why = "wall_deadline" THEN now - Max({view.start, accepted}) ELSE @]
  IN  IF why = "none" THEN after ELSE Stopped(after, why)

\* The verdicts of the observers that may stop the loop, when attached.
Repetition ==
  IF Watches("repeat") THEN RepetitionTurnEnd(guards.rep, run.calls, Repeat.threshold, Repeat.stopAfter)
  ELSE [g |-> guards.rep, stop |-> FALSE, hint |-> FALSE]
Similarity ==
  IF Watches("repeat") THEN TextTurnEnd(guards.text, run.text, TextRule)
  ELSE [g |-> guards.text, stop |-> FALSE, hint |-> FALSE]
Spending ==
  IF Watches("budget") THEN BudgetTurnEnd(guards.used, guards.warned, TokenLimit, 4, 5)
  ELSE [stop |-> FALSE, warn |-> FALSE]
Clock ==
  IF view.soft # NoTime THEN WallTurnEnd(view, lease, 4, 5, now)
  ELSE [view |-> view, stop |-> FALSE, warn |-> FALSE]

\* Every attached observer sees the turn end; any of them may stop the loop.
TurnEnds ==
  /\ run.pc = "tools"
  /\ view' = Clock.view
  /\ run' = AfterTurn(StopReason(Repetition.stop, Similarity.stop, Spending.stop, Clock.stop),
                      Reached(Admission.refused))
  /\ \E admitted \in {Admission} : \E results \in Results(admitted.refused) :
     \E turn \in {[hard |-> Judged(results, "hard"), soft |-> Judged(results, "soft"),
                   ok |-> Judged(results, "ok")]} :
     \E network \in {\E i \in DOMAIN run.calls : CountsAsNetwork(run.calls[i], Hosts(i))} :
     \E target \in IF Watches("stuck") /\ network
                   THEN StuckTurnEnd(guards.stuck, Stuck, turn.hard, turn.soft, turn.ok)
                   ELSE {[g |-> guards.stuck, inject |-> 0]} :
     LET concludes == Watches("budget") /\ ConcludeFires(guards.conclude, run.turn, conf.maxTurns, 4, 5)
         reserves == Watches("budget") /\ ReserveFires(guards.reserve, run.turn, conf.maxTurns, ReserveTurns)
         boards == Watches("budget") /\ BoardFires(guards.board, run.turn, Cooldown, 1)
     IN  /\ guards' = [stuck |-> target.g, rails |-> admitted.r, rep |-> Repetition.g,
                       text |-> Similarity.g,
                       conclude |-> guards.conclude \/ concludes, reserve |-> guards.reserve \/ reserves,
                       board |-> IF boards THEN run.turn ELSE guards.board, used |-> guards.used,
                       warned |-> guards.warned \/ Spending.warn]
         /\ trail' =
              [network |-> IF Watches("stuck") /\ network
                           THEN KeepLast(Append(trail.network, [hard |-> OwnFailures(results), ok |-> turn.ok]),
                                         Stuck.window) ELSE trail.network,
               same |-> IF Watches("rails") THEN SameCalls(admitted.refused) ELSE trail.same,
               turns |-> IF Watches("repeat")
                         THEN Append(trail.turns, [calls |-> run.calls, hint |-> Repetition.hint])
                         ELSE trail.turns,
               concludeAt |-> IF concludes THEN run.turn ELSE trail.concludeAt,
               reserveAt |-> IF reserves THEN run.turn ELSE trail.reserveAt]
  /\ UNCHANGED <<conf, clocks, sup, hist>>

\* notify_loop_hint: another detector saw the run going in circles.
NotifyLoopHint ==
  /\ Watches("rails") /\ run.pc = "llm" /\ guards.rails.hints < Rails.loopHints
  /\ guards' = [guards EXCEPT !.rails.hints = @ + 1]
  /\ UNCHANGED <<conf, clocks, sup, view, run, trail, hist>>

ResetLoopHints ==
  /\ Watches("rails") /\ run.pc = "llm" /\ guards.rails.hints > 0
  /\ guards' = [guards EXCEPT !.rails.hints = 0]
  /\ UNCHANGED <<conf, clocks, sup, view, run, trail, hist>>

\* cleanup_task when the run is over.
CleanupTask ==
  /\ Watches("rails") /\ Ended(run) /\ guards.rails # RailsInit
  /\ guards' = [guards EXCEPT !.rails = RailsInit]
  /\ UNCHANGED <<conf, clocks, sup, view, run, trail, hist>>

FinalEnds ==
  /\ run.pc = "final"
  /\ run' = [run EXCEPT !.pc = "done"]
  /\ UNCHANGED <<conf, clocks, sup, view, guards, trail, hist>>

----------------------------------------------------------------------------
(* run_with_renewable_wall_time; a sub-agent's wait_for has no lease, no   *)
(* ceiling and no grace.                                                   *)

LeaseLeft == IF conf.kind = "root" THEN RemainingFor(lease, sup.dur, sup.start, now)
             ELSE sup.start + sup.dur - now
SessionLimited == conf.kind = "root" /\ conf.maxSession # NoTime
SessionLeft == conf.maxSession - (now - sup.start)
GraceS == IF conf.kind = "root" THEN Grace ELSE 0

Returned == [sup EXCEPT !.pc = "returned"]

\* The lease is read again after every wait.
SupCheck ==
  LET left == Min({LeaseLeft} \cup (IF SessionLimited THEN {SessionLeft} ELSE {}))
      why == IF SessionLimited /\ SessionLeft <= 0 THEN "session" ELSE "lease"
  IN  /\ sup.pc = "check"
      /\ sup' = CASE Ended(run) -> Returned
                  [] ~Ended(run) /\ left <= 0 ->
                       [sup EXCEPT !.pc = "grace", !.until = now + GraceS, !.why = why,
                                   !.slack = now - Max({sup.start, accepted}), !.seq = lease.seq]
                  [] OTHER -> [sup EXCEPT !.pc = "wait", !.until = now + left]
      /\ UNCHANGED <<conf, clocks, view, run, guards, trail, hist>>

SupWakes ==
  /\ sup.pc = "wait" /\ (Ended(run) \/ now >= sup.until)
  /\ sup' = [sup EXCEPT !.pc = "check"]
  /\ UNCHANGED <<conf, clocks, view, run, guards, trail, hist>>

\* (Faulty variant: the graceful stop is awaited without a bound.)
GraceEnds_Unbounded ==
  /\ sup.pc = "grace" /\ Ended(run)
  /\ sup' = Returned
  /\ UNCHANGED <<conf, clocks, view, run, guards, trail, hist>>

\* The grace period ends with the run, or with its cancellation.
GraceEnds ==
  /\ sup.pc = "grace" /\ (Ended(run) \/ now >= sup.until)
  /\ sup' = IF Ended(run) THEN Returned ELSE [sup EXCEPT !.pc = "raised"]
  /\ run' = IF Ended(run) THEN run ELSE [run EXCEPT !.pc = "cancelled"]
  /\ UNCHANGED <<conf, clocks, view, guards, trail, hist>>

----------------------------------------------------------------------------
(* Time, and histories for finalization. *)

Timers == (IF run.pc \in {"llm", "tools", "final"} THEN {run.until} ELSE {})
            \cup (IF sup.pc \in {"wait", "grace"} THEN {sup.until} ELSE {})

Tick ==
  /\ Watches("wall") /\ run.pc \notin {"new", "turn"} /\ sup.pc # "check"
  /\ ~Ended(run) /\ Timers # {}
  /\ \A u \in Timers : now < u
  /\ now' = now + 1
  /\ UNCHANGED <<conf, lease, pending, accepted, sup, view, run, guards, trail, hist>>

\* A finalization stage may be handed any history: a run cut short at any
\* point, a restored checkpoint, a product's own edits.
Record(m) ==
  /\ Watches("history") /\ Ended(run) /\ Len(hist) < MaxHistory
  /\ hist' = Append(hist, m)
  /\ UNCHANGED <<conf, clocks, sup, view, run, guards, trail>>

Next ==
  \/ \E t \in Threads : CallRenew(t) \/ AcceptRenew(t)
  \/ Begin \/ AskModel \/ ModelReplies \/ ModelAnswers \/ Hangs \/ TurnEnds
  \/ NotifyLoopHint \/ ResetLoopHints \/ CleanupTask \/ FinalEnds
  \/ SupCheck \/ SupWakes \/ GraceEnds \/ Tick
  \/ \E m \in Messages : Record(m)

\* The event loop and the clock go on, and a thread that called renew gets
\* the lock.  Model calls, tools and finalization end at their timeouts or
\* hang.
Fairness ==
  /\ WF_vars(Watches("wall") /\ (\/ Begin \/ SupCheck \/ SupWakes \/ GraceEnds \/ AskModel
                                 \/ ModelReplies \/ ModelAnswers \/ Hangs \/ FinalEnds \/ TurnEnds))
  /\ WF_vars(Tick)

Spec == Init /\ [][Next]_vars /\ Fairness

----------------------------------------------------------------------------
(* Properties. *)

\* The supervisor expires the lease, and the wall-clock observer stops the
\* loop, only when a whole window has passed since the latest renewal that
\* was accepted, whatever order the renewing threads were called in
\* (wall_time_lease.py: renew, remaining_s_for, elapsed_s).
NoEarlyStop ==
  /\ conf.kind = "root" /\ sup.why = "lease" => sup.slack >= sup.dur
  /\ run.stop = "wall_deadline" => run.slack >= view.soft

\* A configuration that check_wall_feasibility accepts always answers: no
\* tool call begun before the research deadline, no LLM call and no
\* finalization phase runs into the ceiling enforced from outside.  For a
\* sub-agent, WallClockGuard's reserve keeps its last turn inside the budget
\* when the reserve fits in half of it.  (A renewal accepted during the grace
\* period sets the loop to work again without stopping the cancellation.)
AnswerFits ==
  run.pc = "cancelled" =>
    \/ run.hung \/ lease.seq # sup.seq
    \/ conf.kind = "root" /\ (sup.why = "session" \/ ~WallFeasible(run.wall, ToolTimeout))
    \/ conf.kind = "sub" /\ (\/ lease.seq > 0
                             \/ 2 * GuardReserve(0, LlmTimeout, ToolTimeout, Margin) > conf.budget)

\* The wall clock neither stops a run early nor leaves it without an answer.
WallHonoured == NoEarlyStop /\ AnswerFits

\* Whoever waits in run_with_renewable_wall_time gets the result or the
\* expiry, even when the task hangs.
CallerReleased == (sup.pc = "check") ~> (sup.pc \in {"returned", "raised"})

\* The failures of a host in the window of network turns since it last
\* succeeded, counted from the verdicts and not from the guard's records.
HardFailures(network, h) ==
  Cardinality({i \in DOMAIN network : /\ h \in network[i].hard \ network[i].ok
                                      /\ \A j \in i..Len(network) : h \notin network[j].ok})

\* A host is quarantined only on enough hard failures within the window and
\* since its last success; a quarantine is latched for the run, and no call
\* that names the host is executed under it.  A host over the threshold
\* waits only for another one to be served first (StuckTargetGuard).
Quarantine ==
  /\ \A h \in guards'.stuck.blocked \ guards.stuck.blocked :
       HardFailures(trail'.network, h) >= Stuck.block
  /\ guards.stuck.blocked \subseteq guards'.stuck.blocked
  /\ trail' # trail => run'.reached \cap guards.stuck.blocked = {}
  /\ trail'.network # trail.network =>
       LET over == {h \in UNION {t.hard : t \in Range(trail'.network)} :
                      HardFailures(trail'.network, h) >= Stuck.block}
       IN  over \subseteq guards'.stuck.blocked \/ guards'.stuck.blocked # guards.stuck.blocked

\* No call runs more than the threshold's number of times without another
\* one being asked for in between (GuardrailsMiddleware).
DuplicatesRefused == trail.same.ran <= Rails.duplicates

\* RepetitionGuard stops the loop only on identical turns, after a hint the
\* model had a turn to act on.
HintBeforeStop ==
  LET last == Len(trail.turns)
      runOf(i) == \A j \in i..last : trail.turns[j].calls = trail.turns[last].calls
  IN  run.stop = "repeated_tool_calls" =>
        \E i \in 1..(last - 1) : runOf(i) /\ trail.turns[i].hint

\* The reserve notice never lands on the turn LastTurnForcer strips, and a
\* run that used up its turns was told to conclude.
NoticesInTime ==
  /\ trail.reserveAt > 0 => trail.reserveAt < conf.maxTurns - 1
  /\ Watches("budget") /\ run.stop = "max_turns" /\ conf.maxTurns > 0 => trail.concludeAt > 0

\* Repetition and exhaustion are bounded, and announced before they end a run;
\* what keeps failing is quarantined and not tried again.
RepetitionBounded ==
  [][Quarantine /\ (DuplicatesRefused /\ HintBeforeStop /\ NoticesInTime)']_vars

\* The tool-call protocol, stated without a scan: a block of answers follows
\* every assistant turn with calls, one for each call and nothing else.
AnswersOf(msgs, i) ==
  {k \in (i + 1)..Len(msgs) : \A j \in (i + 1)..k : msgs[j].role = "tool"}
Replayable(msgs) ==
  /\ \A i \in DOMAIN msgs : msgs[i].role # "junk"
  /\ \A i \in DOMAIN msgs : msgs[i].role # "tool" /\ msgs[i].calls # <<>> =>
        /\ msgs[i].role = "assistant" /\ CallsOk(msgs[i].calls)
        /\ \A c \in DOMAIN msgs[i].calls : \E k \in AnswersOf(msgs, i) : msgs[k].id = msgs[i].calls[c].id
  /\ \A k \in DOMAIN msgs : msgs[k].role = "tool" =>
        \E i \in 1..(k - 1) :
          /\ k \in AnswersOf(msgs, i) /\ msgs[i].role = "assistant"
          /\ \E c \in DOMAIN msgs[i].calls : msgs[i].calls[c].id = msgs[k].id
          /\ \A j \in AnswersOf(msgs, i) : j < k => msgs[j].id # msgs[k].id

\* A recovery context keeps system guidance first and then the newest
\* evidence: within its budget unless one system entry alone exceeds it, with
\* no gap between what it keeps, and never without evidence that would fit.
ContextSound(msgs, context, size, contextMax) ==
  LET system == SelectSeq(context, LAMBDA e : msgs[e.at].role = "system")
      recent == SelectSeq(context, LAMBDA e : msgs[e.at].role # "system")
      others == {i \in DOMAIN msgs : Visible(msgs[i]) /\ msgs[i].role # "system"}
  IN  /\ context = system \o recent
      /\ SizeOf(context) <= contextMax \/ (Len(system) = 1 /\ recent = <<>>)
      /\ \A k \in 1..(Len(recent) - 1) :
           /\ recent[k].at < recent[k + 1].at
           /\ \A i \in others : ~(recent[k].at < i /\ i < recent[k + 1].at)
      /\ \A i \in others : recent = <<>> \/ i > recent[Len(recent)].at =>
           SizeOf(system) + size[i] > contextMax

\* has_malformed_tool_protocol accepts exactly the histories that can be
\* replayed, and build_recovery_context is sound on every other one as well.
RecoverySound ==
  Watches("history") =>
    /\ HasMalformedToolProtocol(hist) <=> ~Replayable(hist)
    /\ ContextSound(hist, RecoveryContext(hist, ItemMax, ContextMax),
                    [i \in DOMAIN hist |-> IF hist[i].size > ItemMax THEN ItemMax ELSE hist[i].size],
                    ContextMax)
    /\ LET byTokens == RecoveryContextByTokens(hist, ContextMax, 0, 1, CutMin)
       IN  /\ SizeOf(byTokens) <= ContextMax
           /\ \A i \in DOMAIN hist : i = Len(hist) /\ Visible(hist[i]) /\ hist[i].role # "system" =>
                \/ byTokens # <<>> /\ Last(byTokens).at = i
                \/ ContextMax - SizeOf(byTokens) <= CutMin
=============================================================================
