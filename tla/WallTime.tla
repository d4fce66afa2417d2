------------------------------ MODULE WallTime ------------------------------
(***************************************************************************)
(* The wall-clock arithmetic of a run: the renewable lease and the views   *)
(* consumers bind on it (runtime/wall_time_lease.py), the soft deadline of *)
(* the observers that stop a loop (components/observers/wall_clock_*.py),  *)
(* and the split of a task's wall between research and finalization        *)
(* (components/finalization/budget.py).  Times are whole seconds of the    *)
(* monotonic clock; NoTime is Python's None.  A setting is what a profile  *)
(* or an environment variable holds: whether it is set, whether it parses  *)
(* to a finite number, and that number.                                    *)
(***************************************************************************)
EXTENDS Integers, FiniteSetsExt

NoTime == -1

----------------------------------------------------------------------------
(* RenewableWallTimeLease. *)

NewLease(created) == [seq |-> 0, renewed |-> NoTime, created |-> created]

\* The critical section of renew: sequence and anchor move together.
Renew(lease, sampled) == [lease EXCEPT !.seq = @ + 1, !.renewed = sampled]

Anchor(lease, start) == IF lease.renewed = NoTime THEN start ELSE Max({start, lease.renewed})

RemainingFor(lease, duration, start, now) == Max({0, duration}) - (now - Anchor(lease, start))

ElapsedFor(lease, start, now) == Max({0, now - Anchor(lease, start)})

----------------------------------------------------------------------------
(* WallClockDeadlineObserver and WallClockGuard.  A view remembers when it *)
(* was bound; leased says that the scope held a lease, so that the view    *)
(* follows renewals.                                                       *)

\* The reserve is taken off the budget, but never more than half of it.
SoftDeadline(total, reserve) == Max({total - reserve, total \div 2})

\* WallClockGuard: a turn that starts just under the soft deadline must end
\* inside the hard one, so the reserve covers one whole turn.
GuardReserve(requested, llmTimeout, toolTimeout, margin) ==
  Max({requested, llmTimeout + toolTimeout + margin})

StartView(soft, leased, lease, now) ==
  [soft |-> soft, start |-> now, leased |-> leased, seq |-> lease.seq, warned |-> FALSE]

NoView == [soft |-> NoTime, start |-> 0, leased |-> FALSE, seq |-> 0, warned |-> FALSE]

ViewElapsed(view, lease, now) ==
  IF view.leased THEN ElapsedFor(lease, view.start, now) ELSE now - view.start

\* deadline_remaining_s over the stamp the observer left in the scope.
DeadlineRemaining(view, lease, now) ==
  IF view.leased THEN RemainingFor(lease, view.soft, view.start, now)
  ELSE view.start + view.soft - now

\* WallClockDeadlineObserver.on_turn_end.  A renewal re-arms the warning,
\* which is due once warnNum / warnDen of the soft deadline has passed.
WallTurnEnd(view, lease, warnNum, warnDen, now) ==
  LET fresh == IF view.leased /\ lease.seq # view.seq
               THEN [view EXCEPT !.seq = lease.seq, !.warned = FALSE] ELSE view
      elapsed == ViewElapsed(view, lease, now)
      stop == elapsed >= view.soft
      warn == /\ ~stop /\ view.soft > 0 /\ ~fresh.warned
              /\ elapsed * warnDen >= view.soft * warnNum
  IN  [view |-> [fresh EXCEPT !.warned = @ \/ warn], stop |-> stop, warn |-> warn]

----------------------------------------------------------------------------
(* finalization/budget.py. *)

Unset == [set |-> FALSE, ok |-> FALSE, s |-> 0]
Junk == [set |-> TRUE, ok |-> FALSE, s |-> 0]
Seconds(n) == [set |-> TRUE, ok |-> TRUE, s |-> n]

\* The settings resolve_research_wall and resolve_report_wall_time read.
Setting == [set : BOOLEAN, ok : BOOLEAN, s : Int]
AllSettings == [research : Setting, total : Setting, reserve : Setting, envReport : Setting,
                envResearch : Setting, envTotal : Setting, legacyTotal : Setting]

PositiveSeconds(raw) == IF raw.ok /\ raw.s > 0 THEN raw.s ELSE NoTime

NonnegativeSeconds(raw, default) == IF raw.ok /\ raw.s >= 0 THEN raw.s ELSE default

\* A valid REPORT_WALL_TIME wins over the profile's reserve.
ReportWallTime(settings, default) ==
  NonnegativeSeconds(settings.envReport, NonnegativeSeconds(settings.reserve, default))

\* The task-wall variable, or the first legacy spelling of it that is set.
EnvTotal(settings) == PositiveSeconds(IF settings.envTotal.set THEN settings.envTotal
                                      ELSE settings.legacyTotal)

Totals(settings) == {PositiveSeconds(settings.total), EnvTotal(settings)} \ {NoTime}

ResearchBudget(settings) ==
  IF PositiveSeconds(settings.envResearch) # NoTime THEN PositiveSeconds(settings.envResearch)
  ELSE PositiveSeconds(settings.research)

\* (Faulty variant: a research budget hides the ceilings of the whole task.)
ResearchWall_HidesTotals(settings, reserve) ==
  LET totals == IF ResearchBudget(settings) # NoTime THEN {} ELSE Totals(settings)
      candidates == ({ResearchBudget(settings)} \ {NoTime})
                      \cup {SoftDeadline(t, reserve) : t \in totals}
  IN  [deadline |-> IF candidates = {} THEN 0 ELSE Min(candidates),
       hard |-> IF totals = {} THEN 0 ELSE Min(totals)]

\* resolve_research_wall: the research deadline competes with every total
\* less its finalization grace; only the totals are hard ceilings.
ResearchWall(settings, reserve) ==
  LET totals == Totals(settings)
      candidates == ({ResearchBudget(settings)} \ {NoTime})
                      \cup {SoftDeadline(t, reserve) : t \in totals}
  IN  [deadline |-> IF candidates = {} THEN 0 ELSE Min(candidates),
       hard |-> IF totals = {} THEN 0 ELSE Min(totals)]

\* The finalization phase gets what is left of the wall, and at least minimum.
RemainingPhaseBudget(requested, deadline, minimum, now) ==
  IF deadline = NoTime THEN requested
  ELSE Max({Min({requested, deadline - now}), minimum})

\* check_wall_feasibility: a tool call cannot be shrunk to fit.
WallFeasible(wall, toolTimeout) ==
  wall.hard <= 0 \/ wall.deadline <= 0 \/ wall.deadline + Max({toolTimeout, 0}) <= wall.hard
=============================================================================
