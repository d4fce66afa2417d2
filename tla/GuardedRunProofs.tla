-------------------------- MODULE GuardedRunProofs --------------------------
(***************************************************************************)
(* Proofs about GuardedRun: whatever the renewals, the durations and the   *)
(* limits, the wall clock stops nobody early, and a run that its           *)
(* configuration leaves time for is not cancelled before it has answered;  *)
(* whatever the calls and the results, hosts are quarantined justly and    *)
(* for good, and notices come before what they announce.                   *)
(***************************************************************************)
EXTENDS GuardedRun, FiniteSetTheorems, WellFoundedInduction, TLAPS

Points == {"new", "turn", "llm", "tools", "final", "hung", "done", "cancelled"}
Stages == {"off", "check", "wait", "grace", "returned", "raised"}
Times == Nat \cup {NoTime}

\* The state as far as clocks, timers and reasons go.
RunOK(r) ==
  /\ r = [pc |-> r.pc, turn |-> r.turn, until |-> r.until, stop |-> r.stop, slack |-> r.slack,
          hung |-> r.hung, wall |-> r.wall, reserve |-> r.reserve, calls |-> r.calls,
          text |-> r.text, reached |-> r.reached]
  /\ r.pc \in Points /\ r.until \in Int /\ r.slack \in Int /\ r.hung \in BOOLEAN
  /\ r.wall \in [deadline : Nat, hard : Nat] /\ r.reserve \in Nat
ConfShape ==
  /\ conf \in [kind : {"root", "sub"}, watch : SUBSET STRING,
               batches : SUBSET Seq([tool : STRING, urls : SUBSET STRING, named : SUBSET STRING]),
               maxTurns : Nat, settings : AllSettings, leased : BOOLEAN,
               maxSession : Times, budget : Nat]
  /\ \A t \in Totals(conf.settings) : t > 1
SupShape ==
  sup \in [pc : Stages, dur : Times, start : {0}, until : Int, why : {"none", "lease", "session"},
           slack : Int, seq : Nat]
ViewShape ==
  view \in [soft : Times, start : {0}, leased : BOOLEAN, seq : Nat, warned : BOOLEAN]
ClockShape ==
  /\ now \in Nat /\ accepted \in Times
  /\ lease \in [seq : Nat, renewed : Times, created : {0}]
  /\ pending \in [Threads -> Times]
Shapes == RunOK(run) /\ ConfShape /\ SupShape /\ ViewShape /\ ClockShape

\* The window of every view begins at the latest renewal, or at the start.
From == IF lease.renewed = NoTime THEN 0 ELSE lease.renewed

\* The lease is the latest accepted renewal; without one in scope there are none.
Leases ==
  /\ accepted = lease.renewed /\ From <= now
  /\ lease.seq = 0 <=> lease.renewed = NoTime
  /\ ~conf.leased => lease.seq = 0 /\ \A t \in Threads : pending[t] = NoTime

\* What Begin laid down: the deadline of the observer and the limit of the
\* supervisor come from the same wall.
LastTurn == GuardReserve(0, LlmTimeout, ToolTimeout, Margin)
Limits ==
  /\ run.pc = "new" => now = 0 /\ sup.pc = "off" /\ view = NoView /\ run.stop = "none"
  /\ sup.pc = "off" => sup.why = "none"
  /\ view.soft # NoTime => view.leased = conf.leased
  /\ sup.pc # "off" =>
       /\ Watches("wall") /\ view.leased = conf.leased
       /\ IF conf.kind = "root"
          THEN run.wall.hard > 0 /\ sup.dur = run.wall.hard
               /\ run.wall.deadline > 0 /\ view.soft = run.wall.deadline
          ELSE sup.dur = conf.budget /\ view.soft = SoftDeadline(conf.budget, LastTurn)

\* A configuration that leaves time for the last turn and the finalization.
Covered ==
  IF conf.kind = "root" THEN WallFeasible(run.wall, ToolTimeout)
  ELSE lease.seq = 0 /\ 2 * LastTurn <= conf.budget

\* A covered run is where it has to be by now, and will be.
OnTime ==
  sup.pc # "off" /\ Covered =>
    /\ run.pc = "turn" => now <= From + view.soft
    /\ run.pc = "llm" => now <= run.until /\ run.until <= From + view.soft
    /\ run.pc = "tools" => now <= run.until /\ run.until <= From + view.soft + ToolTimeout
    /\ run.pc = "final" => /\ conf.kind = "root" /\ now <= run.until
                           /\ run.until <= From + run.wall.hard + MinimumPhase
    /\ run.pc = "hung" => run.hung

\* A supervisor that gave the lease up did so after the whole of it; a renewal
\* since then shows in the sequence numbers.
Expiry ==
  /\ sup.seq <= lease.seq
  /\ sup.pc \in {"grace", "raised"} =>
       /\ sup.why \in {"lease", "session"}
       /\ sup.why = "session" => conf.kind = "root"
       /\ sup.why = "lease" /\ sup.seq = lease.seq =>
            sup.until >= sup.dur + (IF conf.kind = "root" THEN From + Grace ELSE 0)

IInv == Shapes /\ Leases /\ Limits /\ OnTime /\ Expiry /\ WallHonoured

\* No step takes back time that was granted: once set, the length of a window
\* stands, and its beginning only moves on.
GrantStands ==
  /\ From <= From'
  /\ view.soft # NoTime => view'.soft = view.soft
  /\ sup.pc # "off" => sup'.pc # "off" /\ sup'.dur = sup.dur

-----------------------------------------------------------------------------
(* The arithmetic of walls *)

\* A set of times has an earliest one.
LEMMA Earliest ==
  ASSUME NEW S, S \subseteq Nat, S # {}
  PROVE  Min(S) \in S
<1>1. \E m \in S : \A x \in S : ~(<<x, m>> \in OpToRel(<, Nat))
  BY NatLessThanWellFounded, WFMin
<1>2. \A x, y \in Nat : <<y, x>> \in OpToRel(<, Nat) <=> y < x
  BY DEF OpToRel
<1>3. \E m \in S : \A x \in S : m <= x
  <2>1. PICK m \in S : \A x \in S : ~(<<x, m>> \in OpToRel(<, Nat))
    BY <1>1
  <2>2. \A x \in S : m \in Nat /\ x \in Nat /\ ~(x < m)
    BY <1>2, <2>1
  <2> QED
    BY <2>2
<1> QED
  BY <1>3 DEF Min

\* The min() of two numbers.
LEMMA MinOfTwo ==
  ASSUME NEW a \in Int, NEW b \in Int
  PROVE  Min({a, b}) = IF a <= b THEN a ELSE b
  BY DEF Min

\* The max() of two numbers.
LEMMA MaxOfTwo ==
  ASSUME NEW a \in Int, NEW b \in Int
  PROVE  Max({a, b}) = IF a >= b THEN a ELSE b
  BY DEF Max

\* soft_wall_deadline_s keeps at least half of the total.
LEMMA SoftDeadlines ==
  ASSUME NEW total \in Nat, NEW reserve \in Nat
  PROVE  /\ SoftDeadline(total, reserve) \in Nat
         /\ total > 1 => SoftDeadline(total, reserve) > 0
         /\ SoftDeadline(total, 0) = total
         /\ 2 * reserve <= total => SoftDeadline(total, reserve) = total - reserve
<1>1. total \div 2 \in Nat /\ 2 * (total \div 2) <= total /\ total <= 2 * (total \div 2) + 1
  OBVIOUS
<1>2. SoftDeadline(total, reserve) =
        IF total - reserve >= total \div 2 THEN total - reserve ELSE total \div 2
  BY <1>1, MaxOfTwo DEF SoftDeadline
<1>3. SoftDeadline(total, 0) = IF total - 0 >= total \div 2 THEN total - 0 ELSE total \div 2
  BY <1>1, MaxOfTwo DEF SoftDeadline
<1> QED
  BY <1>1, <1>2, <1>3

\* A setting that counts is a positive number.
LEMMA PositiveTimes ==
  ASSUME NEW raw \in Setting
  PROVE  PositiveSeconds(raw) = NoTime \/ (PositiveSeconds(raw) \in Nat /\ PositiveSeconds(raw) > 0)
  BY DEF Setting, PositiveSeconds

\* The totals of a task.
LEMMA TotalTimes ==
  ASSUME NEW settings \in AllSettings
  PROVE  \A t \in Totals(settings) : t \in Nat /\ t > 0
<1>1. PositiveSeconds(settings.total) = NoTime
        \/ (PositiveSeconds(settings.total) \in Nat /\ PositiveSeconds(settings.total) > 0)
  BY PositiveTimes DEF AllSettings
<1>2. EnvTotal(settings) = NoTime \/ (EnvTotal(settings) \in Nat /\ EnvTotal(settings) > 0)
  BY PositiveTimes DEF AllSettings, EnvTotal
<1> QED
  BY <1>1, <1>2 DEF Totals

\* The reserve of the finalization.
LEMMA ReserveTimes ==
  ASSUME GuardedAssumption, NEW settings \in AllSettings
  PROVE  ReportWallTime(settings, DefaultReserve) \in Nat
<1>1. \A raw \in Setting, d \in Nat : NonnegativeSeconds(raw, d) \in Nat
  BY DEF Setting, NonnegativeSeconds
<1>2. DefaultReserve \in Nat /\ settings.reserve \in Setting /\ settings.envReport \in Setting
  BY DEF GuardedAssumption, AllSettings
<1> QED
  BY <1>1, <1>2 DEF ReportWallTime

\* resolve_research_wall: the deadline and the ceiling come together, and the
\* ceiling is the one the host enforces.
LEMMA Walls ==
  ASSUME NEW settings \in AllSettings, \A t \in Totals(settings) : t > 1, NEW reserve \in Nat
  PROVE  LET wall == ResearchWall(settings, reserve) IN
         /\ wall \in [deadline : Nat, hard : Nat]
         /\ Ceiling(settings) # NoTime =>
              wall.hard > 0 /\ Ceiling(settings) = wall.hard /\ wall.deadline > 0
<1> DEFINE totals == Totals(settings)
           research == {ResearchBudget(settings)} \ {NoTime}
           candidates == research \cup {SoftDeadline(t, reserve) : t \in totals}
<1>1. \A t \in totals : t \in Nat /\ t > 1
  BY TotalTimes
<1>2. \A d \in candidates : d \in Nat /\ d > 0
  <2>1. \A d \in research : d \in Nat /\ d > 0
    BY PositiveTimes DEF ResearchBudget, AllSettings
  <2>2. \A t \in totals : SoftDeadline(t, reserve) \in Nat /\ SoftDeadline(t, reserve) > 0
    BY <1>1, SoftDeadlines
  <2> QED
    BY <2>1, <2>2
<1>3. totals # {} => candidates # {}
  OBVIOUS
<1>4. totals # {} => Min(totals) \in totals
  BY <1>1, Earliest
<1>5. candidates # {} => Min(candidates) \in candidates
  BY <1>2, Earliest
<1>6. ResearchWall(settings, reserve) =
        [deadline |-> IF candidates = {} THEN 0 ELSE Min(candidates),
         hard |-> IF totals = {} THEN 0 ELSE Min(totals)]
  BY DEF ResearchWall
<1>7. Ceiling(settings) = IF totals = {} THEN NoTime ELSE Min(totals)
  BY DEF Ceiling
<1> HIDE DEF totals, candidates
<1> QED
  BY <1>1, <1>2, <1>3, <1>4, <1>5, <1>6, <1>7

\* Remaining and elapsed time count from the latest renewal.
LEMMA Counting ==
  ASSUME Shapes, Leases
  PROVE  /\ From \in Nat /\ From <= now /\ Max({0, accepted}) = From
         /\ \A d \in Nat : RemainingFor(lease, d, 0, now) = d - (now - From)
         /\ ElapsedFor(lease, 0, now) = now - From
<1>1. /\ From \in Nat /\ From <= now /\ now \in Nat
      /\ accepted = lease.renewed /\ lease.renewed \in Times
  BY DEF Shapes, Leases, ClockShape, From, Times, NoTime
<1>2. Anchor(lease, 0) = From
  BY <1>1, MaxOfTwo DEF Anchor, From, Times, NoTime
<1>3. Max({0, accepted}) = From
  BY <1>1, MaxOfTwo DEF From, Times, NoTime
<1>4. \A d \in Nat : Max({0, d}) = d
  BY MaxOfTwo
<1>5. ElapsedFor(lease, 0, now) = now - From
  BY <1>1, <1>2, MaxOfTwo DEF ElapsedFor
<1> QED
  BY <1>1, <1>2, <1>3, <1>4, <1>5 DEF RemainingFor

\* So do the observer's deadline and its elapsed time, leased or not.
LEMMA ObserverCounts ==
  ASSUME Shapes, Leases, Limits, view.soft # NoTime
  PROVE  /\ view.soft \in Nat
         /\ DeadlineRemaining(view, lease, now) = view.soft - (now - From)
         /\ ViewElapsed(view, lease, now) = now - From
<1>1. view.soft \in Nat /\ view.start = 0 /\ view.leased = conf.leased
  BY DEF Shapes, ViewShape, Limits, Times
<1>2. view.leased \in BOOLEAN /\ now \in Nat
  BY DEF Shapes, ViewShape, ClockShape
<1>3. ~view.leased => From = 0
  BY <1>1 DEF Leases, From
<1> QED
  BY <1>1, <1>2, <1>3, Counting DEF DeadlineRemaining, ViewElapsed

\* The finalization ends by the ceiling, or takes the minimum after it.
LEMMA PhaseBudgets ==
  ASSUME GuardedAssumption, Shapes
  PROVE  /\ PhaseBudget \in Nat
         /\ run.wall.hard > 0 =>
              \A t \in Int : run.wall.hard <= t /\ now <= t => now + PhaseBudget <= t + MinimumPhase
<1>1. /\ MinimumPhase \in Nat /\ now \in Nat /\ run.reserve \in Nat
      /\ run.wall.hard \in Nat
  BY DEF GuardedAssumption, Shapes, ClockShape, RunOK
<1> DEFINE h == run.wall.hard
           m == Min({run.reserve, h - now})
<1>2. m \in Int /\ m <= h - now
  BY <1>1, MinOfTwo
<1>3. Max({m, MinimumPhase}) = IF m >= MinimumPhase THEN m ELSE MinimumPhase
  BY <1>1, <1>2, MaxOfTwo
<1>4. PhaseBudget = IF h > 0 THEN Max({m, MinimumPhase}) ELSE run.reserve
  BY <1>1 DEF PhaseBudget, RemainingPhaseBudget, NoTime
<1> HIDE DEF m
<1> QED
  BY <1>1, <1>2, <1>3, <1>4

\* The end of a loop, from any of its points.
LEMMA Stops ==
  ASSUME GuardedAssumption, IInv, NEW r, RunOK(r), r.wall = run.wall, NEW why
  PROVE  LET s == Stopped(r, why) IN
         /\ RunOK(s) /\ s.pc \in {"final", "done"} /\ s.stop = why
         /\ s.wall = run.wall /\ s.slack = r.slack /\ s.hung = r.hung
         /\ s.pc = "final" => conf.kind = "root" /\ s.until = now + PhaseBudget
<1>1. PhaseBudget \in Nat /\ now \in Nat
  BY PhaseBudgets DEF IInv, Shapes, ClockShape
<1> HIDE DEF IInv
<1>2. CASE conf.kind = "root" /\ Watches("wall")
  <2> DEFINE e == now + PhaseBudget
             s == [pc |-> "final", turn |-> r.turn, until |-> e, stop |-> why, slack |-> r.slack,
                   hung |-> r.hung, wall |-> r.wall, reserve |-> r.reserve, calls |-> r.calls,
                   text |-> r.text, reached |-> r.reached]
  <2>1. e \in Int
    BY <1>1
  <2>2. Stopped(r, why) = [r EXCEPT !.pc = "final", !.stop = why, !.until = e]
    BY <1>2 DEF Stopped
  <2> HIDE DEF e
  <2>3. Stopped(r, why) = s
    BY <2>2 DEF RunOK
  <2>4. RunOK(s)
    BY <2>1 DEF RunOK, Points
  <2> QED
    BY <1>2, <2>3, <2>4 DEF e
<1>3. CASE ~(conf.kind = "root" /\ Watches("wall"))
  BY <1>1, <1>3 DEF Stopped, RunOK, Points
<1> QED
  BY <1>2, <1>3

-----------------------------------------------------------------------------
(* The steps *)

\* Initially nothing has begun.
LEMMA InitHolds ==
  ASSUME GuardedAssumption, ConfsAssumption, Init
  PROVE  IInv
<1>1. conf \in Confs /\ now = 0 /\ lease = [seq |-> 0, renewed |-> NoTime, created |-> 0]
  BY DEF Init, NewLease
<1>2. RunOK(run) /\ run.pc = "new" /\ run.stop = "none"
  <2>1. run = [pc |-> "new", turn |-> 0, until |-> 0, stop |-> "none", slack |-> 0, hung |-> FALSE,
               wall |-> [deadline |-> 0, hard |-> 0], reserve |-> 0, calls |-> NoCalls,
               text |-> {}, reached |-> {}]
    BY DEF Init
  <2>2. run.wall \in [deadline : Nat, hard : Nat]
    BY <2>1
  <2>3. run = [pc |-> run.pc, turn |-> run.turn, until |-> run.until, stop |-> run.stop,
               slack |-> run.slack, hung |-> run.hung, wall |-> run.wall,
               reserve |-> run.reserve, calls |-> run.calls, text |-> run.text,
               reached |-> run.reached]
    BY <2>1
  <2>4. run.pc = "new" /\ run.stop = "none" /\ run.until = 0 /\ run.slack = 0 /\ run.hung = FALSE
        /\ run.reserve = 0
    BY <2>1
  <2>5. run.pc \in Points /\ run.until \in Int /\ run.slack \in Int /\ run.reserve \in Nat
    BY <2>4 DEF Points
  <2>6. run.hung \in BOOLEAN
    BY <2>4, Zenon
  <2>7. RunOK(run)
    BY <2>2, <2>3, <2>5, <2>6, Zenon DEF RunOK
  <2> QED
    BY <2>4, <2>7
<1>3. ConfShape
  BY <1>1 DEF ConfsAssumption, ConfShape, Times
<1>4. SupShape /\ sup.pc = "off" /\ sup.why = "none" /\ sup.seq = 0
  <2>1. sup = [pc |-> "off", dur |-> NoTime, start |-> 0, until |-> 0, why |-> "none", slack |-> 0,
               seq |-> 0]
    BY DEF Init
  <2>2. NoTime \in Times /\ "off" \in Stages
    BY DEF Times, Stages
  <2>3. sup.pc = "off" /\ sup.why = "none" /\ sup.seq = 0
    BY <2>1
  <2>4. SupShape
    BY <2>1, <2>2 DEF SupShape
  <2> QED
    BY <2>3, <2>4
<1>5. ViewShape /\ view = NoView
  BY DEF Init, ViewShape, NoView, Times
<1>6. accepted = NoTime /\ pending = [t \in Threads |-> NoTime]
  BY DEF Init
<1>7. ClockShape /\ Leases
  <2>1. lease \in [seq : Nat, renewed : Times, created : {0}] /\ lease.renewed = NoTime
        /\ lease.seq = 0
    BY <1>1 DEF Times
  <2> QED
    BY <1>1, <1>6, <2>1 DEF ClockShape, Times, Leases, From
<1>8. Limits /\ OnTime /\ Expiry
  <2>1. lease.seq = 0 /\ view.soft = NoTime
    BY <1>1, <1>5 DEF NoView
  <2>2. Limits
    BY <1>1, <1>2, <1>4, <1>5, <2>1 DEF Limits
  <2>3. OnTime
    BY <1>4 DEF OnTime
  <2>4. Expiry
    BY <1>4, <2>1 DEF Expiry
  <2> QED
    BY <2>2, <2>3, <2>4
<1>9. WallHonoured
  BY <1>2, <1>4 DEF WallHonoured, NoEarlyStop, AnswerFits
<1> QED
  BY <1>2, <1>3, <1>4, <1>5, <1>7, <1>8, <1>9 DEF IInv, Shapes

\* A step of the loop: the clocks and the supervisor stand.
LEMMA RunSteps ==
  ASSUME IInv, UNCHANGED <<conf, now, lease, pending, accepted, sup>>,
         ViewShape', view'.soft = view.soft, view'.leased = view.leased,
         run.pc # "new", RunOK(run'), run'.pc \notin {"new", "cancelled"}, run'.wall = run.wall,
         run'.stop = "wall_deadline" => run'.slack >= view.soft,
         OnTime'
  PROVE  IInv'
<1>1. Shapes'
  BY DEF IInv, Shapes, RunOK, ConfShape, SupShape, ClockShape
<1>2. Leases'
  BY DEF IInv, Leases, From
<1>3. Limits'
  BY DEF IInv, Limits, Watches
<1>4. Expiry'
  BY DEF IInv, Expiry, From
<1>5. WallHonoured'
  BY DEF IInv, WallHonoured, NoEarlyStop, AnswerFits
<1> QED
  BY <1>1, <1>2, <1>3, <1>4, <1>5 DEF IInv

\* A step that touches only what the guards remember.
LEMMA QuietSteps ==
  ASSUME IInv, UNCHANGED <<conf, now, lease, pending, accepted, sup, view, run>>
  PROVE  IInv'
<1>1. Shapes'
  BY DEF IInv, Shapes, RunOK, ConfShape, SupShape, ViewShape, ClockShape
<1>2. Leases' /\ Limits' /\ OnTime' /\ Expiry'
  BY DEF IInv, Leases, From, Limits, OnTime, Covered, Expiry, Watches
<1>3. WallHonoured'
  BY DEF IInv, WallHonoured, NoEarlyStop, AnswerFits
<1> QED
  BY <1>1, <1>2, <1>3 DEF IInv

\* A thread waits for the lock.
LEMMA CallRenewKeeps ==
  ASSUME IInv, NEW t \in Threads, CallRenew(t)
  PROVE  IInv'
<1> USE DEF CallRenew
<1>1. Shapes'
  <2>1. pending' = [pending EXCEPT ![t] = now] /\ now \in Nat /\ pending \in [Threads -> Times]
    BY DEF IInv, Shapes, ClockShape
  <2>2. pending' \in [Threads -> Times]
    BY <2>1 DEF Times
  <2> QED
    BY <2>2 DEF IInv, Shapes, RunOK, ConfShape, SupShape, ViewShape, ClockShape
<1>2. Leases' /\ Limits' /\ OnTime' /\ Expiry'
  BY DEF IInv, Leases, From, Limits, OnTime, Covered, Expiry, Watches
<1>3. WallHonoured'
  BY DEF IInv, WallHonoured, NoEarlyStop, AnswerFits
<1> QED
  BY <1>1, <1>2, <1>3 DEF IInv

\* A renewal moves every deadline on, and none back.
LEMMA AcceptRenewKeeps ==
  ASSUME GuardedAssumption, IInv, NEW t \in Threads, AcceptRenew(t)
  PROVE  IInv'
<1>1. /\ UNCHANGED <<conf, now, sup, view, run>> /\ pending[t] # NoTime
      /\ lease' = [lease EXCEPT !.seq = @ + 1, !.renewed = now] /\ accepted' = now
      /\ pending' = [pending EXCEPT ![t] = NoTime]
  BY DEF AcceptRenew, Renew, Sampled
<1>2. now \in Nat /\ lease.seq \in Nat /\ conf.leased
  BY <1>1 DEF IInv, Shapes, ClockShape, ConfShape, Leases
<1>3. lease' \in [seq : Nat, renewed : Times, created : {0}]
      /\ lease'.seq = lease.seq + 1 /\ lease'.renewed = now
  <2>1. lease \in [seq : Nat, renewed : Times, created : {0}] /\ now \in Times
        /\ lease.seq + 1 \in Nat
    BY <1>2 DEF IInv, Shapes, ClockShape, Times
  <2> QED
    BY <1>1, <2>1
<1>4. Shapes'
  BY <1>1, <1>2, <1>3
  DEF IInv, Shapes, RunOK, ConfShape, SupShape, ViewShape, ClockShape, Times
<1>5. From \in Nat /\ From <= From' /\ From' = now
  BY <1>2, <1>3, Counting DEF IInv, From, NoTime
<1>6. Leases'
  BY <1>1, <1>2, <1>3, <1>5 DEF Leases, NoTime
<1>7. Limits'
  BY <1>1 DEF IInv, Limits, Watches
<1>8. OnTime'
  <2> SUFFICES ASSUME sup.pc # "off", Covered'
               PROVE  OnTime'
    BY <1>1 DEF OnTime
  <2>1. Covered /\ conf.kind = "root"
    BY <1>1, <1>2, <1>3 DEF Covered, IInv, Shapes, ConfShape
  <2>2. /\ run.until \in Int /\ view.soft \in Nat /\ ToolTimeout \in Nat /\ MinimumPhase \in Nat
        /\ run.wall.hard \in Nat
    BY <2>1 DEF IInv, Shapes, RunOK, Limits, GuardedAssumption
  <2> QED
    BY <1>1, <1>2, <1>5, <2>1, <2>2 DEF IInv, OnTime
<1>9. sup.seq \in Nat /\ sup.seq < lease'.seq
  <2>1. sup.seq \in Nat
    BY DEF IInv, Shapes, SupShape
  <2>2. sup.seq <= lease.seq
    BY DEF IInv, Expiry
  <2> QED
    BY <1>2, <1>3, <2>1, <2>2
<1>10. Expiry'
  BY <1>1, <1>2, <1>3, <1>9 DEF IInv, Expiry
<1>11. WallHonoured'
  <2>1. NoEarlyStop'
    BY <1>1 DEF IInv, WallHonoured, NoEarlyStop
  <2>2. sup.seq # lease'.seq
    BY <1>2, <1>3, <1>9
  <2>3. AnswerFits'
    BY <1>1, <2>2 DEF AnswerFits
  <2> QED
    BY <2>1, <2>3 DEF WallHonoured
<1> QED
  BY <1>4, <1>6, <1>7, <1>8, <1>10, <1>11 DEF IInv

\* The run begins: the observer and the supervisor are given the same wall.
LEMMA BeginKeeps ==
  ASSUME GuardedAssumption, IInv, Begin
  PROVE  IInv'
<1> DEFINE root == conf.kind = "root"
           reserve == ReportWallTime(conf.settings, DefaultReserve)
           wall == ResearchWall(conf.settings, reserve)
           soft == IF root THEN SoftDeadline(wall.deadline, 0) ELSE SoftDeadline(conf.budget, LastTurn)
           hard == IF root THEN Ceiling(conf.settings) ELSE conf.budget
           watched == Watches("wall") /\ (root => wall.deadline > 0)
           bounded == Watches("wall") /\ hard # NoTime
<1>1. /\ run.pc = "new" /\ UNCHANGED <<now, lease, pending, accepted>>
      /\ run' = [run EXCEPT !.pc = "turn", !.wall = IF root THEN wall ELSE @,
                            !.reserve = IF root THEN reserve ELSE @]
      /\ view' = IF watched THEN StartView(soft, conf.leased, lease, now) ELSE view
      /\ sup' = IF bounded THEN [sup EXCEPT !.pc = "check", !.dur = hard, !.start = now] ELSE sup
      /\ conf' = [conf EXCEPT !.settings = NoSettings]
  BY DEF Begin, clocks, LastTurn
<1>2. now = 0 /\ sup.pc = "off" /\ view = NoView /\ run.stop = "none" /\ sup.why = "none"
  BY <1>1 DEF IInv, Limits
<1>3. conf.settings \in AllSettings /\ conf.budget \in Nat /\ conf.leased \in BOOLEAN
      /\ conf.kind \in {"root", "sub"} /\ \A t \in Totals(conf.settings) : t > 1
  BY DEF IInv, Shapes, ConfShape
<1>4. reserve \in Nat
  BY <1>3, ReserveTimes
<1>5. /\ wall \in [deadline : Nat, hard : Nat]
      /\ Ceiling(conf.settings) # NoTime =>
           wall.hard > 0 /\ Ceiling(conf.settings) = wall.hard /\ wall.deadline > 0
  BY <1>3, <1>4, Walls
<1>6. LastTurn \in Nat
  <2>1. LlmTimeout + ToolTimeout + Margin \in Nat
    BY DEF GuardedAssumption
  <2> QED
    BY <2>1, MaxOfTwo DEF LastTurn, GuardReserve
<1>7. soft \in Nat /\ (root => soft = wall.deadline)
  BY <1>3, <1>5, <1>6, SoftDeadlines
<1>8. bounded => hard \in Nat /\ watched
  BY <1>3, <1>5
<1> HIDE DEF reserve, wall, soft, hard
<1>9. /\ RunOK(run') /\ run'.pc = "turn" /\ run'.stop = "none"
      /\ root => run'.wall = wall
  <2>1. RunOK(run)
    BY DEF IInv, Shapes
  <2>2. CASE root
    BY <1>1, <1>2, <1>4, <1>5, <2>1, <2>2 DEF RunOK, Points
  <2>3. CASE ~root
    BY <1>1, <1>2, <2>1, <2>3 DEF RunOK, Points
  <2> QED
    BY <2>2, <2>3
<1>10. ConfShape' /\ conf'.kind = conf.kind /\ conf'.leased = conf.leased
       /\ conf'.budget = conf.budget /\ conf'.watch = conf.watch
  <2>1. NoSettings \in AllSettings /\ Totals(NoSettings) = {}
    BY DEF NoSettings, AllSettings, Setting, Unset, Totals, PositiveSeconds, EnvTotal
  <2> QED
    BY <1>1, <2>1 DEF IInv, Shapes, ConfShape
<1>11. /\ ViewShape'
       /\ watched => view'.soft = soft /\ view'.leased = conf.leased
       /\ ~watched => view'.soft = NoTime
  <2>1. lease.seq \in Nat
    BY DEF IInv, Shapes, ClockShape
  <2>2. CASE watched
    BY <1>1, <1>2, <1>3, <1>7, <2>1, <2>2 DEF StartView, ViewShape, Times
  <2>3. CASE ~watched
    BY <1>1, <1>2, <2>3 DEF IInv, Shapes, ViewShape, NoView
  <2> QED
    BY <2>2, <2>3
<1>12. /\ SupShape' /\ sup'.why = "none" /\ sup'.seq = sup.seq
       /\ bounded => sup'.pc = "check" /\ sup'.dur = hard
       /\ ~bounded => sup'.pc = "off"
  <2>1. CASE bounded
    BY <1>1, <1>2, <1>8, <2>1 DEF IInv, Shapes, SupShape, Stages, Times
  <2>2. CASE ~bounded
    BY <1>1, <1>2, <2>2 DEF IInv, Shapes, SupShape
  <2> QED
    BY <2>1, <2>2
<1>13. ClockShape' /\ Leases'
  BY <1>1, <1>10 DEF IInv, Shapes, ClockShape, Leases, From
<1>14. Limits'
  <2>1. CASE bounded
    BY <1>5, <1>7, <1>8, <1>9, <1>10, <1>11, <1>12, <2>1 DEF Limits, Watches, hard, soft
  <2>2. CASE ~bounded
    BY <1>9, <1>10, <1>11, <1>12, <2>2 DEF Limits
  <2> QED
    BY <2>1, <2>2
<1>15. OnTime'
  <2>1. bounded => view'.soft \in Nat
    BY <1>7, <1>8, <1>11
  <2>2. From' \in Nat /\ now' = 0
    BY <1>1, <1>2, Counting DEF IInv, From
  <2> QED
    BY <1>9, <1>12, <2>1, <2>2 DEF OnTime
<1>16. Expiry'
  BY <1>1, <1>12 DEF IInv, Expiry
<1>17. WallHonoured'
  BY <1>9, <1>12 DEF WallHonoured, NoEarlyStop, AnswerFits
<1> QED
  BY <1>9, <1>10, <1>11, <1>12, <1>13, <1>14, <1>15, <1>16, <1>17 DEF IInv, Shapes

\* A covered run has its deadline before its ceiling.
LEMMA CoveredWalls ==
  ASSUME GuardedAssumption, IInv, sup.pc # "off", Covered
  PROVE  /\ view.soft \in Nat /\ view.soft # NoTime /\ run.wall.hard \in Nat
         /\ conf.kind = "root" => /\ run.wall.hard > 0
                                  /\ view.soft + ToolTimeout <= run.wall.hard
         /\ conf.kind # "root" => view.soft + LlmTimeout + ToolTimeout + Margin = conf.budget
<1>1. run.wall \in [deadline : Nat, hard : Nat] /\ conf.budget \in Nat
      /\ ToolTimeout \in Nat /\ LlmTimeout \in Nat /\ Margin \in Nat
  BY DEF IInv, Shapes, RunOK, ConfShape, GuardedAssumption
<1>2. CASE conf.kind = "root"
  <2>1. run.wall.hard > 0 /\ run.wall.deadline > 0 /\ view.soft = run.wall.deadline
    BY <1>2 DEF IInv, Limits
  <2>2. Max({ToolTimeout, 0}) = ToolTimeout
    BY <1>1, MaxOfTwo
  <2>3. run.wall.deadline + ToolTimeout <= run.wall.hard
    BY <1>1, <1>2, <2>1, <2>2 DEF Covered, WallFeasible
  <2> QED
    BY <1>1, <1>2, <2>1, <2>3 DEF NoTime
<1>3. CASE conf.kind # "root"
  <2>1. view.soft = SoftDeadline(conf.budget, LastTurn) /\ 2 * LastTurn <= conf.budget
    BY <1>3 DEF IInv, Limits, Covered
  <2>2. LlmTimeout + ToolTimeout + Margin \in Nat
    BY <1>1
  <2>3. LastTurn = LlmTimeout + ToolTimeout + Margin
    BY <2>2, MaxOfTwo DEF LastTurn, GuardReserve
  <2>4. SoftDeadline(conf.budget, LastTurn) \in Nat
        /\ SoftDeadline(conf.budget, LastTurn) = conf.budget - LastTurn
    BY <1>1, <2>1, <2>2, <2>3, SoftDeadlines
  <2> QED
    BY <1>1, <1>3, <2>1, <2>3, <2>4 DEF NoTime
<1> QED
  BY <1>2, <1>3

\* A loop that stops before its ceiling finalizes in time.
LEMMA StopInTime ==
  ASSUME GuardedAssumption, IInv, sup.pc # "off", Covered, NEW r, RunOK(r), r.wall = run.wall,
         NEW why, conf.kind = "root" => now <= From + run.wall.hard
  PROVE  LET s == Stopped(r, why) IN
         s.pc = "final" => /\ conf.kind = "root" /\ now <= s.until
                           /\ s.until <= From + run.wall.hard + MinimumPhase
<1> SUFFICES ASSUME Stopped(r, why).pc = "final"
             PROVE  /\ conf.kind = "root" /\ now <= Stopped(r, why).until
                    /\ Stopped(r, why).until <= From + run.wall.hard + MinimumPhase
  OBVIOUS
<1>1. conf.kind = "root" /\ Stopped(r, why).until = now + PhaseBudget
  BY Stops
<1>2. run.wall.hard > 0 /\ run.wall.hard \in Nat /\ now \in Nat /\ From \in Nat
  BY <1>1, CoveredWalls, Counting DEF IInv, Shapes, ClockShape
<1>3. PhaseBudget \in Nat
      /\ \A t \in Int : run.wall.hard <= t /\ now <= t => now + PhaseBudget <= t + MinimumPhase
  BY <1>2, PhaseBudgets DEF IInv
<1>4. From + run.wall.hard \in Int /\ run.wall.hard <= From + run.wall.hard
      /\ now <= From + run.wall.hard
  BY <1>1, <1>2
<1> QED
  BY <1>1, <1>2, <1>3, <1>4

\* The loop asks the model, with a timeout cut to the deadline, or gives up.
LEMMA AskModelKeeps ==
  ASSUME GuardedAssumption, IInv, AskModel
  PROVE  IInv'
<1> DEFINE left == IF view.soft = NoTime THEN LlmTimeout ELSE DeadlineRemaining(view, lease, now)
           timeout == Min({LlmTimeout, left})
           asked == [run EXCEPT !.pc = "llm", !.turn = @ + 1, !.until = now + timeout]
<1>1. /\ run.pc = "turn" /\ UNCHANGED <<conf, now, lease, pending, accepted, sup, view>>
      /\ run' \in {Stopped(run, "max_turns"), Stopped(run, "llm_error"), asked}
  BY DEF AskModel, clocks
<1>2. RunOK(run) /\ now \in Nat /\ LlmTimeout \in Nat /\ From \in Nat
  BY Counting DEF IInv, Shapes, ClockShape, GuardedAssumption
<1>3. left \in Int /\ (view.soft # NoTime => left = view.soft - (now - From))
  BY <1>2, ObserverCounts DEF IInv
<1>4. timeout \in Int /\ timeout <= left /\ (left >= 0 => timeout >= 0)
  BY <1>2, <1>3, MinOfTwo
<1> HIDE DEF left, timeout
<1>5. ViewShape'
  BY <1>1 DEF IInv, Shapes, ViewShape
<1>6. NoEarlyStop
  BY DEF IInv, WallHonoured
<1>7. CASE run' = asked
  <2>1. RunOK(asked) /\ asked.pc = "llm" /\ asked.until = now + timeout
        /\ asked.wall = run.wall /\ asked.stop = run.stop /\ asked.slack = run.slack
    <3> DEFINE e == now + timeout
               n == run.turn + 1
               explicit == [pc |-> "llm", turn |-> n, until |-> e, stop |-> run.stop,
                            slack |-> run.slack, hung |-> run.hung, wall |-> run.wall,
                            reserve |-> run.reserve, calls |-> run.calls, text |-> run.text,
                            reached |-> run.reached]
    <3>1. e \in Int /\ asked = [run EXCEPT !.pc = "llm", !.turn = n, !.until = e]
      BY <1>2, <1>4
    <3> HIDE DEF e, n, asked
    <3>2. asked = explicit
      BY <1>2, <3>1 DEF RunOK
    <3>3. RunOK(explicit)
      BY <1>2, <3>1 DEF RunOK, Points
    <3> QED
      BY <3>2, <3>3 DEF e
  <2>2. sup.pc # "off" /\ Covered => now <= now + timeout /\ now + timeout <= From + view.soft
    <3> SUFFICES ASSUME sup.pc # "off", Covered
                 PROVE  now <= now + timeout /\ now + timeout <= From + view.soft
      OBVIOUS
    <3>1. view.soft \in Nat /\ view.soft # NoTime /\ now <= From + view.soft
      BY <1>1, CoveredWalls DEF IInv, OnTime
    <3> QED
      BY <1>2, <1>3, <1>4, <3>1
  <2>3. OnTime'
    BY <1>1, <1>7, <2>1, <2>2 DEF OnTime, Covered, From
  <2> QED
    BY <1>1, <1>5, <1>6, <1>7, <2>1, <2>3, RunSteps DEF NoEarlyStop
<1>8. ASSUME NEW why \in {"max_turns", "llm_error"}, run' = Stopped(run, why)
      PROVE  IInv'
  <2>1. /\ RunOK(run') /\ run'.pc \in {"final", "done"} /\ run'.stop = why
        /\ run'.wall = run.wall /\ run'.slack = run.slack
    BY <1>2, <1>8, Stops
  <2>2. sup.pc # "off" /\ Covered /\ run'.pc = "final" =>
          /\ conf.kind = "root" /\ now <= run'.until
          /\ run'.until <= From + run.wall.hard + MinimumPhase
    <3> SUFFICES ASSUME sup.pc # "off", Covered
                 PROVE  run'.pc = "final" =>
                          /\ conf.kind = "root" /\ now <= run'.until
                          /\ run'.until <= From + run.wall.hard + MinimumPhase
      OBVIOUS
    <3>1. now <= From + view.soft
      BY <1>1 DEF IInv, OnTime
    <3>2. conf.kind = "root" => now <= From + run.wall.hard
      BY <1>2, <3>1, CoveredWalls DEF GuardedAssumption
    <3> QED
      BY <1>2, <1>8, <3>2, StopInTime
  <2>3. OnTime'
    BY <1>1, <2>1, <2>2 DEF OnTime, Covered, From
  <2> QED
    BY <1>1, <1>5, <2>1, <2>3, RunSteps
<1> QED
  BY <1>1, <1>7, <1>8

\* The model asks for tools, which take no longer than their timeout.
LEMMA ModelRepliesKeeps ==
  ASSUME GuardedAssumption, IInv, ModelReplies
  PROVE  IInv'
<1>1. PICK calls, text :
        /\ run.pc = "llm" /\ UNCHANGED <<conf, now, lease, pending, accepted, sup, view>>
        /\ run' = [run EXCEPT !.pc = "tools", !.calls = calls, !.text = text,
                              !.until = now + (IF calls = NoCalls THEN 0 ELSE ToolTimeout)]
  BY DEF ModelReplies, clocks
<1> DEFINE took == IF calls = NoCalls THEN 0 ELSE ToolTimeout
           e == now + took
           explicit == [pc |-> "tools", turn |-> run.turn, until |-> e, stop |-> run.stop,
                        slack |-> run.slack, hung |-> run.hung, wall |-> run.wall,
                        reserve |-> run.reserve, calls |-> calls, text |-> text,
                        reached |-> run.reached]
<1>2. RunOK(run) /\ now \in Nat /\ ToolTimeout \in Nat /\ From \in Nat
  BY Counting DEF IInv, Shapes, ClockShape, GuardedAssumption
<1>3. e \in Int /\ now <= e /\ e <= now + ToolTimeout
  BY <1>2
<1> HIDE DEF took
<1>4. run' = [run EXCEPT !.pc = "tools", !.calls = calls, !.text = text, !.until = e]
  BY <1>1 DEF took
<1> HIDE DEF e
<1>5. run' = explicit
  BY <1>2, <1>4 DEF RunOK
<1>6. RunOK(explicit)
  BY <1>2, <1>3 DEF RunOK, Points
<1>7. OnTime'
  <2>1. sup.pc # "off" /\ Covered =>
          view.soft \in Nat /\ e <= From + view.soft + ToolTimeout
    <3> SUFFICES ASSUME sup.pc # "off", Covered
                 PROVE  view.soft \in Nat /\ e <= From + view.soft + ToolTimeout
      OBVIOUS
    <3>1. view.soft \in Nat /\ now <= run.until /\ run.until <= From + view.soft
      BY <1>1, CoveredWalls DEF IInv, OnTime
    <3>2. run.until \in Int
      BY <1>2 DEF RunOK
    <3> QED
      BY <1>2, <1>3, <3>1, <3>2
  <2>2. run'.pc = "tools" /\ run'.until = e /\ run'.wall = run.wall
    BY <1>5
  <2> QED
    BY <1>1, <1>3, <2>1, <2>2 DEF OnTime, Covered, From
<1>8. ViewShape' /\ NoEarlyStop
  BY <1>1 DEF IInv, Shapes, ViewShape, WallHonoured
<1> QED
  BY <1>1, <1>5, <1>6, <1>7, <1>8, RunSteps DEF NoEarlyStop

\* The model answers before its timeout, and the loop ends.
LEMMA ModelAnswersKeeps ==
  ASSUME GuardedAssumption, IInv, ModelAnswers
  PROVE  IInv'
<1>1. /\ run.pc = "llm" /\ UNCHANGED <<conf, now, lease, pending, accepted, sup, view>>
      /\ run' = Stopped(run, "no_tool")
  BY DEF ModelAnswers, clocks
<1>2. RunOK(run) /\ now \in Nat /\ From \in Nat /\ ToolTimeout \in Nat
  BY Counting DEF IInv, Shapes, ClockShape, GuardedAssumption
<1>3. /\ RunOK(run') /\ run'.pc \in {"final", "done"} /\ run'.stop = "no_tool"
      /\ run'.wall = run.wall /\ run'.slack = run.slack
  BY <1>1, <1>2, Stops
<1>4. sup.pc # "off" /\ Covered /\ run'.pc = "final" =>
        /\ conf.kind = "root" /\ now <= run'.until
        /\ run'.until <= From + run.wall.hard + MinimumPhase
  <2> SUFFICES ASSUME sup.pc # "off", Covered
               PROVE  run'.pc = "final" =>
                        /\ conf.kind = "root" /\ now <= run'.until
                        /\ run'.until <= From + run.wall.hard + MinimumPhase
    OBVIOUS
  <2>1. now <= run.until /\ run.until <= From + view.soft /\ run.until \in Int
    BY <1>1, <1>2 DEF IInv, OnTime, RunOK
  <2>2. conf.kind = "root" => now <= From + run.wall.hard
    BY <1>2, <2>1, CoveredWalls
  <2> QED
    BY <1>1, <1>2, <2>2, StopInTime
<1>5. OnTime'
  BY <1>1, <1>3, <1>4 DEF OnTime, Covered, From
<1>6. ViewShape'
  BY <1>1 DEF IInv, Shapes, ViewShape
<1> QED
  BY <1>1, <1>3, <1>5, <1>6, RunSteps

\* A hung run is outside its timeouts, and known to be.
LEMMA HangsKeeps ==
  ASSUME IInv, Hangs
  PROVE  IInv'
<1>1. /\ run.pc \in {"tools", "final"} /\ UNCHANGED <<conf, now, lease, pending, accepted, sup, view>>
      /\ run' = [run EXCEPT !.pc = "hung", !.hung = TRUE]
  BY DEF Hangs, clocks
<1> DEFINE explicit == [pc |-> "hung", turn |-> run.turn, until |-> run.until, stop |-> run.stop,
                        slack |-> run.slack, hung |-> TRUE, wall |-> run.wall,
                        reserve |-> run.reserve, calls |-> run.calls, text |-> run.text,
                        reached |-> run.reached]
<1>2. RunOK(run)
  BY DEF IInv, Shapes
<1>3. run' = explicit
  BY <1>1, <1>2 DEF RunOK
<1>4. RunOK(explicit)
  <2>1. explicit.hung \in BOOLEAN
    BY Zenon
  <2> QED
    BY <1>2, <2>1 DEF RunOK, Points
<1>5. OnTime'
  BY <1>1, <1>3 DEF OnTime
<1>6. ViewShape' /\ NoEarlyStop
  BY <1>1 DEF IInv, Shapes, ViewShape, WallHonoured
<1> QED
  BY <1>1, <1>3, <1>4, <1>5, <1>6, RunSteps DEF NoEarlyStop

\* The finalization answers.
LEMMA FinalEndsKeeps ==
  ASSUME IInv, FinalEnds
  PROVE  IInv'
<1>1. /\ run.pc = "final" /\ UNCHANGED <<conf, now, lease, pending, accepted, sup, view>>
      /\ run' = [run EXCEPT !.pc = "done"]
  BY DEF FinalEnds, clocks
<1>2. RunOK(run)
  BY DEF IInv, Shapes
<1>3. RunOK(run') /\ run'.pc = "done" /\ run'.wall = run.wall /\ run'.stop = run.stop
      /\ run'.slack = run.slack
  BY <1>1, <1>2 DEF RunOK, Points
<1>4. OnTime'
  BY <1>3 DEF OnTime
<1>5. ViewShape' /\ NoEarlyStop
  BY <1>1 DEF IInv, Shapes, ViewShape, WallHonoured
<1> QED
  BY <1>1, <1>3, <1>4, <1>5, RunSteps DEF NoEarlyStop

\* WallTurnEnd asks for a stop exactly when the window is over, and leaves the
\* observer its deadline.
LEMMA Verdicts ==
  ASSUME Shapes, Leases, Limits
  PROVE  /\ Clock.view \in [soft : Times, start : {0}, leased : BOOLEAN, seq : Nat, warned : BOOLEAN]
         /\ Clock.view.soft = view.soft /\ Clock.view.leased = view.leased
         /\ view.soft = NoTime => ~Clock.stop
         /\ view.soft # NoTime => (Clock.stop <=> now - From >= view.soft)
<1>1. /\ view \in [soft : Times, start : {0}, leased : BOOLEAN, seq : Nat, warned : BOOLEAN]
      /\ lease.seq \in Nat
  BY DEF Shapes, ViewShape, ClockShape
<1>2. CASE view.soft = NoTime
  <2>1. Clock = [view |-> view, stop |-> FALSE, warn |-> FALSE]
    BY <1>2 DEF Clock
  <2> QED
    BY <1>1, <1>2, <2>1
<1>3. CASE view.soft # NoTime
  <2> DEFINE fresh == IF view.leased /\ lease.seq # view.seq
                      THEN [view EXCEPT !.seq = lease.seq, !.warned = FALSE] ELSE view
             elapsed == ViewElapsed(view, lease, now)
             stop == elapsed >= view.soft
             warn == /\ ~stop /\ view.soft > 0 /\ ~fresh.warned
                     /\ elapsed * 5 >= view.soft * 4
  <2>1. elapsed = now - From
    BY <1>3, ObserverCounts
  <2>2. Clock = [view |-> [fresh EXCEPT !.warned = @ \/ warn], stop |-> stop, warn |-> warn]
    BY <1>3 DEF Clock, WallTurnEnd
  <2>3. /\ fresh \in [soft : Times, start : {0}, leased : BOOLEAN, seq : Nat, warned : BOOLEAN]
        /\ fresh.soft = view.soft /\ fresh.leased = view.leased
    BY <1>1
  <2> HIDE DEF fresh, elapsed
  <2>4. (fresh.warned \/ warn) \in BOOLEAN
    BY Zenon
  <2>5. Clock.view = [fresh EXCEPT !.warned = fresh.warned \/ warn] /\ (Clock.stop <=> stop)
    BY <2>2
  <2> HIDE DEF warn
  <2>6. /\ Clock.view \in [soft : Times, start : {0}, leased : BOOLEAN, seq : Nat, warned : BOOLEAN]
        /\ Clock.view.soft = view.soft /\ Clock.view.leased = view.leased
    BY <2>3, <2>4, <2>5
  <2> QED
    BY <1>3, <2>1, <2>5, <2>6
<1> QED
  BY <1>2, <1>3

\* A turn that ends before the deadline may be followed by another one; any
\* other one has left time for the finalization.
LEMMA TurnEndsKeeps ==
  ASSUME GuardedAssumption, IInv, TurnEnds
  PROVE  IInv'
<1> DEFINE why == StopReason(Repetition.stop, Similarity.stop, Spending.stop, Clock.stop)
           reached == Reached(Admission.refused)
           slack == IF why = "wall_deadline" THEN now - Max({view.start, accepted}) ELSE run.slack
           after == [pc |-> "turn", turn |-> run.turn, until |-> run.until, stop |-> run.stop,
                     slack |-> slack, hung |-> run.hung, wall |-> run.wall,
                     reserve |-> run.reserve, calls |-> NoCalls, text |-> {},
                     reached |-> reached]
<1>1. /\ run.pc = "tools" /\ UNCHANGED <<conf, now, lease, pending, accepted, sup>>
      /\ view' = Clock.view /\ run' = AfterTurn(why, reached)
  BY DEF TurnEnds, clocks
<1>2. (why = "wall_deadline" => Clock.stop) /\ (why = "none" => ~Clock.stop)
  BY DEF StopReason
<1>3. RunOK(run) /\ now \in Nat /\ From \in Nat /\ ToolTimeout \in Nat /\ view.start = 0
      /\ Max({0, accepted}) = From /\ run.slack \in Int
  BY Counting DEF IInv, Shapes, ClockShape, RunOK, GuardedAssumption, ViewShape
<1>4. slack \in Int /\ (why = "wall_deadline" => slack = now - From)
      /\ (why # "wall_deadline" => slack = run.slack)
  BY <1>3
<1>5. AfterTurn(why, reached) = IF why = "none" THEN after ELSE Stopped(after, why)
  <2> DEFINE over == [run EXCEPT !.pc = "turn", !.calls = NoCalls, !.text = {}]
             r == [over EXCEPT !.reached = reached, !.slack = slack]
  <2>1. over.slack = run.slack
    BY <1>3 DEF RunOK
  <2>2. AfterTurn(why, reached) = IF why = "none" THEN r ELSE Stopped(r, why)
    <3> HIDE DEF reached, why, over
    <3> QED
      BY <2>1 DEF AfterTurn, over
  <2>3. r = after
    <3> HIDE DEF slack, reached
    <3>1. ASSUME NEW c, NEW t, NEW q,
                 q = [[run EXCEPT !.pc = "turn", !.calls = c, !.text = t]
                        EXCEPT !.reached = reached, !.slack = slack]
          PROVE  q = [pc |-> "turn", turn |-> run.turn, until |-> run.until, stop |-> run.stop,
                      slack |-> slack, hung |-> run.hung, wall |-> run.wall,
                      reserve |-> run.reserve, calls |-> c, text |-> t, reached |-> reached]
      BY <1>3, <3>1 DEF RunOK
    <3> QED
      BY <3>1, Zenon
  <2> HIDE DEF after, why, slack, reached, r
  <2> QED
    BY <2>2, <2>3
<1>6. RunOK(after) /\ after.wall = run.wall /\ after.stop = run.stop /\ after.slack = slack
      /\ after.pc = "turn"
  <2> HIDE DEF slack, reached
  <2> QED
    BY <1>3, <1>4 DEF RunOK, Points
<1>7. /\ ViewShape' /\ view'.soft = view.soft /\ view'.leased = view.leased
      /\ view.soft = NoTime => ~Clock.stop
      /\ view.soft # NoTime => (Clock.stop <=> now - From >= view.soft)
  BY <1>1, Verdicts DEF IInv, ViewShape
<1>8. NoEarlyStop
  BY DEF IInv, WallHonoured
<1> HIDE DEF after, why, slack, reached
<1>9. CASE why = "none"
  <2>1. run' = after
    BY <1>1, <1>5, <1>9
  <2>2. sup.pc # "off" /\ Covered => now <= From + view.soft
    BY <1>2, <1>3, <1>7, <1>9, CoveredWalls
  <2>3. OnTime'
    BY <1>1, <1>6, <1>7, <2>1, <2>2 DEF OnTime, Covered, From
  <2>4. run'.stop = "wall_deadline" => run'.slack >= view.soft
    BY <1>4, <1>6, <1>8, <1>9, <2>1 DEF NoEarlyStop
  <2> QED
    BY <1>1, <1>6, <1>7, <2>1, <2>3, <2>4, RunSteps
<1>10. CASE why # "none"
  <2>1. run' = Stopped(after, why)
    BY <1>1, <1>5, <1>10
  <2>2. /\ RunOK(run') /\ run'.pc \in {"final", "done"} /\ run'.stop = why
        /\ run'.wall = run.wall /\ run'.slack = slack
    BY <1>6, <2>1, Stops
  <2>3. sup.pc # "off" /\ Covered /\ run'.pc = "final" =>
          /\ conf.kind = "root" /\ now <= run'.until
          /\ run'.until <= From + run.wall.hard + MinimumPhase
    <3> SUFFICES ASSUME sup.pc # "off", Covered
                 PROVE  run'.pc = "final" =>
                          /\ conf.kind = "root" /\ now <= run'.until
                          /\ run'.until <= From + run.wall.hard + MinimumPhase
      OBVIOUS
    <3>1. now <= run.until /\ run.until <= From + view.soft + ToolTimeout /\ run.until \in Int
      BY <1>1, <1>3 DEF IInv, OnTime, RunOK
    <3>2. conf.kind = "root" => now <= From + run.wall.hard
      BY <1>3, <3>1, CoveredWalls
    <3> QED
      BY <1>6, <2>1, <3>2, StopInTime
  <2>4. OnTime'
    BY <1>1, <2>2, <2>3 DEF OnTime, Covered, From
  <2>5. run'.stop = "wall_deadline" => run'.slack >= view.soft
    BY <1>2, <1>4, <1>7, <2>2
  <2> QED
    BY <1>1, <1>7, <2>2, <2>4, <2>5, RunSteps
<1> QED
  BY <1>9, <1>10

\* A step of the supervisor alone that keeps what it enforces.
LEMMA SupSteps ==
  ASSUME IInv, UNCHANGED <<conf, now, lease, pending, accepted, view, run>>,
         SupShape', sup.pc # "off", sup'.pc # "off", sup'.dur = sup.dur, Expiry',
         conf.kind = "root" /\ sup'.why = "lease" => sup'.slack >= sup.dur,
         run.pc = "cancelled" => sup'.seq = sup.seq /\ sup'.why = sup.why
  PROVE  IInv'
<1>1. Shapes'
  BY DEF IInv, Shapes, RunOK, ConfShape, ViewShape, ClockShape
<1>2. Leases'
  BY DEF IInv, Leases, From
<1>3. Limits'
  BY DEF IInv, Limits, Watches
<1>4. OnTime'
  BY DEF IInv, OnTime, Covered, From
<1>5. WallHonoured'
  BY DEF IInv, WallHonoured, NoEarlyStop, AnswerFits
<1> QED
  BY <1>1, <1>2, <1>3, <1>4, <1>5 DEF IInv

\* The supervisor reads the lease: it returns, waits for what is left, or
\* begins the grace period when nothing is.
LEMMA SupCheckKeeps ==
  ASSUME GuardedAssumption, IInv, SupCheck
  PROVE  IInv'
<1> DEFINE left == Min({LeaseLeft} \cup (IF SessionLimited THEN {SessionLeft} ELSE {}))
           why == IF SessionLimited /\ SessionLeft <= 0 THEN "session" ELSE "lease"
           slack == now - Max({sup.start, accepted})
           e == now + GraceS
           f == now + left
<1>1. /\ sup.pc = "check" /\ UNCHANGED <<conf, now, lease, pending, accepted, view, run>>
      /\ \/ Ended(run) /\ sup' = Returned
         \/ ~Ended(run) /\ left <= 0
            /\ sup' = [sup EXCEPT !.pc = "grace", !.until = e, !.why = why, !.slack = slack,
                                  !.seq = lease.seq]
         \/ ~Ended(run) /\ sup' = [sup EXCEPT !.pc = "wait", !.until = f]
  BY DEF SupCheck, clocks
<1>2. SupShape /\ now \in Nat /\ From \in Nat /\ sup.start = 0 /\ Max({0, accepted}) = From
      /\ lease.seq \in Nat /\ Grace \in Nat /\ conf.maxSession \in Times
  BY Counting DEF IInv, Shapes, ClockShape, SupShape, ConfShape, GuardedAssumption
<1>3. sup.dur \in Nat
  BY <1>1 DEF IInv, Limits, Shapes, RunOK, ConfShape
<1>4. LeaseLeft = IF conf.kind = "root" THEN sup.dur - (now - From) ELSE sup.dur - now
  BY <1>2, <1>3, Counting DEF IInv, LeaseLeft
<1>5. SessionLimited => SessionLeft \in Int
  BY <1>2 DEF SessionLimited, SessionLeft, Times
<1>6. /\ left \in Int
      /\ left <= 0 /\ why = "lease" => LeaseLeft <= 0
  <2>1. LeaseLeft \in Int
    BY <1>2, <1>3, <1>4
  <2>2. CASE SessionLimited
    <3>1. left = Min({LeaseLeft, SessionLeft})
      <4>1. {LeaseLeft} \cup {SessionLeft} = {LeaseLeft, SessionLeft}
        OBVIOUS
      <4> QED
        BY <2>2, <4>1
    <3>2. left = IF LeaseLeft <= SessionLeft THEN LeaseLeft ELSE SessionLeft
      BY <1>5, <2>1, <2>2, <3>1, MinOfTwo
    <3> QED
      BY <1>5, <2>1, <2>2, <3>2
  <2>3. CASE ~SessionLimited
    <3>1. left = Min({LeaseLeft, LeaseLeft})
      <4>1. {LeaseLeft} \cup {} = {LeaseLeft, LeaseLeft}
        OBVIOUS
      <4> QED
        BY <2>3, <4>1
    <3>2. left = LeaseLeft
      BY <2>1, <3>1, MinOfTwo
    <3> QED
      BY <2>1, <3>2
  <2> QED
    BY <2>2, <2>3
<1>7. slack = now - From /\ slack \in Int
  BY <1>2
<1>8. e \in Int /\ f \in Int /\ e = IF conf.kind = "root" THEN now + Grace ELSE now
  BY <1>2, <1>6 DEF GraceS
<1>9. why \in {"lease", "session"} /\ (why = "session" => conf.kind = "root")
  BY DEF SessionLimited
<1>10. sup \in [pc : Stages, dur : Times, start : {0}, until : Int,
                why : {"none", "lease", "session"}, slack : Int, seq : Nat]
       /\ {"returned", "grace", "wait"} \subseteq Stages
  BY <1>2 DEF SupShape, Stages
<1>11. /\ sup.seq <= lease.seq
       /\ conf.kind = "root" /\ sup.why = "lease" => sup.slack >= sup.dur
  BY DEF IInv, Expiry, WallHonoured, NoEarlyStop
<1> HIDE DEF left, why, slack, e, f
<1>12. CASE Ended(run) /\ sup' = Returned
  <2>1. SupShape' /\ sup'.pc = "returned" /\ sup'.dur = sup.dur /\ sup'.why = sup.why
        /\ sup'.seq = sup.seq /\ sup'.slack = sup.slack
    BY <1>10, <1>12 DEF Returned, SupShape
  <2>2. Expiry'
    BY <1>1, <1>11, <2>1 DEF Expiry
  <2> QED
    BY <1>1, <1>11, <2>1, <2>2, SupSteps
<1>13. CASE ~Ended(run) /\ left <= 0
            /\ sup' = [sup EXCEPT !.pc = "grace", !.until = e, !.why = why, !.slack = slack,
                                  !.seq = lease.seq]
  <2>1. SupShape' /\ sup'.pc = "grace" /\ sup'.dur = sup.dur /\ sup'.why = why
        /\ sup'.seq = lease.seq /\ sup'.slack = slack /\ sup'.until = e
    BY <1>2, <1>7, <1>8, <1>9, <1>10, <1>13 DEF SupShape
  <2>2. why = "lease" => now - (IF conf.kind = "root" THEN From ELSE 0) >= sup.dur
    BY <1>2, <1>3, <1>4, <1>6, <1>13
  <2>3. Expiry'
    <3>1. From' = From /\ lease' = lease /\ conf' = conf
      BY <1>1 DEF From
    <3>2. why = "lease" => e >= sup.dur + (IF conf.kind = "root" THEN From + Grace ELSE 0)
      BY <1>2, <1>3, <1>8, <2>2
    <3> QED
      BY <1>2, <1>9, <2>1, <3>1, <3>2 DEF Expiry
  <2>4. run.pc # "cancelled"
    BY <1>13 DEF Ended
  <2>5. conf.kind = "root" /\ why = "lease" => slack >= sup.dur
    BY <1>7, <2>2
  <2> QED
    BY <1>1, <2>1, <2>3, <2>4, <2>5, SupSteps
<1>14. CASE ~Ended(run) /\ sup' = [sup EXCEPT !.pc = "wait", !.until = f]
  <2>1. SupShape' /\ sup'.pc = "wait" /\ sup'.dur = sup.dur /\ sup'.why = sup.why
        /\ sup'.seq = sup.seq /\ sup'.slack = sup.slack
    BY <1>8, <1>10, <1>14 DEF SupShape
  <2>2. Expiry'
    BY <1>1, <1>11, <2>1 DEF Expiry
  <2> QED
    BY <1>1, <1>11, <2>1, <2>2, SupSteps
<1> QED
  BY <1>1, <1>12, <1>13, <1>14

\* A supervisor that waits reads the lease again.
LEMMA SupWakesKeeps ==
  ASSUME IInv, SupWakes
  PROVE  IInv'
<1>1. /\ sup.pc = "wait" /\ UNCHANGED <<conf, now, lease, pending, accepted, view, run>>
      /\ sup' = [sup EXCEPT !.pc = "check"]
  BY DEF SupWakes, clocks
<1>2. /\ SupShape' /\ sup'.pc = "check" /\ sup'.dur = sup.dur /\ sup'.why = sup.why
      /\ sup'.seq = sup.seq /\ sup'.slack = sup.slack
  BY <1>1 DEF IInv, Shapes, SupShape, Stages
<1>3. /\ Expiry'
      /\ conf.kind = "root" /\ sup.why = "lease" => sup.slack >= sup.dur
  BY <1>1, <1>2 DEF IInv, Expiry, WallHonoured, NoEarlyStop
<1> QED
  BY <1>1, <1>2, <1>3, SupSteps

\* The grace period is over: a run that is cancelled had no time left to
\* answer in, or hangs.
LEMMA GraceEndsKeeps ==
  ASSUME GuardedAssumption, ConfsAssumption, IInv, GraceEnds
  PROVE  IInv'
<1>1. sup.pc = "grace" /\ UNCHANGED <<conf, now, lease, pending, accepted, view>>
  BY DEF GraceEnds, clocks
<1>2. SupShape /\ RunOK(run)
  BY DEF IInv, Shapes
<1>3. CASE Ended(run)
  <2>1. sup' = [sup EXCEPT !.pc = "returned"] /\ run' = run
    BY <1>3 DEF GraceEnds, Returned
  <2>2. /\ SupShape' /\ sup'.pc = "returned" /\ sup'.dur = sup.dur /\ sup'.why = sup.why
        /\ sup'.seq = sup.seq /\ sup'.slack = sup.slack
    BY <1>2, <2>1 DEF SupShape, Stages
  <2>3. /\ Expiry'
        /\ conf.kind = "root" /\ sup.why = "lease" => sup.slack >= sup.dur
    BY <1>1, <2>2 DEF IInv, Expiry, WallHonoured, NoEarlyStop
  <2> QED
    BY <1>1, <2>1, <2>2, <2>3, SupSteps
<1>4. CASE ~Ended(run)
  <2>1. /\ sup' = [sup EXCEPT !.pc = "raised"] /\ run' = [run EXCEPT !.pc = "cancelled"]
        /\ now >= sup.until
    BY <1>4 DEF GraceEnds
  <2>2. /\ SupShape' /\ sup'.pc = "raised" /\ sup'.dur = sup.dur /\ sup'.why = sup.why
        /\ sup'.seq = sup.seq /\ sup'.slack = sup.slack /\ sup'.until = sup.until
    BY <1>2, <2>1 DEF SupShape, Stages
  <2>3. /\ RunOK(run') /\ run'.pc = "cancelled" /\ run'.wall = run.wall /\ run'.stop = run.stop
        /\ run'.slack = run.slack /\ run'.hung = run.hung
    BY <1>2, <2>1 DEF RunOK, Points
  <2>4. Shapes'
    BY <1>1, <2>2, <2>3 DEF IInv, Shapes, ConfShape, ViewShape, ClockShape
  <2>5. Leases' /\ Limits' /\ OnTime' /\ Expiry'
    BY <1>1, <2>2, <2>3 DEF IInv, Leases, From, Limits, OnTime, Expiry, Watches
  <2>6. NoEarlyStop'
    BY <1>1, <2>2, <2>3 DEF IInv, WallHonoured, NoEarlyStop
  <2>7. AnswerFits'
    <3> SUFFICES ASSUME ~run.hung, lease.seq = sup.seq, sup.why # "session",
                        Covered
                 PROVE  FALSE
      <4>1. conf.kind \in {"root", "sub"} /\ lease.seq \in Nat
            /\ sup.why \in {"lease", "session"} /\ (sup.why = "session" => conf.kind = "root")
        BY <1>1 DEF IInv, Shapes, ConfShape, ClockShape, Expiry
      <4>2. LastTurn \in Int /\ conf.budget \in Int
        <5>1. LlmTimeout + ToolTimeout + Margin \in Int
          BY DEF GuardedAssumption
        <5> QED
          BY <5>1, MaxOfTwo DEF LastTurn, GuardReserve, IInv, Shapes, ConfShape
      <4> QED
        BY <1>1, <2>2, <2>3, <4>1, <4>2 DEF AnswerFits, Covered, LastTurn
    <3>1. /\ LlmTimeout \in Nat /\ ToolTimeout \in Nat /\ Margin \in Nat /\ MinimumPhase \in Nat
          /\ Grace \in Nat /\ MinimumPhase < Grace /\ LlmTimeout > 0
      BY DEF GuardedAssumption, ConfsAssumption
    <3>2. /\ now \in Nat /\ From \in Nat /\ run.until \in Int /\ sup.until \in Int
          /\ conf.budget \in Nat
      BY <1>2, Counting DEF IInv, Shapes, ClockShape, RunOK, SupShape, ConfShape
    <3>3. sup.until >= sup.dur + (IF conf.kind = "root" THEN From + Grace ELSE 0)
      BY <1>1 DEF IInv, Expiry
    <3>4. run.pc \in {"turn", "llm", "tools", "final"}
      BY <1>1, <1>2, <1>4 DEF IInv, Limits, RunOK, Points, Ended, OnTime
    <3>7. /\ view.soft \in Nat /\ run.wall.hard \in Nat
          /\ conf.kind = "root" => view.soft + ToolTimeout <= run.wall.hard
          /\ conf.kind # "root" => view.soft + LlmTimeout + ToolTimeout + Margin = conf.budget
      BY <1>1, CoveredWalls
    <3>8. /\ run.pc = "turn" => now <= From + view.soft
          /\ run.pc = "llm" => now <= run.until /\ run.until <= From + view.soft
          /\ run.pc = "tools" => now <= run.until /\ run.until <= From + view.soft + ToolTimeout
          /\ run.pc = "final" => /\ conf.kind = "root" /\ now <= run.until
                                 /\ run.until <= From + run.wall.hard + MinimumPhase
      BY <1>1 DEF IInv, OnTime
    <3>5. CASE conf.kind = "root"
      <4> DEFINE h == run.wall.hard
      <4>0. h \in Nat /\ view.soft + ToolTimeout <= h
        BY <3>5, <3>7
      <4>1. now <= From + h + MinimumPhase
        <5>1. \/ now <= From + view.soft
              \/ now <= run.until /\ run.until <= From + view.soft + ToolTimeout
              \/ now <= run.until /\ run.until <= From + h + MinimumPhase
          BY <3>1, <3>2, <3>4, <3>7, <3>8
        <5> HIDE DEF h
        <5> QED
          BY <3>1, <3>2, <3>7, <4>0, <5>1
      <4>2. sup.dur = run.wall.hard
        BY <1>1, <3>5 DEF IInv, Limits
      <4> QED
        <5>1. sup.until >= h + From + Grace
          BY <3>3, <3>5, <3>1, <3>2, <4>0, <4>2
        <5> HIDE DEF h
        <5> QED
          BY <2>1, <3>1, <3>2, <4>0, <4>1, <5>1
    <3>6. CASE conf.kind # "root"
      <4> DEFINE v == view.soft
                 b == conf.budget
                 u == run.until
      <4>1. From = 0
        BY <3>6 DEF Covered, IInv, Leases, From
      <4>2. v \in Nat /\ v + LlmTimeout + ToolTimeout + Margin = b /\ b \in Nat /\ u \in Int
        BY <3>2, <3>6, <3>7
      <4>3. run.pc # "final"
        BY <3>6, <3>8
      <4>4. \/ now <= 0 + v
            \/ now <= u /\ u <= 0 + v
            \/ now <= u /\ u <= 0 + v + ToolTimeout
        BY <3>4, <3>8, <4>1, <4>3
      <4>5. sup.until >= b + 0
        BY <1>1, <3>3, <3>6 DEF IInv, Limits
      <4>6. now >= b
        BY <2>1, <3>2, <4>2, <4>5
      <4> HIDE DEF v, b, u
      <4> QED
        BY <3>1, <3>2, <4>2, <4>4, <4>6
    <3> QED
      BY <3>5, <3>6
  <2> QED
    BY <2>4, <2>5, <2>6, <2>7 DEF IInv, WallHonoured
<1> QED
  BY <1>3, <1>4

\* Time passes up to the next timer.
LEMMA TickKeeps ==
  ASSUME IInv, Tick
  PROVE  IInv'
<1>1. /\ UNCHANGED <<conf, lease, pending, accepted, sup, view, run>> /\ now' = now + 1
      /\ run.pc \notin {"new", "turn"}
      /\ run.pc \in {"llm", "tools", "final"} => now < run.until
  BY DEF Tick, Timers
<1>2. now \in Nat /\ From \in Nat /\ From <= now /\ run.until \in Int
  BY Counting DEF IInv, Shapes, ClockShape, RunOK
<1>3. Shapes'
  BY <1>1, <1>2 DEF IInv, Shapes, RunOK, ConfShape, SupShape, ViewShape, ClockShape
<1>4. Leases' /\ Limits' /\ Expiry'
  BY <1>1, <1>2 DEF IInv, Leases, From, Limits, Expiry, Watches
<1>5. OnTime'
  BY <1>1, <1>2 DEF IInv, OnTime, Covered, From
<1>6. WallHonoured'
  BY <1>1 DEF IInv, WallHonoured, NoEarlyStop, AnswerFits
<1> QED
  BY <1>3, <1>4, <1>5, <1>6 DEF IInv

-----------------------------------------------------------------------------
(* The theorems *)

\* Every step keeps the invariant.
LEMMA StepKeeps ==
  ASSUME GuardedAssumption, ConfsAssumption, IInv, [Next]_vars
  PROVE  IInv'
<1>1. CASE \E t \in Threads : CallRenew(t) \/ AcceptRenew(t)
  BY <1>1, CallRenewKeeps, AcceptRenewKeeps
<1>2. CASE Begin \/ AskModel \/ ModelReplies \/ ModelAnswers \/ Hangs \/ TurnEnds \/ FinalEnds
  BY <1>2, BeginKeeps, AskModelKeeps, ModelRepliesKeeps, ModelAnswersKeeps, HangsKeeps,
     TurnEndsKeeps, FinalEndsKeeps
<1>3. CASE NotifyLoopHint \/ ResetLoopHints \/ CleanupTask
  BY <1>3, QuietSteps DEF NotifyLoopHint, ResetLoopHints, CleanupTask, clocks
<1>4. CASE SupCheck \/ SupWakes \/ GraceEnds \/ Tick
  BY <1>4, SupCheckKeeps, SupWakesKeeps, GraceEndsKeeps, TickKeeps
<1>5. CASE \E m \in Messages : Record(m)
  BY <1>5, QuietSteps DEF Record, clocks
<1>6. CASE UNCHANGED vars
  BY <1>6, QuietSteps DEF vars
<1> QED
  BY <1>1, <1>2, <1>3, <1>4, <1>5, <1>6 DEF Next

\* The inductive invariant of a guarded run: one wall, read by the observer
\* and by the supervisor, whatever is renewed and however long calls take.
THEOREM WallInvariant == Spec => []IInv
<1>1. Init => IInv
  BY InitHolds, GuardedAssumption, ConfsAssumption
<1>2. IInv /\ [Next]_vars => IInv'
  BY StepKeeps, GuardedAssumption, ConfsAssumption
<1> QED
  BY <1>1, <1>2, PTL DEF Spec

\* Neither the supervisor nor the observer stops a run before a whole window
\* has passed since the latest renewal, and a run whose wall is feasible is
\* cancelled only when it hangs (run_with_renewable_wall_time,
\* WallClockDeadlineObserver, check_wall_feasibility).
THEOREM WallIsHonoured == Spec => []WallHonoured
<1>1. IInv => WallHonoured
  BY DEF IInv
<1> QED
  BY <1>1, WallInvariant, PTL

\* Renewals only ever postpone: whatever threads renew, in whatever order, no
\* step moves the deadline the observer reads or the expiry the supervisor
\* enforces back (RenewableWallTimeLease.renew, remaining_s_for).
THEOREM GrantsStand == Spec => [][GrantStands]_vars
<1>1. ASSUME IInv, [Next]_vars
      PROVE  [GrantStands]_vars
  <2>1. From \in Nat /\ From <= now /\ now \in Nat
    BY <1>1, Counting DEF IInv, Shapes, ClockShape
  <2>2. ASSUME lease' = lease, view'.soft = view.soft, sup'.dur = sup.dur,
               sup.pc # "off" => sup'.pc # "off"
        PROVE  GrantStands
    BY <2>1, <2>2 DEF GrantStands, From
  <2>3. CASE \E t \in Threads : CallRenew(t)
    BY <2>2, <2>3 DEF CallRenew
  <2>4. CASE \E t \in Threads : AcceptRenew(t)
    <3>1. /\ view' = view /\ sup' = sup /\ lease.renewed \in Times
          /\ lease' = [lease EXCEPT !.seq = @ + 1, !.renewed = now]
      BY <1>1, <2>4 DEF AcceptRenew, Renew, Sampled, IInv, Shapes, ClockShape
    <3>2. lease'.renewed = now
      BY <1>1, <3>1 DEF IInv, Shapes, ClockShape
    <3> QED
      BY <2>1, <3>1, <3>2 DEF GrantStands, From, NoTime
  <2>5. CASE Begin
    <3>1. run.pc = "new" /\ lease' = lease
      BY <2>5 DEF Begin, clocks
    <3>2. view.soft = NoTime /\ sup.pc = "off"
      BY <1>1, <3>1 DEF IInv, Limits, NoView
    <3> QED
      BY <2>1, <3>1, <3>2 DEF GrantStands, From
  <2>6. CASE AskModel \/ ModelReplies \/ ModelAnswers \/ Hangs \/ FinalEnds
    BY <2>2, <2>6 DEF AskModel, ModelReplies, ModelAnswers, Hangs, FinalEnds, clocks
  <2>7. CASE TurnEnds
    <3>1. lease' = lease /\ sup' = sup /\ view' = Clock.view
      BY <2>7 DEF TurnEnds, clocks
    <3>2. view'.soft = view.soft
      BY <1>1, <3>1, Verdicts DEF IInv
    <3> QED
      BY <2>2, <3>1, <3>2
  <2>8. CASE NotifyLoopHint \/ ResetLoopHints \/ CleanupTask \/ Tick \/ \E m \in Messages : Record(m)
    BY <2>2, <2>8 DEF NotifyLoopHint, ResetLoopHints, CleanupTask, Tick, Record, clocks
  <2>9. CASE SupCheck \/ SupWakes \/ GraceEnds
    <3>1. lease' = lease /\ view' = view
      BY <2>9 DEF SupCheck, SupWakes, GraceEnds, clocks
    <3>2. /\ sup \in [pc : Stages, dur : Times, start : {0}, until : Int,
                      why : {"none", "lease", "session"}, slack : Int, seq : Nat]
      BY <1>1 DEF IInv, Shapes, SupShape
    <3>3. sup'.dur = sup.dur /\ sup'.pc # "off"
      <4>1. CASE SupCheck
        BY <3>2, <4>1 DEF SupCheck, Returned
      <4>2. CASE SupWakes
        BY <3>2, <4>2 DEF SupWakes
      <4>3. CASE GraceEnds
        BY <3>2, <4>3 DEF GraceEnds, Returned
      <4> QED
        BY <2>9, <4>1, <4>2, <4>3
    <3> QED
      BY <2>2, <3>1, <3>3
  <2>10. CASE UNCHANGED vars
    BY <2>10
  <2> QED
    BY <1>1, <2>3, <2>4, <2>5, <2>6, <2>7, <2>8, <2>9, <2>10 DEF Next
<1> QED
  BY <1>1, WallInvariant, PTL DEF Spec

-----------------------------------------------------------------------------
(* Repetition, exhaustion and quarantine *)

\* The observers' state and the account of the run, as records.
RecordsOK ==
  /\ guards = [stuck |-> guards.stuck, rails |-> guards.rails, rep |-> guards.rep, text |-> guards.text,
               conclude |-> guards.conclude, reserve |-> guards.reserve, board |-> guards.board,
               used |-> guards.used, warned |-> guards.warned]
  /\ trail = [network |-> trail.network, same |-> trail.same, turns |-> trail.turns,
              concludeAt |-> trail.concludeAt, reserveAt |-> trail.reserveAt]

\* Where a run stands in its turns.
Active == {"new", "turn", "llm", "tools"}
Counted ==
  /\ run.turn \in Nat
  /\ run.pc \in {"llm", "tools"} => run.turn > 0
  /\ run.pc \in Active => run.stop = "none"

\* The turns that have ended.
Over == IF run.pc \in {"llm", "tools"} THEN run.turn - 1 ELSE run.turn

\* The calls of a turn are finite.
FiniteCalls(calls) == \A i \in DOMAIN calls : IsFiniteSet(calls[i].urls \cup calls[i].named)
Batched ==
  /\ \A b \in conf.batches : FiniteCalls(b)
  /\ FiniteCalls(run.calls)

IsSeq(s) == \E S : s \in Seq(S)

\* RepetitionGuard's streak is the run of equal turns at the end, and the turn
\* that reached the hint threshold got its hint.
StreakOf(g, turns, hint) ==
  /\ g.streak \in Nat /\ g.streak <= Len(turns)
  /\ \A j \in (Len(turns) - g.streak + 1)..Len(turns) : turns[j].calls = g.sig
  /\ g.streak >= hint => turns[Len(turns) - g.streak + hint].hint
Streak ==
  /\ IsSeq(trail.turns)
  /\ StreakOf(guards.rep, trail.turns, HintThreshold(Repeat.threshold))
  /\ HintBeforeStop

\* The turn at which FinalizationReserveObserver speaks.
Trigger ==
  LET reserve == IF ReserveTurns < 1 THEN 1 ELSE ReserveTurns
  IN  IF conf.maxTurns - reserve < 2 THEN 2 ELSE conf.maxTurns - reserve

\* Neither notice is late.
Noticed ==
  /\ trail.concludeAt \in Nat /\ trail.reserveAt \in Nat
  /\ run.pc \in Active /\ Watches("budget") =>
       /\ guards.conclude => trail.concludeAt > 0
       /\ conf.maxTurns > 0 /\ Over * 5 >= conf.maxTurns * 4 => guards.conclude
       /\ Trigger < conf.maxTurns - 1 /\ ~guards.reserve => Over < Trigger
  /\ NoticesInTime

\* A failure of a host that no later success has forgiven.
Failing(network, i, h) ==
  /\ h \in network[i].hard \ network[i].ok
  /\ \A j \in i..Len(network) : h \notin network[j].ok

\* StuckTargetGuard's records agree with the verdicts of the run, and a host is
\* quarantined exactly when it was announced.
Agree(recent, network) ==
  /\ IsSeq(recent) /\ IsSeq(network) /\ Len(recent) = Len(network)
  /\ \A i \in 1..Len(network) : \A h : h \in recent[i].hard <=> Failing(network, i, h)
Latched(g) == \A h : h \in g.blocked <=> <<h, "block">> \in g.fired
Tracked ==
  /\ Len(trail.network) <= Stuck.window
  /\ Agree(guards.stuck.recent, trail.network)
  /\ Latched(guards.stuck)
  /\ ~Watches("stuck") => guards.stuck.blocked = {}

GInv == RecordsOK /\ Counted /\ Batched /\ Streak /\ Noticed /\ Tracked

\* What appending does to a list.
LEMMA AppendIs ==
  ASSUME NEW s, IsSeq(s), NEW e
  PROVE  /\ Len(s) \in Nat /\ DOMAIN s = 1..Len(s)
         /\ IsSeq(Append(s, e)) /\ Len(Append(s, e)) = Len(s) + 1
         /\ \A i \in 1..Len(s) : Append(s, e)[i] = s[i]
         /\ Append(s, e)[Len(s) + 1] = e
<1>1. PICK S : s \in Seq(S)
  BY DEF IsSeq
<1> DEFINE T == S \cup {e}
<1>2. s \in Seq(T) /\ e \in T
  <2>1. S \subseteq T
    OBVIOUS
  <2> QED
    BY <1>1
<1>3. Append(s, e) \in Seq(T)
  BY <1>2
<1>4. IsSeq(Append(s, e))
  BY <1>3, Zenon DEF IsSeq
<1> QED
  BY <1>1, <1>4

\* What dropping the oldest entry leaves.
LEMMA TailIs ==
  ASSUME NEW s, IsSeq(s), Len(s) > 0
  PROVE  /\ IsSeq(Tail(s)) /\ Len(Tail(s)) = Len(s) - 1
         /\ \A i \in 1..(Len(s) - 1) : Tail(s)[i] = s[i + 1]
<1>1. PICK S : s \in Seq(S)
  BY DEF IsSeq
<1>2. Tail(s) \in Seq(S)
  BY <1>1
<1>3. IsSeq(Tail(s))
  BY <1>2, Zenon DEF IsSeq
<1> QED
  BY <1>1, <1>3

\* A window that is kept by position is one whose oldest entry is dropped.
LEMMA KeepLastIs ==
  ASSUME NEW s, IsSeq(s), NEW w \in Nat \ {0}, Len(s) <= w + 1
  PROVE  KeepLast(s, w) = IF Len(s) > w THEN Tail(s) ELSE s
<1>1. PICK S : s \in Seq(S)
  BY DEF IsSeq
<1>2. CASE Len(s) > w
  <2>1. Len(s) = w + 1 /\ Len(s) - w + 1 = 2 /\ Len(s) \in Nat
    BY <1>1, <1>2
  <2>2. SubSeq(s, 2, Len(s)) = Tail(s)
    BY <1>1, <2>1
  <2> QED
    BY <1>2, <2>1, <2>2 DEF KeepLast
<1> QED
  BY <1>2 DEF KeepLast

\* The thresholds of RepetitionGuard leave a turn between hint and stop.
LEMMA Thresholds ==
  ASSUME RulesAssumption
  PROVE  LET hint == HintThreshold(Repeat.threshold)
             stop == StopThreshold(Repeat.threshold, Repeat.stopAfter) IN
         hint \in Nat /\ hint >= 2 /\ stop \in Nat /\ (stop > 0 => stop > hint)
<1>1. Repeat.threshold \in Nat /\ Repeat.stopAfter \in Nat
  BY DEF RulesAssumption
<1> QED
  BY <1>1 DEF HintThreshold, StopThreshold

\* A turn lengthens the streak, begins one or ends it; the loop is stopped only
\* after the hint.
LEMMA StreakGrows ==
  ASSUME RulesAssumption, NEW g, NEW turns, IsSeq(turns), NEW sig,
         StreakOf(g, turns, HintThreshold(Repeat.threshold))
  PROVE  LET o == RepetitionTurnEnd(g, sig, Repeat.threshold, Repeat.stopAfter)
             t == Append(turns, [calls |-> sig, hint |-> o.hint]) IN
         /\ IsSeq(t) /\ StreakOf(o.g, t, HintThreshold(Repeat.threshold))
         /\ o.stop => \E i \in 1..(Len(t) - 1) :
                        /\ \A j \in i..Len(t) : t[j].calls = t[Len(t)].calls
                        /\ t[i].hint
<1> DEFINE hint == HintThreshold(Repeat.threshold)
           stop == StopThreshold(Repeat.threshold, Repeat.stopAfter)
           o == RepetitionTurnEnd(g, sig, Repeat.threshold, Repeat.stopAfter)
           e == [calls |-> sig, hint |-> o.hint]
           t == Append(turns, e)
           n == g.streak
           last == Len(turns)
<1>1. hint \in Nat /\ hint >= 2 /\ stop \in Nat /\ (stop > 0 => stop > hint)
  BY Thresholds
<1>2. /\ last \in Nat /\ IsSeq(t) /\ Len(t) = last + 1
      /\ \A i \in 1..last : t[i] = turns[i]
      /\ t[last + 1].calls = sig /\ t[last + 1].hint = o.hint
  <2> HIDE DEF o
  <2>1. e.calls = sig /\ e.hint = o.hint
    OBVIOUS
  <2> HIDE DEF e
  <2> QED
    BY <2>1, AppendIs
<1>3. /\ n \in Nat /\ n <= last
      /\ \A j \in (last - n + 1)..last : turns[j].calls = g.sig
      /\ n >= hint => turns[last - n + hint].hint
  BY DEF StreakOf
<1>4. /\ sig = NoCalls => o.g.streak = 0 /\ ~o.stop
      /\ sig # NoCalls /\ sig # g.sig => o.g.sig = sig /\ o.g.streak = 1 /\ ~o.stop
      /\ sig # NoCalls /\ sig = g.sig =>
           /\ o.g.sig = sig /\ o.g.streak = n + 1 /\ (o.stop <=> stop > 0 /\ n + 1 >= stop)
           /\ o.hint <=> ~(stop > 0 /\ n + 1 >= stop) /\ n + 1 >= hint /\ (n + 1) % hint = 0
  <2> HIDE DEF hint, stop
  <2> QED
    BY DEF RepetitionTurnEnd, RepetitionInit, hint, stop
<1> HIDE DEF hint, stop, o, t, n, last, e
<1>5. CASE sig = NoCalls
  <2>1. StreakOf(o.g, t, hint)
    BY <1>1, <1>2, <1>4, <1>5 DEF StreakOf
  <2> QED
    BY <1>2, <1>4, <1>5, <2>1 DEF o, t, e, hint
<1>6. CASE sig # NoCalls /\ sig # g.sig
  <2>1. StreakOf(o.g, t, hint)
    BY <1>1, <1>2, <1>4, <1>6 DEF StreakOf
  <2> QED
    BY <1>2, <1>4, <1>6, <2>1 DEF o, t, e, hint
<1>7. CASE sig # NoCalls /\ sig = g.sig
  <2>1. o.g.sig = sig /\ o.g.streak = n + 1
    BY <1>4, <1>7
  <2>2. \A j \in (last - n + 1)..(last + 1) : t[j].calls = sig
    BY <1>2, <1>3, <1>7
  <2>3. n + 1 >= hint => t[last - n + hint].hint
    <3>1. CASE n >= hint
      <4>1. last - n + hint \in 1..last
        BY <1>1, <1>2, <1>3, <3>1
      <4> QED
        BY <1>2, <1>3, <3>1, <4>1
    <3>2. CASE n + 1 = hint
      <4>1. hint % hint = 0
        BY <1>1
      <4>2. o.hint
        BY <1>1, <1>3, <1>4, <1>7, <3>2, <4>1
      <4>3. last - n + hint = last + 1
        BY <1>1, <1>2, <1>3, <3>2
      <4> QED
        BY <1>2, <4>2, <4>3
    <3> QED
      BY <1>1, <1>3, <3>1, <3>2
  <2>4. StreakOf(o.g, t, hint)
    <3>1. Len(t) - (n + 1) + hint = last - n + hint /\ n + 1 \in Nat /\ n + 1 <= Len(t)
      <4>1. Len(t) = last + 1 /\ last \in Nat /\ n \in Nat /\ n <= last /\ hint \in Nat
        BY <1>1, <1>2, <1>3
      <4> QED
        BY ONLY <4>1
    <3>2. \A j \in (Len(t) - (n + 1) + 1)..Len(t) : j \in (last - n + 1)..(last + 1)
      BY <1>2, <1>3
    <3> QED
      BY <2>1, <2>2, <2>3, <3>1, <3>2 DEF StreakOf
  <2>5. o.stop => \E i \in 1..(Len(t) - 1) :
                    (\A j \in i..Len(t) : t[j].calls = t[Len(t)].calls) /\ t[i].hint
    <3> SUFFICES ASSUME o.stop PROVE \E i \in 1..(Len(t) - 1) :
                    (\A j \in i..Len(t) : t[j].calls = t[Len(t)].calls) /\ t[i].hint
      OBVIOUS
    <3>1. n >= hint /\ stop > 0 /\ stop > hint
      BY <1>1, <1>3, <1>4, <1>7
    <3> DEFINE i == last - n + hint
    <3>2. i \in 1..(Len(t) - 1) /\ \A j \in i..Len(t) : j \in (last - n + 1)..(last + 1)
      BY <1>1, <1>2, <1>3, <3>1
    <3>3. t[i].hint
      BY <1>1, <1>3, <2>3, <3>1
    <3> HIDE DEF i
    <3> QED
      BY <1>2, <2>2, <3>2, <3>3
  <2> QED
    BY <1>2, <2>4, <2>5 DEF o, t, e, hint
<1> QED
  BY <1>5, <1>6, <1>7

\* Nothing a refused call returns vouches for its host (_result_verdict).
LEMMA RefusalJudged == \A tool : ResultVerdict(tool, RefusedBody) # "ok"
  BY DEF ResultVerdict, RefusedBody

\* The worst block of a host counts when none of them vouches for it.
LEMMA Merged ==
  ASSUME NEW v
  PROVE  /\ MergeVerdicts(v) = "ok" <=> "ok" \in v
         /\ MergeVerdicts(v) = "hard" <=> "ok" \notin v /\ "hard" \in v
<1>1. CASE "ok" \in v
  BY <1>1 DEF MergeVerdicts
<1>2. CASE "ok" \notin v /\ "hard" \in v
  BY <1>2 DEF MergeVerdicts
<1>3. CASE "ok" \notin v /\ "hard" \notin v /\ "soft" \in v
  BY <1>3 DEF MergeVerdicts
<1>4. CASE "ok" \notin v /\ "hard" \notin v /\ "soft" \notin v
  BY <1>4 DEF MergeVerdicts
<1> QED
  BY <1>1, <1>2, <1>3, <1>4

\* The hosts of a call are some of those it names.
LEMMA HostsFinite ==
  ASSUME Batched, NEW i \in DOMAIN run.calls
  PROVE  IsFiniteSet(Hosts(i))
<1>1. Hosts(i) \subseteq run.calls[i].urls \cup run.calls[i].named
  BY DEF Hosts, HostsFor
<1>2. IsFiniteSet(run.calls[i].urls \cup run.calls[i].named)
  BY DEF Batched, FiniteCalls
<1> QED
  BY <1>1, <1>2, FS_Subset

\* No success is recorded for a quarantined host: its calls were refused.
LEMMA BlockedNotOk ==
  ASSUME NEW refused, NEW results \in Results(refused), Watches("stuck"),
         NEW h \in Judged(results, "ok")
  PROVE  h \notin guards.stuck.blocked
<1> SUFFICES ASSUME h \in guards.stuck.blocked PROVE FALSE
  OBVIOUS
<1> DEFINE V(i) == HostVerdicts(run.calls[i].tool, Hosts(i), results[i])
<1>1. PICK i \in DOMAIN run.calls : h \in DOMAIN V(i) /\ V(i)[h] = "ok"
  BY DEF Judged
<1> DEFINE tool == run.calls[i].tool
           hosts == Hosts(i)
           res == results[i]
<1>2. DOMAIN V(i) \subseteq hosts
  <2> HIDE DEF tool, hosts, res
  <2>1. V(i) = HostVerdicts(tool, hosts, res)
    BY DEF tool, hosts, res
  <2>2. DOMAIN HostVerdicts(tool, hosts, res) \subseteq hosts
    BY DEF HostVerdicts
  <2> QED
    BY <2>1, <2>2
<1>3. SkippedAt(i)
  BY <1>1, <1>2 DEF SkippedAt, Skipped
<1>4. res = [body |-> RefusedBody, blocks |-> {}]
  BY <1>3 DEF Results
<1>5. res.body = RefusedBody /\ res.blocks = {}
  BY <1>4
<1> HIDE DEF tool, hosts, res
<1>6. h \in DOMAIN HostVerdicts(tool, hosts, res) /\ HostVerdicts(tool, hosts, res)[h] = "ok"
  BY <1>1 DEF tool, hosts, res
<1>7. ResultVerdict(tool, res.body) # "ok"
  BY <1>5, RefusalJudged
<1> QED
  BY <1>5, <1>6, <1>7 DEF HostVerdicts

\* A host with a hard verdict and no success is one the results accuse by name.
LEMMA OwnIsHard ==
  ASSUME Batched, NEW results
  PROVE  OwnFailures(results) \ Judged(results, "ok") = Judged(results, "hard") \ Judged(results, "ok")
<1> DEFINE all == UNION {Hosts(i) : i \in DOMAIN run.calls}
           V(i) == HostVerdicts(run.calls[i].tool, Hosts(i), results[i])
           Has(i, h, x) == h \in DOMAIN V(i) /\ V(i)[h] = x
           Own(i, h) == \/ Hosts(i) = {h} /\ ResultVerdict(run.calls[i].tool, results[i].body) = "hard"
                        \/ /\ Cardinality(Hosts(i)) > 1 /\ h \in Hosts(i) /\ run.calls[i].tool = "fetch"
                           /\ \E b \in results[i].blocks : b.host = h /\ ResultVerdict(run.calls[i].tool, b.body) = "hard"
<1>1. /\ Judged(results, "hard") = {h \in all : \E i \in DOMAIN run.calls : Has(i, h, "hard")}
      /\ Judged(results, "ok") = {h \in all : \E i \in DOMAIN run.calls : Has(i, h, "ok")}
  BY DEF Judged
<1>2. OwnFailures(results) = {h \in all : \E i \in DOMAIN run.calls : Own(i, h)}
  BY DEF OwnFailures
<1>3. ASSUME NEW i \in DOMAIN run.calls, NEW h
      PROVE  /\ Has(i, h, "hard") => Own(i, h)
             /\ Own(i, h) => Has(i, h, "hard") \/ Has(i, h, "ok")
  <2> DEFINE tool == run.calls[i].tool
             hosts == Hosts(i)
             res == results[i]
             verdict == ResultVerdict(tool, res.body)
             blocks == {b \in res.blocks : b.host = h}
             seen == {ResultVerdict(tool, b.body) : b \in blocks}
             v == HostVerdicts(tool, hosts, res)
  <2>1. IsFiniteSet(hosts)
    BY HostsFinite
  <2>2. \A x : Has(i, h, x) <=> h \in DOMAIN v /\ v[h] = x
    OBVIOUS
  <2>3. Own(i, h) <=> \/ hosts = {h} /\ verdict = "hard"
                      \/ Cardinality(hosts) > 1 /\ h \in hosts /\ tool = "fetch" /\ "hard" \in seen
    <3>1. "hard" \in seen <=> \E b \in res.blocks : b.host = h /\ ResultVerdict(tool, b.body) = "hard"
      OBVIOUS
    <3> HIDE DEF seen
    <3> QED
      BY <3>1
  <2> HIDE DEF tool, hosts, res, V, Has, Own
  <2>4. Cardinality(hosts) \in Nat
    BY <2>1, FS_CardinalityType
  <2>5. CASE Cardinality(hosts) <= 1
    <3>1. v = [x \in hosts |-> verdict]
      BY <2>5 DEF HostVerdicts
    <3>2. h \in hosts => hosts = {h}
      <4> SUFFICES ASSUME h \in hosts, NEW y \in hosts, y # h PROVE FALSE
        OBVIOUS
      <4>1. IsFiniteSet({h}) /\ Cardinality({h}) = 1 /\ IsFiniteSet({h} \cup {y}) /\ Cardinality({h} \cup {y}) = 2
        <5>1. IsFiniteSet({h}) /\ Cardinality({h}) = 1
          BY FS_Singleton
        <5>2. y \notin {h}
          OBVIOUS
        <5> QED
          BY <5>1, <5>2, FS_AddElement
      <4>2. {h} \cup {y} \subseteq hosts
        OBVIOUS
      <4>3. Cardinality({h} \cup {y}) <= Cardinality(hosts)
        BY <2>1, <4>2, FS_Subset
      <4> QED
        BY <2>4, <2>5, <4>1, <4>3
    <3> HIDE DEF v, verdict
    <3> QED
      BY <2>2, <2>3, <2>4, <2>5, <3>1, <3>2
  <2>6. CASE Cardinality(hosts) > 1 /\ tool = "fetch"
    <3>1. h \in DOMAIN v <=> h \in hosts /\ blocks # {}
      BY <2>4, <2>6 DEF HostVerdicts
    <3>2. h \in DOMAIN v => v[h] = MergeVerdicts(seen)
      BY <2>4, <2>6 DEF HostVerdicts
    <3>3. hosts # {h}
      <4>1. Cardinality({h}) = 1
        BY FS_Singleton
      <4> QED
        BY <2>6, <4>1
    <3>4. seen # {} <=> blocks # {}
      OBVIOUS
    <3> HIDE DEF v, verdict, seen, blocks
    <3> QED
      BY <2>2, <2>3, <2>6, <3>1, <3>2, <3>3, <3>4, Merged
  <2>7. CASE Cardinality(hosts) > 1 /\ tool # "fetch"
    <3>1. v = [x \in hosts |-> IF verdict = "hard" THEN "soft" ELSE verdict]
      BY <2>4, <2>7 DEF HostVerdicts
    <3>2. hosts # {h}
      <4>1. Cardinality({h}) = 1
        BY FS_Singleton
      <4> QED
        BY <2>7, <4>1
    <3> HIDE DEF v, verdict
    <3> QED
      BY <2>2, <2>3, <2>7, <3>1, <3>2
  <2> QED
    BY <2>4, <2>5, <2>6, <2>7
<1> HIDE DEF all, Has, Own
<1> QED
  BY <1>1, <1>2, <1>3

\* The guard's window after a turn, before anything fires.
Aged(g, t, hard, soft, ok) ==
  LET grown == Append(ResetHosts(g, ok).recent, [hard |-> hard \ ok, soft |-> soft \ (ok \cup hard)])
  IN  IF Len(grown) > t.window THEN Tail(grown) ELSE grown

\* The interventions of StuckTargetGuard: a quarantine is earned and stands, and
\* a host over the threshold is quarantined unless another one is.
LEMMA StuckServes ==
  ASSUME NEW g, NEW t, NEW hard, NEW soft, NEW ok, ok \cap g.blocked = {}, Latched(g),
         t.block \in Nat \ {0}, NEW target \in StuckTurnEnd(g, t, hard, soft, ok)
  PROVE  LET recent == Aged(g, t, hard, soft, ok) IN
         /\ target.g.recent = recent /\ Latched(target.g)
         /\ g.blocked \subseteq target.g.blocked
         /\ \A h \in target.g.blocked \ g.blocked : HardCount(recent, h) >= t.block
         /\ \/ \A h : HardCount(recent, h) >= t.block => h \in target.g.blocked
            \/ target.g.blocked # g.blocked
<1> DEFINE reset == ResetHosts(g, ok)
           recent == Aged(g, t, hard, soft, ok)
           hosts == UNION {recent[i].hard \cup recent[i].soft : i \in DOMAIN recent}
           threshold(kind) == IF kind = "block" THEN t.block ELSE t.hint
           fired == {f \in reset.fired : \/ f[1] \in reset.blocked
                                         \/ CountFor(f[2], recent, f[1]) >= threshold(f[2])}
           due(kind) == {h \in hosts : /\ CountFor(kind, recent, h) >= threshold(kind)
                                       /\ <<h, kind>> \notin fired}
           first(kind) == {h \in due(kind) : \A o \in due(kind) :
                             CountFor(kind, recent, h) >= CountFor(kind, recent, o)}
           kinds == {k \in {"block", "hint"} : due(k) # {}}
           kind == IF "block" \in kinds THEN "block" ELSE "hint"
           g1 == [recent |-> recent, fired |-> fired, blocked |-> reset.blocked]
<1>1. target \in IF kinds = {} THEN {[g |-> g1, inject |-> 0]}
                 ELSE {[g |-> [g1 EXCEPT !.fired = @ \cup {<<h, kind>>},
                                         !.blocked = IF kind = "block" THEN @ \cup {h} ELSE @],
                        inject |-> 1] : h \in first(kind)}
  BY DEF StuckTurnEnd, Aged
<1>2. reset.blocked = g.blocked /\ reset.fired = {f \in g.fired : f[1] \notin ok}
  BY DEF ResetHosts
<1>3. \A h : h \in g.blocked <=> <<h, "block">> \in fired
  BY <1>2 DEF Latched
<1>4. \A h : h \in due("block") <=> h \in hosts /\ HardCount(recent, h) >= t.block /\ h \notin g.blocked
  BY <1>3 DEF CountFor
<1>5. ASSUME NEW h, HardCount(recent, h) >= t.block
      PROVE  h \in hosts
  <2> SUFFICES ASSUME h \notin hosts PROVE FALSE
    OBVIOUS
  <2>1. {i \in DOMAIN recent : h \in recent[i].hard} = {}
    <3> HIDE DEF recent
    <3> QED
      OBVIOUS
  <2>2. HardCount(recent, h) = 0
    BY <2>1, FS_EmptySet DEF HardCount
  <2> QED
    BY <1>5, <2>2
<1>6. "block" \in kinds <=> due("block") # {}
  OBVIOUS
<1>7. \A h \in first("block") : h \in due("block")
  OBVIOUS
<1> DEFINE First(k) == first(k)
           b0 == reset.blocked
<1>8. \/ target.g = g1 /\ due("block") = {}
      \/ \E h : target.g = [recent |-> recent, fired |-> fired \cup {<<h, "hint">>}, blocked |-> b0] /\ due("block") = {}
      \/ \E h \in due("block") : target.g = [recent |-> recent, fired |-> fired \cup {<<h, "block">>}, blocked |-> b0 \cup {h}]
  <2> HIDE DEF recent, fired, b0, due
  <2>1. CASE kinds = {}
    BY <1>1, <1>6, <2>1
  <2>2. CASE kinds # {}
    <3>1. PICK h \in first(kind) :
            target = [g |-> [g1 EXCEPT !.fired = @ \cup {<<h, kind>>},
                                       !.blocked = IF kind = "block" THEN @ \cup {h} ELSE @],
                      inject |-> 1]
      BY <1>1, <2>2
    <3>2. target.g = [recent |-> recent, fired |-> fired \cup {<<h, kind>>},
                      blocked |-> IF kind = "block" THEN b0 \cup {h} ELSE b0]
      BY <3>1 DEF b0
    <3>3. CASE kind = "block"
      <4>1. h \in due("block")
        BY <3>1, <3>3
      <4> QED
        BY <3>2, <3>3, <4>1
    <3>4. CASE kind # "block"
      <4>1. kind = "hint" /\ due("block") = {}
        BY <1>6, <3>4
      <4> HIDE DEF kind
      <4> QED
        BY <3>2, <4>1
    <3> QED
      BY <3>3, <3>4
  <2> QED
    BY <2>1, <2>2
<1> HIDE DEF reset, recent, hosts, threshold, fired, due, kinds, kind, first
<1>9. CASE target.g = g1 /\ due("block") = {}
  BY <1>2, <1>3, <1>4, <1>5, <1>9 DEF Latched, recent
<1>10. CASE \E h : target.g = [recent |-> recent, fired |-> fired \cup {<<h, "hint">>}, blocked |-> b0] /\ due("block") = {}
  BY <1>2, <1>3, <1>4, <1>5, <1>10 DEF Latched, recent
<1>11. CASE \E h \in due("block") : target.g = [recent |-> recent, fired |-> fired \cup {<<h, "block">>}, blocked |-> b0 \cup {h}]
  BY <1>2, <1>3, <1>4, <1>11 DEF Latched, recent
<1> QED
  BY <1>8, <1>9, <1>10, <1>11

\* A turn's verdicts enter the guard's window and the account of the run alike.
LEMMA AgreeGrows ==
  ASSUME NEW recent, NEW network, Agree(recent, network), NEW ok, NEW own, NEW hard, own \ ok = hard \ ok,
         NEW soft, NEW kept, IsSeq(kept), Len(kept) = Len(recent),
         \A i \in 1..Len(recent) : kept[i].hard = recent[i].hard \ ok
  PROVE  Agree(Append(kept, [hard |-> hard \ ok, soft |-> soft]),
               Append(network, [hard |-> own, ok |-> ok]))
<1> DEFINE n == Len(network)
           d == [hard |-> hard \ ok, soft |-> soft]
           e == [hard |-> own, ok |-> ok]
           r == Append(kept, d)
           w == Append(network, e)
<1>1. /\ IsSeq(recent) /\ IsSeq(network) /\ Len(recent) = n
      /\ \A i \in 1..n : \A h : h \in recent[i].hard <=> Failing(network, i, h)
  BY DEF Agree
<1>2. d.hard = hard \ ok /\ e.hard = own /\ e.ok = ok
  OBVIOUS
<1> HIDE DEF d, e
<1>3. n \in Nat /\ Len(kept) = n
  BY <1>1, AppendIs
<1>4. IsSeq(r) /\ Len(r) = n + 1 /\ (\A i \in 1..n : r[i] = kept[i]) /\ r[n + 1] = d
  BY <1>3, AppendIs
<1>5. IsSeq(w) /\ Len(w) = n + 1 /\ (\A i \in 1..n : w[i] = network[i]) /\ w[n + 1] = e
  BY <1>1, AppendIs
<1> HIDE DEF n, r, w
<1>6. /\ \A i \in 1..(n + 1) : i \in 1..n \/ i = n + 1
      /\ \A i \in 1..n : \A j : j \in i..(n + 1) <=> j \in i..n \/ j = n + 1
      /\ \A i \in 1..n : \A j \in i..n : j \in 1..n
      /\ \A j : j \in (n + 1)..(n + 1) <=> j = n + 1
  BY <1>3
<1>7. ASSUME NEW i \in 1..(n + 1), NEW h
      PROVE  h \in r[i].hard <=> Failing(w, i, h)
  <2>1. CASE i \in 1..n
    <3>1. h \in r[i].hard <=> Failing(network, i, h) /\ h \notin ok
      BY <1>1, <1>4, <2>1
    <3>2. Failing(network, i, h) <=> h \in network[i].hard \ network[i].ok /\ \A j \in i..n : h \notin network[j].ok
      BY DEF Failing, n
    <3>3. Failing(w, i, h) <=> h \in w[i].hard \ w[i].ok /\ \A j \in i..(n + 1) : h \notin w[j].ok
      BY <1>5, Zenon DEF Failing
    <3> QED
      BY <1>2, <1>5, <1>6, <2>1, <3>1, <3>2, <3>3
  <2>2. CASE i = n + 1
    <3>1. Failing(w, i, h) <=> h \in w[i].hard \ w[i].ok /\ \A j \in (n + 1)..(n + 1) : h \notin w[j].ok
      BY <1>5, <2>2, Zenon DEF Failing
    <3> QED
      BY <1>2, <1>4, <1>5, <1>6, <2>2, <3>1
  <2> QED
    BY <1>6, <2>1, <2>2
<1> QED
  BY <1>4, <1>5, <1>7 DEF Agree, r, w, d, e

\* Both forget their oldest turn alike.
LEMMA AgreeShifts ==
  ASSUME NEW r, NEW w, Agree(r, w), Len(w) > 0
  PROVE  Agree(Tail(r), Tail(w))
<1> DEFINE n == Len(w) - 1
           a == Tail(r)
           b == Tail(w)
<1>1. IsSeq(r) /\ IsSeq(w) /\ Len(r) = Len(w) /\ Len(w) \in Nat
  BY AppendIs DEF Agree
<1>2. IsSeq(a) /\ Len(a) = n /\ \A i \in 1..n : a[i] = r[i + 1]
  BY <1>1, TailIs
<1>3. IsSeq(b) /\ Len(b) = n /\ \A i \in 1..n : b[i] = w[i + 1]
  BY <1>1, TailIs
<1>4. n \in Nat /\ Len(w) = n + 1
  BY <1>1
<1>5. \A i \in 1..(n + 1) : \A h : h \in r[i].hard <=> Failing(w, i, h)
  BY <1>4 DEF Agree
<1> HIDE DEF n, a, b
<1>6. /\ \A i \in 1..n : i + 1 \in 1..(n + 1)
      /\ \A i \in 1..n : \A j \in i..n : j \in 1..n /\ j + 1 \in (i + 1)..(n + 1)
      /\ \A i \in 1..n : \A j \in (i + 1)..(n + 1) : j - 1 \in i..n /\ (j - 1) + 1 = j /\ j - 1 \in 1..n
  BY <1>4
<1>7. ASSUME NEW i \in 1..n, NEW h
      PROVE  Failing(b, i, h) <=> Failing(w, i + 1, h)
  <2>1. Failing(b, i, h) <=> h \in b[i].hard \ b[i].ok /\ \A j \in i..n : h \notin b[j].ok
    BY <1>3, Zenon DEF Failing
  <2>2. Failing(w, i + 1, h) <=> h \in w[i + 1].hard \ w[i + 1].ok /\ \A j \in (i + 1)..(n + 1) : h \notin w[j].ok
    BY <1>4, Zenon DEF Failing
  <2>3. (\A j \in i..n : h \notin b[j].ok) <=> (\A j \in (i + 1)..(n + 1) : h \notin w[j].ok)
    <3>1. ASSUME \A j \in i..n : h \notin b[j].ok, NEW j \in (i + 1)..(n + 1)
          PROVE  h \notin w[j].ok
      <4>1. j - 1 \in i..n /\ j - 1 \in 1..n /\ (j - 1) + 1 = j
        BY <1>6
      <4>2. b[j - 1] = w[j]
        BY <1>3, <4>1
      <4>3. h \notin b[j - 1].ok
        BY <3>1, <4>1
      <4> QED
        BY <4>2, <4>3
    <3>2. ASSUME \A j \in (i + 1)..(n + 1) : h \notin w[j].ok, NEW j \in i..n
          PROVE  h \notin b[j].ok
      <4>1. j \in 1..n /\ j + 1 \in (i + 1)..(n + 1)
        BY <1>6
      <4>2. b[j] = w[j + 1]
        BY <1>3, <4>1
      <4>3. h \notin w[j + 1].ok
        BY <3>2, <4>1
      <4> QED
        BY <4>2, <4>3
    <3> QED
      BY <3>1, <3>2
  <2>4. b[i] = w[i + 1]
    BY <1>3
  <2> QED
    BY <2>1, <2>2, <2>3, <2>4
<1>8. ASSUME NEW i \in 1..n, NEW h
      PROVE  h \in a[i].hard <=> Failing(b, i, h)
  <2>1. a[i] = r[i + 1] /\ i + 1 \in 1..(n + 1)
    BY <1>2, <1>6
  <2> QED
    BY <1>5, <1>7, <2>1
<1> QED
  BY <1>2, <1>3, <1>8 DEF Agree, a, b

\* Where they agree, they count alike.
LEMMA CountsAlike ==
  ASSUME NEW r, NEW w, Agree(r, w), NEW h
  PROVE  HardCount(r, h) = HardFailures(w, h)
<1>1. DOMAIN r = 1..Len(w) /\ DOMAIN w = 1..Len(w)
  BY AppendIs DEF Agree
<1>2. {i \in DOMAIN r : h \in r[i].hard} = {i \in DOMAIN w : Failing(w, i, h)}
  BY <1>1 DEF Agree
<1>3. HardFailures(w, h) = Cardinality({i \in DOMAIN w : Failing(w, i, h)})
  BY DEF HardFailures, Failing
<1> QED
  BY <1>2, <1>3 DEF HardCount

\* The guard's window and the account of the run after a network turn.
LEMMA AgreeAges ==
  ASSUME RulesAssumption, NEW g, NEW network, Agree(g.recent, network), Len(network) <= Stuck.window,
         NEW ok, NEW own, NEW hard, own \ ok = hard \ ok, NEW soft
  PROVE  LET w == KeepLast(Append(network, [hard |-> own, ok |-> ok]), Stuck.window) IN
         Agree(Aged(g, Stuck, hard, soft, ok), w) /\ Len(w) <= Stuck.window
<1> DEFINE n == Len(network)
           W == Stuck.window
           kept == ResetHosts(g, ok).recent
           d == [hard |-> hard \ ok, soft |-> soft \ (ok \cup hard)]
           e == [hard |-> own, ok |-> ok]
           r == Append(kept, d)
           w == Append(network, e)
<1>1. n \in Nat /\ IsSeq(g.recent) /\ IsSeq(network) /\ Len(g.recent) = n /\ DOMAIN g.recent = 1..n
  <2>1. IsSeq(g.recent) /\ IsSeq(network) /\ Len(g.recent) = Len(network)
    BY DEF Agree
  <2> QED
    BY <2>1, AppendIs
<1>2. W \in Nat \ {0}
  BY DEF RulesAssumption
<1>3. kept = [i \in 1..n |-> [hard |-> g.recent[i].hard \ ok, soft |-> g.recent[i].soft \ ok]]
  BY <1>1 DEF ResetHosts
<1>4. IsSeq(kept) /\ Len(kept) = n /\ \A i \in 1..n : kept[i].hard = g.recent[i].hard \ ok
  <2> DEFINE S == {kept[i] : i \in 1..n}
  <2>1. kept \in Seq(S)
    <3>1. kept \in [1..n -> S]
      <4> HIDE DEF kept
      <4>1. kept = [i \in 1..n |-> kept[i]]
        BY <1>3
      <4> QED
        BY <4>1
    <3> HIDE DEF S, kept
    <3> QED
      BY <1>1, <3>1
  <2>2. IsSeq(kept)
    BY <2>1, Zenon DEF IsSeq
  <2>3. Len(kept) = n
    BY <1>1, <1>3
  <2> HIDE DEF kept
  <2> QED
    BY <1>3, <2>2, <2>3
<1> HIDE DEF kept
<1>5. Agree(r, w)
  BY <1>1, <1>4, AgreeGrows
<1>6. Len(w) = n + 1 /\ IsSeq(w) /\ Len(r) = n + 1
  BY <1>1, <1>4, AppendIs
<1>7. Aged(g, Stuck, hard, soft, ok) = IF Len(r) > W THEN Tail(r) ELSE r
  BY DEF Aged, kept
<1>11. n <= W
  OBVIOUS
<1> HIDE DEF r, w, n, W
<1>12. Len(w) <= W + 1
  BY <1>1, <1>2, <1>6, <1>11
<1>8. KeepLast(w, W) = IF Len(w) > W THEN Tail(w) ELSE w
  BY <1>2, <1>6, <1>12, KeepLastIs
<1>9. CASE n + 1 > W
  <2>1. Agree(Tail(r), Tail(w)) /\ Len(Tail(w)) = n
    <3>1. Len(w) > 0
      BY <1>1, <1>6
    <3>2. Len(Tail(w)) = Len(w) - 1
      BY <1>6, <3>1, TailIs
    <3> QED
      BY <1>1, <1>5, <1>6, <3>1, <3>2, AgreeShifts
  <2> QED
    BY <1>6, <1>7, <1>8, <1>9, <1>11, <2>1 DEF w, e, W
<1>10. CASE ~(n + 1 > W)
  <2>1. Len(w) <= W
    BY <1>1, <1>2, <1>6, <1>10
  <2> QED
    BY <1>5, <1>6, <1>7, <1>8, <1>10, <2>1 DEF w, e, W
<1> QED
  BY <1>9, <1>10

\* Whether StuckTargetGuard takes the turn for a network turn.
Networked == \E i \in DOMAIN run.calls : CountsAsNetwork(run.calls[i], Hosts(i))
Concludes == Watches("budget") /\ ConcludeFires(guards.conclude, run.turn, conf.maxTurns, 4, 5)
Reserves == Watches("budget") /\ ReserveFires(guards.reserve, run.turn, conf.maxTurns, ReserveTurns)

\* What the end of a turn does to the observers and to the account of the run.
LEMMA TurnEndsIs ==
  ASSUME TurnEnds
  PROVE  /\ guards'.rep = Repetition.g
         /\ guards'.conclude = (guards.conclude \/ Concludes) /\ guards'.reserve = (guards.reserve \/ Reserves)
         /\ trail'.turns = IF Watches("repeat")
                           THEN Append(trail.turns, [calls |-> run.calls, hint |-> Repetition.hint])
                           ELSE trail.turns
         /\ trail'.concludeAt = IF Concludes THEN run.turn ELSE trail.concludeAt
         /\ trail'.reserveAt = IF Reserves THEN run.turn ELSE trail.reserveAt
         /\ RecordsOK'
         /\ \E results \in Results(Admission.refused) :
            \E target \in IF Watches("stuck") /\ Networked
                          THEN StuckTurnEnd(guards.stuck, Stuck, Judged(results, "hard"),
                                            Judged(results, "soft"), Judged(results, "ok"))
                          ELSE {[g |-> guards.stuck, inject |-> 0]} :
              /\ guards'.stuck = target.g
              /\ trail'.network =
                   IF Watches("stuck") /\ Networked
                   THEN KeepLast(Append(trail.network, [hard |-> OwnFailures(results), ok |-> Judged(results, "ok")]),
                                 Stuck.window)
                   ELSE trail.network
<1> DEFINE
     G(admitted, target, concludes, reserves, boards) ==
        guards' = [stuck |-> target.g, rails |-> admitted.r, rep |-> Repetition.g,
                       text |-> Similarity.g,
                       conclude |-> guards.conclude \/ concludes, reserve |-> guards.reserve \/ reserves,
                       board |-> IF boards THEN run.turn ELSE guards.board, used |-> guards.used,
                       warned |-> guards.warned \/ Spending.warn]
     R(admitted, results, turn, network, concludes, reserves) ==
         trail' =
              [network |-> IF Watches("stuck") /\ network
                           THEN KeepLast(Append(trail.network, [hard |-> OwnFailures(results), ok |-> turn.ok]),
                                         Stuck.window) ELSE trail.network,
               same |-> IF Watches("rails") THEN SameCalls(admitted.refused) ELSE trail.same,
               turns |-> IF Watches("repeat")
                         THEN Append(trail.turns, [calls |-> run.calls, hint |-> Repetition.hint])
                         ELSE trail.turns,
               concludeAt |-> IF concludes THEN run.turn ELSE trail.concludeAt,
               reserveAt |-> IF reserves THEN run.turn ELSE trail.reserveAt]
     B == Watches("budget") /\ BoardFires(guards.board, run.turn, Cooldown, 1)
     T(results) == [hard |-> Judged(results, "hard"), soft |-> Judged(results, "soft"),
                    ok |-> Judged(results, "ok")]
     S(turn, network) == IF Watches("stuck") /\ network
                         THEN StuckTurnEnd(guards.stuck, Stuck, turn.hard, turn.soft, turn.ok)
                         ELSE {[g |-> guards.stuck, inject |-> 0]}
<1>1. \E admitted \in {Admission} : \E results \in Results(admitted.refused) :
      \E turn \in {T(results)} : \E network \in {Networked} : \E target \in S(turn, network) :
        /\ G(admitted, target, Concludes, Reserves, B)
        /\ R(admitted, results, turn, network, Concludes, Reserves)
  BY Zenon DEF TurnEnds, Networked, Concludes, Reserves
<1>2. \A r : T(r).hard = Judged(r, "hard") /\ T(r).soft = Judged(r, "soft") /\ T(r).ok = Judged(r, "ok")
  OBVIOUS
<1> HIDE DEF G, R, B, T, S
<1>3. PICK results \in Results(Admission.refused) : \E target \in S(T(results), Networked) :
        /\ G(Admission, target, Concludes, Reserves, B)
        /\ R(Admission, results, T(results), Networked, Concludes, Reserves)
  BY <1>1, Zenon
<1>4. PICK target \in S(T(results), Networked) :
        /\ G(Admission, target, Concludes, Reserves, B)
        /\ R(Admission, results, T(results), Networked, Concludes, Reserves)
  BY <1>3, Zenon
<1>5. /\ guards'.stuck = target.g /\ guards'.rep = Repetition.g
      /\ guards'.conclude = (guards.conclude \/ Concludes) /\ guards'.reserve = (guards.reserve \/ Reserves)
      /\ guards' = [stuck |-> guards'.stuck, rails |-> guards'.rails, rep |-> guards'.rep, text |-> guards'.text,
                    conclude |-> guards'.conclude, reserve |-> guards'.reserve, board |-> guards'.board,
                    used |-> guards'.used, warned |-> guards'.warned]
  BY <1>4 DEF G
<1>6. /\ trail'.network = IF Watches("stuck") /\ Networked
                          THEN KeepLast(Append(trail.network, [hard |-> OwnFailures(results), ok |-> T(results).ok]),
                                         Stuck.window) ELSE trail.network
      /\ trail'.turns = IF Watches("repeat")
                           THEN Append(trail.turns, [calls |-> run.calls, hint |-> Repetition.hint])
                           ELSE trail.turns
      /\ trail'.concludeAt = IF Concludes THEN run.turn ELSE trail.concludeAt
      /\ trail'.reserveAt = IF Reserves THEN run.turn ELSE trail.reserveAt
      /\ trail' = [network |-> trail'.network, same |-> trail'.same, turns |-> trail'.turns,
                   concludeAt |-> trail'.concludeAt, reserveAt |-> trail'.reserveAt]
  BY <1>4 DEF R
<1>7. RecordsOK'
  BY <1>5, <1>6, Zenon DEF RecordsOK
<1>8. target \in IF Watches("stuck") /\ Networked
                 THEN StuckTurnEnd(guards.stuck, Stuck, Judged(results, "hard"), Judged(results, "soft"), Judged(results, "ok"))
                 ELSE {[g |-> guards.stuck, inject |-> 0]}
  BY <1>2, <1>4 DEF S
<1> HIDE <1>4, <1>3, <1>1
<1> QED
  BY <1>2, <1>5, <1>6, <1>7, <1>8

\* The end of a turn as StuckTargetGuard sees it.
LEMMA TurnTracked ==
  ASSUME RulesAssumption, Batched, Tracked, TurnEnds
  PROVE  /\ Len(trail'.network) <= Stuck.window
         /\ Agree(guards'.stuck.recent, trail'.network)
         /\ Latched(guards'.stuck)
         /\ ~Watches("stuck") => guards'.stuck.blocked = {}
         /\ guards.stuck.blocked \subseteq guards'.stuck.blocked
         /\ \A h \in guards'.stuck.blocked \ guards.stuck.blocked : HardFailures(trail'.network, h) >= Stuck.block
         /\ trail'.network # trail.network =>
              \/ \A h : HardFailures(trail'.network, h) >= Stuck.block => h \in guards'.stuck.blocked
              \/ guards'.stuck.blocked # guards.stuck.blocked
<1> DEFINE g == guards.stuck
           network == Networked
<1>1. PICK results \in Results(Admission.refused) :
        \E target \in IF Watches("stuck") /\ network
                      THEN StuckTurnEnd(g, Stuck, Judged(results, "hard"), Judged(results, "soft"), Judged(results, "ok"))
                      ELSE {[g |-> g, inject |-> 0]} :
          /\ guards'.stuck = target.g
          /\ trail'.network =
               IF Watches("stuck") /\ network
               THEN KeepLast(Append(trail.network, [hard |-> OwnFailures(results), ok |-> Judged(results, "ok")]),
                             Stuck.window)
               ELSE trail.network
  BY TurnEndsIs, Zenon
<1> DEFINE hard == Judged(results, "hard")
           soft == Judged(results, "soft")
           ok == Judged(results, "ok")
           own == OwnFailures(results)
           w == KeepLast(Append(trail.network, [hard |-> own, ok |-> ok]), Stuck.window)
<1>2. /\ Len(trail.network) <= Stuck.window /\ Agree(g.recent, trail.network) /\ Latched(g)
      /\ ~Watches("stuck") => g.blocked = {}
  BY DEF Tracked
<1>3. CASE Watches("stuck") /\ network
  <2>1. ok \cap g.blocked = {}
    BY <1>3, BlockedNotOk
  <2>2. own \ ok = hard \ ok
    BY OwnIsHard
  <2>3. PICK target \in StuckTurnEnd(g, Stuck, hard, soft, ok) : guards'.stuck = target.g /\ trail'.network = w
    BY <1>1, <1>3
  <2>4. Stuck.block \in Nat \ {0}
    BY DEF RulesAssumption
  <2> HIDE DEF hard, soft, ok, own, g
  <2> DEFINE recent == Aged(g, Stuck, hard, soft, ok)
  <2>5. /\ target.g.recent = recent /\ Latched(target.g)
        /\ g.blocked \subseteq target.g.blocked
        /\ \A h \in target.g.blocked \ g.blocked : HardCount(recent, h) >= Stuck.block
        /\ \/ \A h : HardCount(recent, h) >= Stuck.block => h \in target.g.blocked
           \/ target.g.blocked # g.blocked
    BY <1>2, <2>1, <2>3, <2>4, StuckServes
  <2>6. Agree(recent, w) /\ Len(w) <= Stuck.window
    BY <1>2, <2>2, AgreeAges
  <2> HIDE DEF recent, w
  <2>7. \A h : HardCount(recent, h) = HardFailures(w, h)
    BY <2>6, CountsAlike
  <2> QED
    BY <1>3, <2>3, <2>5, <2>6, <2>7 DEF g
<1>4. CASE ~(Watches("stuck") /\ network)
  <2>1. guards'.stuck = [g |-> g, inject |-> 0].g /\ trail'.network = trail.network
    BY <1>1, <1>4
  <2>2. guards'.stuck = g
    BY <2>1
  <2> QED
    BY <1>2, <2>1, <2>2
<1> QED
  BY <1>3, <1>4

\* What the end of a loop leaves of the run.
LEMMA StopParts ==
  ASSUME NEW r, RunOK(r), NEW why
  PROVE  LET s == Stopped(r, why) IN
         /\ s.pc \in {"final", "done"} /\ s.stop = why /\ s.turn = r.turn
         /\ s.calls = r.calls /\ s.reached = r.reached
<1> DEFINE e == now + PhaseBudget
<1>1. Stopped(r, why) = IF conf.kind = "root" /\ Watches("wall")
                        THEN [r EXCEPT !.pc = "final", !.stop = why, !.until = e]
                        ELSE [r EXCEPT !.pc = "done", !.stop = why]
  BY DEF Stopped
<1> HIDE DEF e
<1>2. r = [pc |-> r.pc, turn |-> r.turn, until |-> r.until, stop |-> r.stop, slack |-> r.slack,
          hung |-> r.hung, wall |-> r.wall, reserve |-> r.reserve, calls |-> r.calls,
          text |-> r.text, reached |-> r.reached]
  BY DEF RunOK
<1>3. CASE conf.kind = "root" /\ Watches("wall")
  BY <1>1, <1>2, <1>3
<1>4. CASE ~(conf.kind = "root" /\ Watches("wall"))
  BY <1>1, <1>2, <1>4
<1> QED
  BY <1>3, <1>4

\* The observers' reason to stop after the turn.
Verdict == StopReason(Repetition.stop, Similarity.stop, Spending.stop, Clock.stop)

\* What the end of a turn leaves of the run.
LEMMA TurnParts ==
  ASSUME IInv, TurnEnds
  PROVE  /\ run.pc = "tools" /\ conf' = conf
         /\ run'.turn = run.turn /\ run'.calls = NoCalls /\ run'.reached = Reached(Admission.refused)
         /\ Verdict = "none" => run'.pc = "turn" /\ run'.stop = run.stop
         /\ Verdict # "none" => run'.pc \in {"final", "done"} /\ run'.stop = Verdict
<1> DEFINE why == Verdict
           reached == Reached(Admission.refused)
           slack == IF why = "wall_deadline" THEN now - Max({view.start, accepted}) ELSE run.slack
           after == [pc |-> "turn", turn |-> run.turn, until |-> run.until, stop |-> run.stop,
                     slack |-> slack, hung |-> run.hung, wall |-> run.wall,
                     reserve |-> run.reserve, calls |-> NoCalls, text |-> {},
                     reached |-> reached]
<1>1. run.pc = "tools" /\ conf' = conf /\ run' = AfterTurn(why, reached)
  BY DEF TurnEnds, Verdict
<1>2. RunOK(run) /\ now \in Nat /\ From \in Nat /\ view.start = 0
      /\ Max({0, accepted}) = From /\ run.slack \in Int
  BY Counting DEF IInv, Shapes, ClockShape, RunOK, ViewShape
<1>3. slack \in Int
  BY <1>2
<1>4. AfterTurn(why, reached) = IF why = "none" THEN after ELSE Stopped(after, why)
  <2> DEFINE over == [run EXCEPT !.pc = "turn", !.calls = NoCalls, !.text = {}]
             r == [over EXCEPT !.reached = reached, !.slack = slack]
  <2>1. over.slack = run.slack
    BY <1>2 DEF RunOK
  <2>2. AfterTurn(why, reached) = IF why = "none" THEN r ELSE Stopped(r, why)
    <3> HIDE DEF reached, why, over
    <3> QED
      BY <2>1 DEF AfterTurn, over
  <2>3. r = after
    <3> HIDE DEF slack, reached
    <3>1. ASSUME NEW c, NEW t, NEW q,
                 q = [[run EXCEPT !.pc = "turn", !.calls = c, !.text = t]
                        EXCEPT !.reached = reached, !.slack = slack]
          PROVE  q = [pc |-> "turn", turn |-> run.turn, until |-> run.until, stop |-> run.stop,
                      slack |-> slack, hung |-> run.hung, wall |-> run.wall,
                      reserve |-> run.reserve, calls |-> c, text |-> t, reached |-> reached]
      BY <1>2, <3>1 DEF RunOK
    <3> QED
      BY <3>1, Zenon
  <2> HIDE DEF after, why, slack, reached, r
  <2> QED
    BY <2>2, <2>3
<1>5. /\ RunOK(after) /\ after.pc = "turn" /\ after.turn = run.turn /\ after.stop = run.stop
      /\ after.calls = NoCalls /\ after.reached = reached
  <2> HIDE DEF slack, reached
  <2> QED
    BY <1>2, <1>3 DEF RunOK, Points
<1> HIDE DEF after, slack, why, reached
<1>6. CASE why = "none"
  <2>1. run' = after
    BY <1>1, <1>4, <1>6
  <2> QED
    BY <1>1, <1>5, <1>6, <2>1 DEF why, reached
<1>7. CASE why # "none"
  <2>1. run' = Stopped(after, why)
    BY <1>1, <1>4, <1>7
  <2> QED
    BY <1>1, <1>5, <1>7, <2>1, StopParts DEF why, reached
<1> QED
  BY <1>6, <1>7

\* The end of a turn as RepetitionGuard sees it.
LEMMA TurnStreak ==
  ASSUME RulesAssumption, IInv, Streak, Counted, TurnEnds
  PROVE  Streak'
<1> DEFINE hint == HintThreshold(Repeat.threshold)
           o == RepetitionTurnEnd(guards.rep, run.calls, Repeat.threshold, Repeat.stopAfter)
           t == Append(trail.turns, [calls |-> run.calls, hint |-> o.hint])
<1>1. /\ guards'.rep = Repetition.g
      /\ trail'.turns = IF Watches("repeat")
                        THEN Append(trail.turns, [calls |-> run.calls, hint |-> Repetition.hint])
                        ELSE trail.turns
  BY TurnEndsIs
<1>2. run'.stop = "repeated_tool_calls" => Repetition.stop
  <2>1. run.stop = "none"
    BY TurnParts DEF Counted, Active
  <2>2. Verdict = "repeated_tool_calls" => Repetition.stop
    BY DEF Verdict, StopReason
  <2> QED
    BY <2>1, <2>2, TurnParts
<1>3. IsSeq(trail.turns) /\ StreakOf(guards.rep, trail.turns, hint)
  BY DEF Streak
<1>4. CASE Watches("repeat")
  <2>1. Repetition = o
    BY <1>4 DEF Repetition
  <2>2. /\ IsSeq(t) /\ StreakOf(o.g, t, hint)
        /\ o.stop => \E i \in 1..(Len(t) - 1) :
                       /\ \A j \in i..Len(t) : t[j].calls = t[Len(t)].calls
                       /\ t[i].hint
    BY <1>3, StreakGrows
  <2>3. guards'.rep = o.g /\ trail'.turns = t /\ (run'.stop = "repeated_tool_calls" => o.stop)
    BY <1>1, <1>2, <1>4, <2>1
  <2> HIDE DEF o, t, hint
  <2>4. HintBeforeStop'
    BY <2>2, <2>3 DEF HintBeforeStop
  <2> QED
    BY <2>2, <2>3, <2>4 DEF Streak, hint
<1>5. CASE ~Watches("repeat")
  <2>1. Repetition = [g |-> guards.rep, stop |-> FALSE, hint |-> FALSE]
    BY <1>5 DEF Repetition
  <2>2. Repetition.g = guards.rep /\ ~Repetition.stop
    BY <2>1
  <2>3. guards'.rep = guards.rep /\ trail'.turns = trail.turns /\ run'.stop # "repeated_tool_calls"
    BY <1>1, <1>2, <1>5, <2>2
  <2> QED
    BY <1>3, <2>3 DEF Streak, HintBeforeStop, hint
<1> QED
  BY <1>4, <1>5

\* The end of a turn as the notices see it.
LEMMA TurnNotices ==
  ASSUME RulesAssumption, IInv, Counted, Noticed, TurnEnds
  PROVE  Counted' /\ Noticed'
<1> DEFINE n == run.turn
           m == conf.maxTurns
           q == Trigger
           budget == Watches("budget")
<1>1. /\ n \in Nat /\ n > 0 /\ run.pc = "tools" /\ run.stop = "none" /\ conf' = conf /\ run'.turn = n
      /\ run'.pc \in {"turn", "final", "done"} /\ (run'.pc = "turn" => run'.stop = "none")
  BY TurnParts DEF Counted, Active
<1>2. m \in Nat
  BY DEF IInv, Shapes, ConfShape
<1>3. q \in Nat /\ q >= 2
  BY <1>2 DEF Trigger, RulesAssumption
<1>4. Concludes <=> budget /\ ~guards.conclude /\ m > 0 /\ n * 5 >= m * 4
  BY DEF Concludes, ConcludeFires
<1>5. Reserves <=> budget /\ q < m - 1 /\ ~guards.reserve /\ n >= q
  BY DEF Reserves, ReserveFires, Trigger
<1>6. run'.stop # "max_turns"
  <2>1. Verdict # "max_turns"
    BY DEF Verdict, StopReason
  <2> QED
    BY <1>1, <2>1, TurnParts
<1>7. Counted'
  BY <1>1 DEF Counted, Active
<1>8. /\ guards'.conclude = (guards.conclude \/ Concludes) /\ guards'.reserve = (guards.reserve \/ Reserves)
      /\ trail'.concludeAt = IF Concludes THEN n ELSE trail.concludeAt
      /\ trail'.reserveAt = IF Reserves THEN n ELSE trail.reserveAt
  BY TurnEndsIs
<1>9. Over = n - 1 /\ (run'.pc = "turn" => Over' = n) /\ Trigger' = q /\ (Watches("budget")' <=> budget)
  BY <1>1 DEF Over, Trigger, Watches
<1>10. /\ trail.concludeAt \in Nat /\ trail.reserveAt \in Nat
       /\ budget =>
            /\ guards.conclude => trail.concludeAt > 0
            /\ m > 0 /\ (n - 1) * 5 >= m * 4 => guards.conclude
            /\ q < m - 1 /\ ~guards.reserve => n - 1 < q
       /\ trail.reserveAt > 0 => trail.reserveAt < m - 1
  BY <1>1, <1>9 DEF Noticed, NoticesInTime, Active
<1>11. Reserves => n = q
  BY <1>1, <1>3, <1>5, <1>10
<1> HIDE DEF n, m, q, budget
<1>12. trail'.concludeAt \in Nat /\ trail'.reserveAt \in Nat
  BY <1>1, <1>8, <1>10
<1>13. trail'.reserveAt > 0 => trail'.reserveAt < m - 1
  BY <1>5, <1>8, <1>10, <1>11
<1>14. budget => /\ guards'.conclude => trail'.concludeAt > 0
                 /\ m > 0 /\ n * 5 >= m * 4 => guards'.conclude
                 /\ q < m - 1 /\ ~guards'.reserve => n < q
  <2> SUFFICES ASSUME budget
               PROVE  /\ guards'.conclude => trail'.concludeAt > 0
                      /\ m > 0 /\ n * 5 >= m * 4 => guards'.conclude
                      /\ q < m - 1 /\ ~guards'.reserve => n < q
    OBVIOUS
  <2>1. guards'.conclude => trail'.concludeAt > 0
    BY <1>1, <1>8, <1>10
  <2>2. m > 0 /\ n * 5 >= m * 4 => guards'.conclude
    BY <1>4, <1>8
  <2>3. q < m - 1 /\ ~guards'.reserve => n < q
    <3>1. ~guards'.reserve => ~guards.reserve /\ ~Reserves
      BY <1>8, Zenon
    <3> QED
      BY <1>1, <1>2, <1>3, <1>5, <3>1
  <2> QED
    BY <2>1, <2>2, <2>3
<1>15. NoticesInTime'
  BY <1>1, <1>6, <1>13 DEF NoticesInTime, m
<1>16. Noticed'
  <2> SUFFICES run'.pc \in Active /\ budget =>
                 /\ guards'.conclude => trail'.concludeAt > 0
                 /\ conf'.maxTurns > 0 /\ Over' * 5 >= conf'.maxTurns * 4 => guards'.conclude
                 /\ Trigger' < conf'.maxTurns - 1 /\ ~guards'.reserve => Over' < Trigger'
    BY <1>9, <1>12, <1>15 DEF Noticed
  <2>1. run'.pc \in Active => Over' = n
    BY <1>1, <1>9 DEF Active
  <2> QED
    BY <1>1, <1>9, <1>14, <2>1 DEF m
<1> QED
  BY <1>7, <1>16

\* No call that names a quarantined host is executed, and the quarantine does
\* what it promises at the end of every turn.
LEMMA TurnQuarantines ==
  ASSUME RulesAssumption, IInv, Batched, Tracked, TurnEnds
  PROVE  Tracked' /\ Quarantine
<1>1. /\ Len(trail'.network) <= Stuck.window
      /\ Agree(guards'.stuck.recent, trail'.network)
      /\ Latched(guards'.stuck)
      /\ ~Watches("stuck") => guards'.stuck.blocked = {}
      /\ guards.stuck.blocked \subseteq guards'.stuck.blocked
      /\ \A h \in guards'.stuck.blocked \ guards.stuck.blocked : HardFailures(trail'.network, h) >= Stuck.block
      /\ trail'.network # trail.network =>
           \/ \A h : HardFailures(trail'.network, h) >= Stuck.block => h \in guards'.stuck.blocked
           \/ guards'.stuck.blocked # guards.stuck.blocked
  BY TurnTracked
<1>2. conf' = conf /\ run'.reached = Reached(Admission.refused)
  BY TurnParts
<1>3. Tracked'
  BY <1>1, <1>2 DEF Tracked, Watches
<1>4. Reached(Admission.refused) \cap guards.stuck.blocked = {}
  <2>1. CASE ~Watches("stuck")
    BY <2>1 DEF Tracked
  <2>2. CASE Watches("stuck")
    BY <2>2 DEF Reached, SkippedAt, Skipped
  <2> QED
    BY <2>1, <2>2
<1>5. Quarantine
  BY <1>1, <1>2, <1>4, Zenon DEF Quarantine
<1> QED
  BY <1>3, <1>5

\* A step that leaves the observers that quarantine, warn and stop alone.
LEMMA QuietGuards ==
  ASSUME GInv, trail' = trail, RecordsOK',
         guards'.stuck = guards.stuck, guards'.rep = guards.rep,
         guards'.conclude = guards.conclude, guards'.reserve = guards.reserve,
         conf'.watch = conf.watch, conf'.maxTurns = conf.maxTurns, conf'.batches = conf.batches,
         Counted', FiniteCalls(run'.calls),
         run'.stop = "repeated_tool_calls" => run.stop = "repeated_tool_calls",
         run'.pc \in Active => run.pc \in Active /\ Over' = Over,
         Watches("budget") /\ run'.stop = "max_turns" /\ conf.maxTurns > 0 => trail.concludeAt > 0
  PROVE  GInv' /\ Quarantine
<1>1. Batched'
  BY DEF GInv, Batched
<1>2. Streak'
  BY DEF GInv, Streak, HintBeforeStop
<1>3. Noticed'
  <2>1. Trigger' = Trigger /\ (Watches("budget")' <=> Watches("budget"))
    BY DEF Trigger, Watches
  <2>2. NoticesInTime'
    BY <2>1 DEF GInv, Noticed, NoticesInTime
  <2> QED
    BY <2>1, <2>2 DEF GInv, Noticed
<1>4. Tracked'
  BY DEF GInv, Tracked, Watches
<1>5. Quarantine
  BY DEF Quarantine
<1> QED
  BY <1>1, <1>2, <1>3, <1>4, <1>5 DEF GInv

\* Initially nothing has been seen.
LEMMA InitAccount ==
  ASSUME ConfsAssumption, BatchesAssumption, RulesAssumption, Init
  PROVE  GInv
<1>1. RecordsOK
  BY DEF Init, RecordsOK
<1>2. run.pc = "new" /\ run.turn = 0 /\ run.stop = "none" /\ run.calls = <<>>
  BY DEF Init, NoCalls
<1>3. Counted
  BY <1>2 DEF Counted, Active
<1>4. Batched
  <2>1. conf \in Confs
    BY DEF Init
  <2>2. \A b \in conf.batches : FiniteCalls(b)
    BY <2>1, Zenon DEF FiniteCalls, BatchesAssumption
  <2>3. FiniteCalls(run.calls)
    BY <1>2 DEF FiniteCalls
  <2> QED
    BY <2>2, <2>3 DEF Batched
<1>5. /\ trail.network = <<>> /\ trail.turns = <<>> /\ trail.concludeAt = 0 /\ trail.reserveAt = 0
      /\ guards.stuck = StuckInit /\ guards.rep = RepetitionInit
      /\ guards.conclude = FALSE /\ guards.reserve = FALSE
  BY DEF Init
<1>6. IsSeq(<<>>)
  <2>1. <<>> \in Seq({})
    OBVIOUS
  <2> QED
    BY <2>1, Zenon DEF IsSeq
<1>7. Streak
  <2>1. HintThreshold(Repeat.threshold) \in Nat /\ HintThreshold(Repeat.threshold) >= 2
    BY Thresholds
  <2>2. guards.rep.streak = 0
    BY <1>5 DEF RepetitionInit
  <2>3. StreakOf(guards.rep, <<>>, HintThreshold(Repeat.threshold))
    BY <2>1, <2>2 DEF StreakOf
  <2> QED
    BY <1>2, <1>5, <1>6, <2>3 DEF Streak, HintBeforeStop
<1>8. Noticed
  <2>1. conf.maxTurns \in Nat
    BY DEF Init, ConfsAssumption
  <2>2. Trigger \in Nat /\ Trigger >= 2
    BY <2>1 DEF Trigger, RulesAssumption
  <2>3. Over = 0
    BY <1>2 DEF Over
  <2> QED
    BY <1>2, <1>5, <2>1, <2>2, <2>3 DEF Noticed, NoticesInTime
<1>9. Tracked
  <2>1. Stuck.window \in Nat
    BY DEF RulesAssumption
  <2>2. guards.stuck.recent = <<>> /\ guards.stuck.blocked = {} /\ guards.stuck.fired = {}
    BY <1>5 DEF StuckInit
  <2>3. Agree(<<>>, <<>>)
    BY <1>6 DEF Agree
  <2> QED
    BY <1>5, <2>1, <2>2, <2>3 DEF Tracked, Latched
<1> QED
  BY <1>1, <1>3, <1>4, <1>7, <1>8, <1>9 DEF GInv

\* Every step but the end of a turn leaves the account as it is: a run that
\* has used up its turns has been told.
LEMMA OtherSteps ==
  ASSUME IInv, GInv, [Next]_vars, ~TurnEnds
  PROVE  GInv' /\ Quarantine
<1> DEFINE r == run
<1>1. RunOK(run) /\ conf.maxTurns \in Nat
  BY DEF IInv, Shapes, ConfShape
<1>2. /\ r = [pc |-> r.pc, turn |-> r.turn, until |-> r.until, stop |-> r.stop, slack |-> r.slack,
              hung |-> r.hung, wall |-> r.wall, reserve |-> r.reserve, calls |-> r.calls,
              text |-> r.text, reached |-> r.reached]
      /\ r.pc \in Points
  BY <1>1 DEF RunOK
<1>3. conf = [kind |-> conf.kind, watch |-> conf.watch, batches |-> conf.batches,
              maxTurns |-> conf.maxTurns, settings |-> conf.settings, leased |-> conf.leased,
              maxSession |-> conf.maxSession, budget |-> conf.budget]
  BY DEF IInv, Shapes, ConfShape
<1>4. guards = [stuck |-> guards.stuck, rails |-> guards.rails, rep |-> guards.rep, text |-> guards.text,
                conclude |-> guards.conclude, reserve |-> guards.reserve, board |-> guards.board,
                used |-> guards.used, warned |-> guards.warned]
  BY DEF GInv, RecordsOK
<1>5. /\ run.turn \in Nat /\ (run.pc \in {"llm", "tools"} => run.turn > 0)
      /\ run.pc \in Active => run.stop = "none"
      /\ FiniteCalls(run.calls) /\ \A b \in conf.batches : FiniteCalls(b)
      /\ Watches("budget") /\ run.stop = "max_turns" /\ conf.maxTurns > 0 => trail.concludeAt > 0
  BY DEF GInv, Counted, Batched, Noticed, NoticesInTime
<1>6. ASSUME UNCHANGED <<conf, guards, trail>>, run'.turn = run.turn, run'.calls = run.calls, run'.stop = run.stop,
             run'.pc = run.pc \/ run'.pc \notin Active
      PROVE  GInv' /\ Quarantine
  <2>1. RecordsOK'
    BY <1>6 DEF GInv, RecordsOK
  <2>2. Counted' /\ (run'.pc \in Active => run.pc \in Active /\ Over' = Over)
    BY <1>5, <1>6 DEF Counted, Active, Over
  <2> QED
    BY <1>5, <1>6, <2>1, <2>2, QuietGuards
<1>7. ASSUME UNCHANGED <<conf, guards, trail>>, NEW why, run' = Stopped(run, why), why # "repeated_tool_calls",
             Watches("budget") /\ why = "max_turns" /\ conf.maxTurns > 0 => trail.concludeAt > 0
      PROVE  GInv' /\ Quarantine
  <2>1. /\ run'.pc \in {"final", "done"} /\ run'.stop = why /\ run'.turn = run.turn
        /\ run'.calls = run.calls
    BY <1>1, <1>7, StopParts
  <2>2. RecordsOK'
    BY <1>7 DEF GInv, RecordsOK
  <2>3. Counted' /\ run'.pc \notin Active
    BY <1>5, <2>1 DEF Counted, Active
  <2> QED
    BY <1>5, <1>7, <2>1, <2>2, <2>3, QuietGuards
<1>8. ASSUME UNCHANGED <<conf, run, trail>>, NEW rails, guards' = [guards EXCEPT !.rails = rails]
      PROVE  GInv' /\ Quarantine
  <2>1. guards' = [stuck |-> guards.stuck, rails |-> rails, rep |-> guards.rep, text |-> guards.text,
                   conclude |-> guards.conclude, reserve |-> guards.reserve, board |-> guards.board,
                   used |-> guards.used, warned |-> guards.warned]
    BY <1>4, <1>8
  <2>2. RecordsOK'
    BY <1>8, <2>1 DEF GInv, RecordsOK
  <2>3. Counted' /\ (run'.pc \in Active => run.pc \in Active /\ Over' = Over)
    BY <1>5, <1>8 DEF Counted, Active, Over
  <2> QED
    BY <1>5, <1>8, <2>1, <2>2, <2>3, QuietGuards
<1>9. CASE (\E t \in Threads : CallRenew(t) \/ AcceptRenew(t)) \/ SupCheck \/ SupWakes \/ Tick
           \/ (\E m \in Messages : Record(m)) \/ UNCHANGED vars
  <2>1. UNCHANGED <<conf, guards, trail, run>>
    BY <1>9 DEF CallRenew, AcceptRenew, SupCheck, SupWakes, Tick, Record, vars
  <2> QED
    BY <1>6, <2>1
<1>10. CASE NotifyLoopHint \/ ResetLoopHints \/ CleanupTask
  <2>1. UNCHANGED <<conf, run, trail>>
    BY <1>10 DEF NotifyLoopHint, ResetLoopHints, CleanupTask
  <2>2. \E rails : guards' = [guards EXCEPT !.rails = rails]
    <3>1. CASE NotifyLoopHint
      BY <3>1 DEF NotifyLoopHint
    <3>2. CASE ResetLoopHints
      BY <3>2 DEF ResetLoopHints
    <3>3. CASE CleanupTask
      BY <3>3 DEF CleanupTask
    <3> QED
      BY <1>10, <3>1, <3>2, <3>3
  <2> QED
    BY <1>8, <2>1, <2>2
<1>11. CASE Hangs \/ FinalEnds \/ GraceEnds
  <2>1. UNCHANGED <<conf, guards, trail>>
    BY <1>11 DEF Hangs, FinalEnds, GraceEnds
  <2>2. /\ run'.turn = run.turn /\ run'.calls = run.calls /\ run'.stop = run.stop
        /\ run'.pc = run.pc \/ run'.pc \notin Active
    <3>1. CASE Hangs
      BY <1>2, <3>1 DEF Hangs, Active
    <3>2. CASE FinalEnds
      BY <1>2, <3>2 DEF FinalEnds, Active
    <3>3. CASE GraceEnds
      BY <1>2, <3>3 DEF GraceEnds, Active
    <3> QED
      BY <1>11, <3>1, <3>2, <3>3
  <2> QED
    BY <1>6, <2>1, <2>2
<1>12. CASE ModelAnswers
  <2>1. UNCHANGED <<conf, guards, trail>> /\ run' = Stopped(run, "no_tool")
    BY <1>12 DEF ModelAnswers
  <2> QED
    BY <1>7, <2>1
<1>13. CASE Begin
  <2>1. /\ run.pc = "new" /\ guards' = guards /\ trail' = trail
        /\ \E w, v : run' = [run EXCEPT !.pc = "turn", !.wall = w, !.reserve = v]
        /\ \E s : conf' = [conf EXCEPT !.settings = s]
    BY <1>13 DEF Begin
  <2>2. run'.pc = "turn" /\ run'.turn = run.turn /\ run'.stop = run.stop /\ run'.calls = run.calls
    BY <1>2, <2>1
  <2>3. conf'.watch = conf.watch /\ conf'.maxTurns = conf.maxTurns /\ conf'.batches = conf.batches
    BY <1>3, <2>1
  <2>4. RecordsOK'
    BY <2>1 DEF GInv, RecordsOK
  <2>5. Counted' /\ run.pc \in Active /\ Over' = Over
    BY <1>5, <2>1, <2>2 DEF Counted, Active, Over
  <2> QED
    BY <1>5, <2>1, <2>2, <2>3, <2>4, <2>5, QuietGuards
<1>14. CASE ModelReplies
  <2>1. PICK calls \in conf.batches :
          /\ run.pc = "llm" /\ UNCHANGED <<conf, trail>>
          /\ \E x, u : run' = [run EXCEPT !.pc = "tools", !.calls = calls, !.text = x, !.until = u]
          /\ \E s : guards' = [guards EXCEPT !.used = s]
    BY <1>14, Zenon DEF ModelReplies
  <2>2. run'.pc = "tools" /\ run'.turn = run.turn /\ run'.stop = run.stop /\ run'.calls = calls
    BY <1>2, <2>1
  <2>3. PICK s : guards' = [stuck |-> guards.stuck, rails |-> guards.rails, rep |-> guards.rep, text |-> guards.text,
                            conclude |-> guards.conclude, reserve |-> guards.reserve, board |-> guards.board,
                            used |-> s, warned |-> guards.warned]
    BY <1>4, <2>1
  <2>4. RecordsOK'
    BY <2>1, <2>3 DEF GInv, RecordsOK
  <2>5. Counted' /\ run.pc \in Active /\ Over' = Over
    BY <1>5, <2>1, <2>2 DEF Counted, Active, Over
  <2> QED
    BY <1>5, <2>1, <2>2, <2>3, <2>4, <2>5, QuietGuards
<1>15. CASE AskModel
  <2>1. /\ run.pc = "turn" /\ UNCHANGED <<conf, guards, trail>>
        /\ \/ run.turn >= conf.maxTurns /\ run' = Stopped(run, "max_turns")
           \/ run' = Stopped(run, "llm_error")
           \/ \E u : run' = [run EXCEPT !.pc = "llm", !.turn = @ + 1, !.until = u]
    <3> DEFINE left == IF view.soft = NoTime THEN LlmTimeout ELSE DeadlineRemaining(view, lease, now)
               u == now + Min({LlmTimeout, left})
    <3>1. /\ run.pc = "turn" /\ UNCHANGED <<conf, guards, trail>>
          /\ run' = CASE run.turn >= conf.maxTurns -> Stopped(run, "max_turns")
                      [] run.turn < conf.maxTurns /\ left < LlmTimeout /\ left < Floor ->
                           Stopped(run, "llm_error")
                      [] OTHER -> [run EXCEPT !.pc = "llm", !.turn = @ + 1, !.until = u]
      BY <1>15 DEF AskModel
    <3> HIDE DEF left, u
    <3>2. \/ run.turn >= conf.maxTurns /\ run' = Stopped(run, "max_turns")
          \/ run' = Stopped(run, "llm_error")
          \/ run' = [run EXCEPT !.pc = "llm", !.turn = @ + 1, !.until = u]
      BY <1>1, <1>5, <3>1
    <3> QED
      BY <3>1, <3>2
  <2>2. CASE run.turn >= conf.maxTurns /\ run' = Stopped(run, "max_turns")
    <3>1. Over = run.turn /\ run.pc \in Active
      BY <2>1 DEF Over, Active
    <3>2. run.turn * 5 >= conf.maxTurns * 4
      BY <1>1, <1>5, <2>2
    <3>3. Watches("budget") /\ conf.maxTurns > 0 => trail.concludeAt > 0
      BY <3>1, <3>2 DEF GInv, Noticed
    <3> QED
      BY <1>7, <2>1, <2>2, <3>3
  <2>3. CASE run' = Stopped(run, "llm_error")
    BY <1>7, <2>1, <2>3
  <2>4. CASE \E u : run' = [run EXCEPT !.pc = "llm", !.turn = @ + 1, !.until = u]
    <3>1. run'.pc = "llm" /\ run'.turn = run.turn + 1 /\ run'.stop = run.stop /\ run'.calls = run.calls
      BY <1>2, <2>4
    <3>2. RecordsOK'
      BY <2>1 DEF GInv, RecordsOK
    <3>3. Counted' /\ run.pc \in Active /\ Over' = Over
      <4>1. run.pc = "turn" /\ run.turn \in Nat /\ run.stop = "none" /\ run.pc \in Active
        BY <1>5, <2>1 DEF Active
      <4>2. run'.turn \in Nat /\ run'.turn > 0 /\ run'.turn - 1 = run.turn
        BY ONLY <3>1, <4>1
      <4>3. Counted'
        BY ONLY <3>1, <4>1, <4>2 DEF Counted
      <4>4. Over' = Over
        BY ONLY <3>1, <4>1, <4>2 DEF Over
      <4> QED
        BY <4>1, <4>3, <4>4
    <3> QED
      BY <1>5, <2>1, <3>1, <3>2, <3>3, QuietGuards
  <2> QED
    BY <2>1, <2>2, <2>3, <2>4
<1> QED
  BY <1>9, <1>10, <1>11, <1>12, <1>13, <1>14, <1>15 DEF Next

\* Every step keeps the account and the quarantine.
LEMMA AccountKept ==
  ASSUME RulesAssumption, IInv, GInv, [Next]_vars
  PROVE  GInv' /\ Quarantine
<1>1. CASE TurnEnds
  <2>1. Tracked' /\ Quarantine
    BY <1>1, TurnQuarantines DEF GInv
  <2>2. Streak' /\ Counted' /\ Noticed'
    BY <1>1, TurnStreak, TurnNotices DEF GInv
  <2>3. RecordsOK'
    BY <1>1, TurnEndsIs
  <2>4. Batched'
    <3>1. conf' = conf /\ run'.calls = <<>>
      BY <1>1, TurnParts DEF NoCalls
    <3>2. FiniteCalls(run'.calls)
      BY <3>1 DEF FiniteCalls
    <3> QED
      BY <3>1, <3>2 DEF GInv, Batched
  <2> QED
    BY <2>1, <2>2, <2>3, <2>4 DEF GInv
<1> QED
  BY <1>1, OtherSteps

-----------------------------------------------------------------------------
(* The theorems about the observers *)

\* The inductive invariant of the observers: their records are the run's own
\* history, whatever the calls, the results and the thresholds.
THEOREM AccountInvariant == Spec => [](IInv /\ GInv)
<1>1. Init => IInv /\ GInv
  BY InitHolds, InitAccount, GuardedAssumption, ConfsAssumption, BatchesAssumption, RulesAssumption
<1>2. (IInv /\ GInv) /\ [Next]_vars => (IInv /\ GInv)'
  BY StepKeeps, AccountKept, GuardedAssumption, ConfsAssumption, RulesAssumption
<1> QED
  BY <1>1, <1>2, PTL DEF Spec

\* A host is quarantined on enough unforgiven hard failures in the window and
\* only on them, stays quarantined, and no call that names it is executed
\* (StuckTargetGuard.on_turn_end, on_tool_call).
THEOREM QuarantineStands == Spec => [][Quarantine]_vars
<1>1. IInv /\ GInv /\ [Next]_vars => [Quarantine]_vars
  BY AccountKept, RulesAssumption
<1> QED
  BY <1>1, AccountInvariant, PTL DEF Spec

\* RepetitionGuard stops a loop only after a hint the model had a turn to act
\* on; the reserve notice is never too late to act on, and a run that used up
\* its turns was told to conclude (RepetitionGuard, ConcludePhaseObserver,
\* FinalizationReserveObserver).
THEOREM NoticesComeFirst == Spec => [](HintBeforeStop /\ NoticesInTime)
<1>1. GInv => HintBeforeStop /\ NoticesInTime
  BY DEF GInv, Streak, Noticed
<1> QED
  BY <1>1, AccountInvariant, PTL

=============================================================================
