-------------------------- MODULE WriteAuditCycle --------------------------
(* WriteAuditCycle.run with the session-backed writer, an auditor (a single  *)
(* grader, a majority vote, or a composed verifier behind the adapter) and   *)
(* the built-in round observers.                                             *)
(*                                                                           *)
(* The writer keeps one bus session for the whole cycle; the judges of a     *)
(* round share the session named after the round. A session serves its jobs  *)
(* in order. `collect' may time out, and then the job runs on with nobody    *)
(* waiting for its result.                                                   *)
EXTENDS Verifiers

CONSTANTS
  MaxRounds, MaxWall,   \* MaxWall = 0: no wall-clock budget
  RatioPct,             \* wall_clock_safety_ratio, in percent
  Durations,            \* what a round may take
  Terminal, Success,    \* terminal_verdicts, success_verdicts
  Modes,                \* the auditors the cycle may be built with
  Replies,              \* what a judge's session may answer
  Plateau, MinScored,   \* PlateauAbortObserver's plateau_rounds and min_rounds
  WriterAborts,         \* whether an observer aborts in on_writer_done
  Fails,                \* the bus calls that may raise: "submit", "judge"
  Unwritable            \* the rounds whose report cannot be written

\* What the constructors of the cycle and of its plateau observer accept.
ValidCycle ==
  /\ MaxRounds \in Nat \ {0} /\ MaxWall \in Nat /\ RatioPct \in Nat /\ RatioPct >= 100
  /\ Success \subseteq Terminal
  /\ Plateau \in Nat \ {0}

ASSUME CycleAssumption == ValidCycle

\* What a host builds: time is counted in whole units, and neither the verdict
\* of a synthetic report nor the one of a failed grade is a success.
ASSUME HostAssumption ==
  /\ Durations \subseteq Nat /\ Modes \subseteq Sequential \cup Gathered
  /\ Success \cap {"iterate", "none", FailVerdict} = {}

VARIABLES
  mode,       \* the auditor in use
  pc, round,  \* where run() stands
  prev,       \* prev_audit
  history,    \* one entry per audited round: its output and its report
  files,      \* audit_round_N.json per round
  elapsed, durations,
  writer,     \* the writer session's jobs, by round; the first one runs
  asked,      \* the prompts of the writer's session
  artifact,   \* 1 + the round of the job that wrote the artifact last; 0: missing
  calls,      \* the judge calls of this round, in the order they were made
  grader,     \* jobs of this round's judge session; the first one runs
  seen,       \* PlateauAbortObserver._scores
  best,       \* what BestSoFarObserver handed to its callback last
  output,     \* CycleOutput
  chosen      \* the attempt a workflow selects from the history afterwards

vars == <<mode, pc, round, prev, history, files, elapsed, durations, writer, asked,
          artifact, calls, grader, seen, best, output, chosen>>

Rounds == 0..(MaxRounds - 1)
NoAudit == Report("none", "none", NoScore, 0, FALSE, NoAnswer)
Waiting == Report("waiting", "none", NoScore, 0, FALSE, NoAnswer)
Empty == -1             \* WriterOutput(content="")
NoOut == -2
NoOutput == [success |-> FALSE, rounds |-> 0, out |-> NoOut, audit |-> NoAudit, reason |-> "none"]

Init ==
  /\ mode \in Modes
  /\ pc = "top" /\ round = 0 /\ prev = NoAudit
  /\ history = <<>> /\ files = [r \in Rounds |-> NoAudit]
  /\ elapsed = 0 /\ durations = <<>>
  /\ writer = <<>> /\ asked = <<>> /\ artifact = 0
  /\ calls = <<>> /\ grader = <<>>
  /\ seen = <<>> /\ best = 0 /\ output = NoOutput /\ chosen = 0

-----------------------------------------------------------------------------
(* Ending a round and the cycle *)

\* _finalize
Finalize(success, used, out, audit, reason) ==
  /\ output' = [success |-> success, rounds |-> used, out |-> out, audit |-> audit,
                reason |-> reason]
  /\ pc' = "ended"

\* PlateauAbortObserver.on_audit_done
Plateaued(scores) ==
  /\ Len(scores) >= MinScored
  /\ Len(scores) >= Plateau + 1
  /\ LET n == Len(scores) - Plateau
     IN  Max({scores[i] : i \in (n + 1)..Len(scores)}) <= Max({scores[i] : i \in 1..n})

\* (Faulty variant: the file is named after the next round.)
Persist_NextRound(audit) ==
  files' = [r \in Rounds |-> IF r = round + 1 THEN audit ELSE files[r]]

\* _persist: a failed write is logged and dropped.
Persist(audit) ==
  files' = [files EXCEPT ![round] = IF round \in Unwritable THEN @ ELSE audit]

\* PlateauAbortObserver._scores after a report.
Noted(audit) == IF audit.score = NoScore THEN seen ELSE Append(seen, audit.score)

\* _fire_intervention("on_audit_done"): ABORT from any observer wins; of the
\* built-in ones only the plateau observer may abort, on a scored report.
Aborts(audit) == audit.score # NoScore /\ Plateaued(Noted(audit))

\* BestSoFarObserver.on_audit_done
PublishBest(trail) == best' = SelectBestAttempt(trail)

\* An abort goes before a terminal verdict; synthetic reports are not compared
\* with the terminal verdicts.
AfterAudit(out, audit, synthetic) ==
  \/ /\ Aborts(audit)
     /\ Finalize(FALSE, round + 1, out, audit, "observer_aborted")
     /\ UNCHANGED <<round, prev>>
  \/ /\ ~Aborts(audit)
     /\ ~synthetic /\ audit.verdict \in Terminal
     /\ Finalize(audit.verdict \in Success, round + 1, out, audit, "verdict")
     /\ UNCHANGED <<round, prev>>
  \/ /\ ~Aborts(audit)
     /\ synthetic \/ audit.verdict \notin Terminal
     /\ pc' = "top" /\ round' = round + 1 /\ prev' = audit
     /\ UNCHANGED output

\* A round is persisted, recorded, timed and shown to the observers.
CloseRound(out, audit, synthetic) ==
  /\ Persist(audit)
  /\ \E trail \in {Append(history, [out |-> out, audit |-> audit])} :
       /\ history' = trail
       /\ PublishBest(trail)
  /\ \E d \in Durations :
       /\ elapsed' = elapsed + d
       /\ durations' = IF Len(durations) = 3 THEN Append(Tail(durations), d)
                       ELSE Append(durations, d)
  /\ seen' = Noted(audit)
  /\ grader' = <<>>
  /\ UNCHANGED calls
  /\ AfterAudit(out, audit, synthetic)

LastOut == IF history = <<>> THEN NoOut ELSE Last(history).out

-----------------------------------------------------------------------------
(* A round *)

EstimatedNext == Max({durations[i] : i \in DOMAIN durations}) * RatioPct

WallExhausted ==
  MaxWall # 0 /\ durations # <<>> /\ (MaxWall - elapsed) * 100 < EstimatedNext

Top ==
  /\ pc = "top"
  /\ \/ round = MaxRounds /\ Finalize(FALSE, round, LastOut, prev, "max_rounds_exhausted")
        /\ UNCHANGED calls
     \/ round < MaxRounds /\ WallExhausted
        /\ Finalize(FALSE, round, LastOut, prev, "wall_clock_exhausted")
        /\ UNCHANGED calls
     \/ round < MaxRounds /\ ~WallExhausted /\ pc' = "generate" /\ calls' = <<>>
        /\ UNCHANGED output
  /\ UNCHANGED <<mode, round, prev, history, files, elapsed, durations, writer, asked, artifact,
                 grader, seen, best, chosen>>

\* DefaultFeedbackRenderer.render: a report without findings that is no success
\* asks for the whole task again.
Render(audit) ==
  IF audit.findings THEN "findings"
  ELSE IF audit.verdict \in Success THEN "plain" ELSE "reattempt"

\* SessionBackedWriter.generate: the initial prompt, then the rendered report.
Submit ==
  /\ pc = "generate"
  /\ writer' = Append(writer, round)
  /\ asked' = Append(asked, <<round, IF round = 0 THEN "initial" ELSE Render(prev)>>)
  /\ pc' = "write"
  /\ UNCHANGED <<mode, round, prev, history, files, elapsed, durations, artifact, calls, grader,
                 seen, best, output, chosen>>

\* create_session or submit_task_to_session raises.
SubmitRaises ==
  /\ pc = "generate" /\ "submit" \in Fails
  /\ CloseRound(Empty, WriterExceptionAudit, TRUE)
  /\ UNCHANGED <<mode, writer, asked, artifact, chosen>>

\* The session's running job ends, having written the artifact or not; a
\* failed job's result is taken like any other.
WriterJobEnds ==
  /\ writer # <<>>
  /\ writer' = Tail(writer)
  /\ \E wrote \in BOOLEAN : artifact' = IF wrote THEN Head(writer) + 1 ELSE artifact
  /\ pc' = IF pc = "write" /\ Head(writer) = round THEN "written" ELSE pc
  /\ UNCHANGED <<mode, round, prev, history, files, elapsed, durations, asked, calls, grader,
                 seen, best, output, chosen>>

\* _extract_one_result finds nothing and raises; the job goes on.
WriterTimesOut ==
  /\ pc = "write"
  /\ CloseRound(Empty, WriterExceptionAudit, TRUE)
  /\ UNCHANGED <<mode, writer, asked, artifact, chosen>>

\* on_writer_done, then output_check; a missing artifact is not audited.
WriterDone ==
  /\ pc = "written"
  /\ \/ /\ WriterAborts
        /\ Finalize(FALSE, round + 1, round, prev, "observer_aborted")
        /\ UNCHANGED <<round, prev, history, files, elapsed, durations, calls, grader,
                       seen, best>>
     \/ /\ artifact = 0
        /\ CloseRound(round, OutputMissingAudit, TRUE)
     \/ /\ artifact # 0
        /\ pc' = "audit"
        /\ UNCHANGED <<round, prev, history, files, elapsed, durations, calls, grader,
                       seen, best, output>>
  /\ UNCHANGED <<mode, writer, asked, artifact, chosen>>

-----------------------------------------------------------------------------
(* The audit *)

Answered == {k \in DOMAIN calls : calls[k] # Waiting}
Valid == {k \in Answered : calls[k] # RaisedCall}
Verdicts == [k \in Valid |-> VerdictFromAuditReport(calls[k])]
Gathering == mode \in Gathered

\* The next member is asked: at once by a gather, after the last answer by a
\* sequential composer. Its session has this round's name, so it exists already
\* for every judge but the first.
AskJudge ==
  /\ pc = "audit"
  /\ Gathering \/ Answered = DOMAIN calls
  /\ RaisedCall \in Range(calls) => Gathering
  /\ MoreCalls(mode, Len(calls), Verdicts)
  /\ \/ /\ calls' = Append(calls, Waiting)
        /\ grader' = Append(grader, Len(calls) + 1)
     \/ /\ "judge" \in Fails
        /\ calls' = Append(calls, RaisedCall)
        /\ UNCHANGED grader
  /\ UNCHANGED <<mode, pc, round, prev, history, files, elapsed, durations, writer, asked,
                 artifact, seen, best, output, chosen>>

AllAsked == calls # <<>> /\ (Gathering => ~MoreCalls(mode, Len(calls), Verdicts))

\* What the auditor's verify makes of its session's final content.
JudgeReport(r) == IF r.full THEN ParseAuditReport(r) ELSE ParseScoreResponse(r)

JudgeJobEnds ==
  /\ pc = "audit" /\ AllAsked /\ grader # <<>>
  /\ grader' = Tail(grader)
  /\ \E r \in Replies :
       calls' = IF calls[Head(grader)] # Waiting THEN calls
                ELSE [calls EXCEPT ![Head(grader)] = JudgeReport(r)]
  /\ UNCHANGED <<mode, pc, round, prev, history, files, elapsed, durations, writer, asked,
                 artifact, seen, best, output, chosen>>

\* (Faulty variant: the judge's collect has no timeout.)
JudgeTimesOut_NoTimer == FALSE

JudgeTimesOut ==
  /\ pc = "audit" /\ AllAsked
  /\ \E k \in DOMAIN calls :
       calls[k] = Waiting /\ calls' = [calls EXCEPT ![k] = RuntimeErrorAudit]
  /\ UNCHANGED <<mode, pc, round, prev, history, files, elapsed, durations, writer, asked,
                 artifact, grader, seen, best, output, chosen>>

\* An exception a composer does not absorb leaves run(): no report, no
\* on_cycle_end, and a gather's other calls are left running.
Raises == mode \notin Tolerant /\ RaisedCall \in Range(calls)
AuditorRaises ==
  /\ pc = "audit" /\ AllAsked /\ Raises
  /\ pc' = "raised"
  /\ UNCHANGED <<mode, round, prev, history, files, elapsed, durations, writer, asked, artifact,
                 calls, grader, seen, best, output, chosen>>

Audit ==
  CASE mode = "bare" -> calls[1]
    [] mode = "majority" -> MajorityVote(calls)
    [] OTHER -> AuditReportFromVerdict(Composed(mode, Verdicts))

AuditDone ==
  /\ pc = "audit" /\ AllAsked /\ ~Raises
  /\ Answered = DOMAIN calls /\ ~MoreCalls(mode, Len(calls), Verdicts)
  /\ \E audit \in {Audit} : CloseRound(round, audit, FALSE)
  /\ UNCHANGED <<mode, writer, asked, artifact, chosen>>

-----------------------------------------------------------------------------
\* select_by_answer_consensus on CycleOutput.history.
Choose ==
  /\ pc = "ended" /\ history # <<>>
  /\ chosen' = SelectByAnswerConsensus(history)
  /\ pc' = "chosen"
  /\ UNCHANGED <<mode, round, prev, history, files, elapsed, durations, writer, asked, artifact,
                 calls, grader, seen, best, output>>

CycleNext ==
  \/ Top \/ Submit \/ SubmitRaises \/ WriterTimesOut \/ WriterDone
  \/ AskJudge \/ JudgeTimesOut \/ AuditorRaises \/ AuditDone
BusNext == WriterJobEnds \/ JudgeJobEnds
Next == CycleNext \/ BusNext \/ Choose

Spec == Init /\ [][Next]_vars

\* run() goes on whenever it can, and its collects are bounded by timers. Nothing
\* is assumed of the sessions' jobs: they may hang.
FairSpec == Spec /\ WF_vars(CycleNext)

-----------------------------------------------------------------------------
(* Properties *)

Ended == pc \in {"ended", "chosen"}
StoppedByWriterHook == Ended /\ output.reason = "observer_aborted" /\ output.rounds > Len(history)

\* "history is the complete trail": entry N is round N's, the file of a round
\* holds that entry's report or, where it could not be written, nothing, every
\* prompt after the first renders the report of the round just before it, however
\* late an earlier job runs, and the cycle's final audit is the last of the trail.
TrailComplete ==
  /\ \A r \in Rounds : files[r] = IF r < Len(history) /\ r \notin Unwritable
                                  THEN history[r + 1].audit ELSE NoAudit
  /\ Len(history) = IF Ended THEN output.rounds - (IF StoppedByWriterHook THEN 1 ELSE 0) ELSE round
  /\ \A i \in DOMAIN asked : asked[i][1] > 0 => asked[i][2] = Render(history[asked[i][1]].audit)
  /\ Ended /\ history # <<>> => output.audit = Last(history).audit

\* While a judge looks at the writer's output no job of the writer is running or
\* queued: an earlier round's job that outlived its collect has ended before
\* this round's job started (SessionBackedWriter's one session).
AuditQuiescent == pc = "audit" => writer = <<>>

Passing == {k \in DOMAIN calls : calls[k].verdict \in Success}
Votes(v) == Cardinality({k \in Valid : calls[k].verdict = v})
Backed ==
  CASE mode \in {"pipeline", "parallel"} -> Cardinality(Passing) = Members
    [] mode = "ensemble" -> Cardinality(Passing) * 2 > Members
    [] mode = "majority" -> \E v \in Success : Votes(v) > 0 /\ \A k \in Valid : Votes(calls[k].verdict) <= Votes(v)
    [] mode = "consensus" -> \E s \in {calls[k].score : k \in Valid} \ {NoScore} :
                               Cardinality({k \in Valid : calls[k].score = s}) * 2 > Cardinality(Valid)
    [] OTHER -> Len(calls) \in Passing

\* A cycle that reports success was told so by the judges of its last round, as
\* many as its auditor asks for, about this round's output with every artifact
\* present; a judge that raised, timed out or gave no score is none of them.
SuccessEarned ==
  output.success =>
    /\ output.audit.verdict \in Success /\ output.out = output.rounds - 1
    /\ artifact # 0 /\ Backed
    /\ \A k \in Passing : calls[k].kind = "audit" \/ calls[k].score >= PassThreshold

\* A verdict is worth what it says: the judges saw a finished output, and
\* enough of them passed it.
AuditsSound == AuditQuiescent /\ SuccessEarned

\* The attempt BestSoFarObserver published last and the one a consensus chooses
\* are those a reader would pick from the history: the latest with the highest
\* score, of all attempts or of the answer class with the highest total.
BestOf(S) ==
  Max({i \in S : \A k \in S : history[k].audit.score <= history[i].audit.score})
Class(i) ==
  {k \in DOMAIN history : history[k].audit.answer # NoAnswer
                            /\ SameAnswer(history[k].audit.answer, history[i].audit.answer)}
ClassTotal(S) ==
  IF \E k \in S : history[k].audit.score = NoScore THEN NoScore
  ELSE MapThenSumSet(LAMBDA k : history[k].audit.score, S)
SelectionsAgree ==
  LET told == {i \in DOMAIN history : history[i].audit.answer # NoAnswer} IN
  /\ pc \in {"top", "ended"} /\ history # <<>> => best = BestOf(DOMAIN history)
  /\ pc = "chosen" =>
       IF told = {} THEN chosen = best
       ELSE /\ chosen = BestOf(Class(chosen))
            /\ \A i \in told : \/ ClassTotal(Class(i)) < ClassTotal(Class(chosen))
                                \/ /\ ClassTotal(Class(i)) = ClassTotal(Class(chosen))
                                   /\ Cardinality(Class(i)) <= Cardinality(Class(chosen))

\* The budget is only overrun by a first round, or by one that took longer than
\* the safety ratio allows for after the rounds before it.
WallRespected ==
  MaxWall # 0 /\ elapsed > MaxWall /\ Len(history) > 1 =>
    \A i \in 1..(Len(durations) - 1) :
      Last(durations) * 100 > durations[i] * RatioPct

\* run() returns, or lets an auditor's exception out, whatever its sessions do.
CycleEnds == <>(pc \in {"ended", "chosen", "raised"})

\* The cycle ends, within its budget as far as it could be foreseen, with the
\* attempt it should call the best.
CycleConcludes == []WallRespected /\ []SelectionsAgree /\ CycleEnds
=============================================================================
