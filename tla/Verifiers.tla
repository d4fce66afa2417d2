----------------------------- MODULE Verifiers -----------------------------
(* What the cycle's auditors make of a model's reply, how a panel of judges  *)
(* or a composed verifier is collapsed into one report, and how the best     *)
(* attempt of a history is selected (components/cycle/builders.py,           *)
(* components/verifier).                                                     *)
(*                                                                           *)
(* A reply is what _try_parse_json can tell of it: what its fenced block and *)
(* its widest braces hold ("none", "object" or "bad"), the verdict, whether  *)
(* findings are listed, and the values under the score keys. Scores count    *)
(* half points, so that the mean of two judges is exact; confidences are     *)
(* percentages. A list from which entries were filtered keeps the positions  *)
(* of those that are left.                                                   *)
EXTENDS Integers, Sequences, SequencesExt, FiniteSetsExt

CONSTANTS
  PassThreshold, PassVerdict, FailVerdict,
  ScoreLow, ScoreHigh,   \* score_range
  Equivalent             \* the pairs of answers `equivalence' accepts

\* What ScoreThresholdAuditor's constructor accepts.
ValidScoring ==
  /\ PassThreshold \in Int /\ ScoreLow \in Int /\ ScoreHigh \in Int
  /\ ScoreLow < ScoreHigh

ASSUME ScoringAssumption == ValidScoring

NoAnswer == "unanswered" \* an empty metadata["answer"]

NoScore == -1000         \* no usable metadata["score"]: -inf in the selections
NotNumeric == -2000      \* a key with a value that is no number
Absent == -3000          \* a key that is not in the object

Report(kind, verdict, score, confidence, findings, answer) ==
  [kind |-> kind, verdict |-> verdict, score |-> score, confidence |-> confidence,
   findings |-> findings, answer |-> answer]

\* The reports the cycle builds itself carry one finding and full confidence.
Synthetic(kind) == Report(kind, "iterate", NoScore, 100, TRUE, NoAnswer)
WriterExceptionAudit == Synthetic("writer_exception")
OutputMissingAudit == Synthetic("output_missing")
RuntimeErrorAudit == Synthetic("auditor_runtime_error")

\* Stands for the exception of a base call that raised.
RaisedCall == Report("raised", "none", NoScore, 0, FALSE, NoAnswer)

\* _try_parse_json: a fenced block is preferred, and one that does not parse is
\* not made up for by braces elsewhere.
TryParseJson(r) == IF r.fenced # "none" THEN r.fenced = "object" ELSE r.bare = "object"

ParseAuditReport(r) ==
  IF ~TryParseJson(r) THEN Synthetic("auditor_parse_failure")
  ELSE IF r.verdict = "absent" THEN Synthetic("auditor_schema_mismatch")
  ELSE Report("audit", r.verdict, NoScore, 0, r.listed, r.answer)

\* The first of the score keys that holds a number.
ExtractFirstNumber(r) ==
  LET hits == {i \in DOMAIN r.nums : r.nums[i] \notin {Absent, NotNumeric}}
  IN  IF hits = {} THEN NoScore ELSE r.nums[Min(hits)]

ConfidenceFromScore(s) ==
  Max({0, Min({100, ((s - ScoreLow) * 100) \div (ScoreHigh - ScoreLow)})})

\* parse_score_response
ParseScoreResponse(r) ==
  LET score == ExtractFirstNumber(r) IN
  IF ~TryParseJson(r)
  THEN Report("grader_parse_failure", FailVerdict, NoScore, 0, TRUE, r.answer)
  ELSE IF score = NoScore
  THEN Report("grader_score_missing", FailVerdict, NoScore, 0, TRUE, r.answer)
  ELSE Report("grade", IF score >= PassThreshold THEN PassVerdict ELSE FailVerdict,
              score, ConfidenceFromScore(score), TRUE, r.answer)

-----------------------------------------------------------------------------
(* MajorityVoteAuditor *)

\* Counter.most_common(1): among the labels seen most often, the one seen first.
MostCommon(labels) ==
  LET Count(l) == Cardinality({i \in DOMAIN labels : labels[i] = l})
      first == Min({i \in DOMAIN labels :
                      \A k \in DOMAIN labels : Count(labels[i]) >= Count(labels[k])})
  IN  labels[first]

\* statistics.median: the middle one of the scores in order, or the mean of
\* the two in the middle.
Median(scores) ==
  LET n == Cardinality(DOMAIN scores)
      NotAbove(s) == Cardinality({j \in DOMAIN scores : scores[j] <= s})
      Ranked(k) == Min({s \in Range(scores) : NotAbove(s) >= k})
  IN  IF n % 2 = 1 THEN Ranked((n + 1) \div 2)
      ELSE (Ranked(n \div 2) + Ranked(n \div 2 + 1)) \div 2

\* (Faulty variant: a judge that raised counts as one more vote to pass.)
MajorityVote_RaisedPasses(ballots) ==
  LET verdicts == [i \in DOMAIN ballots |-> IF ballots[i] = RaisedCall THEN PassVerdict
                                            ELSE ballots[i].verdict]
  IN  Report("majority", MostCommon(verdicts), NoScore, 100, TRUE, NoAnswer)

\* Judges that raised are left out of the vote and lower the confidence.
MajorityVote(ballots) ==
  LET valid == {i \in DOMAIN ballots : ballots[i] # RaisedCall}
      verdicts == [i \in valid |-> ballots[i].verdict]
      scores == [i \in {i \in valid : ballots[i].score # NoScore} |-> ballots[i].score]
  IN  IF valid = {} THEN [Synthetic("majority_vote_failed") EXCEPT !.confidence = 0]
      ELSE Report("majority", MostCommon(verdicts),
                  IF DOMAIN scores = {} THEN NoScore ELSE Median(scores),
                  (Cardinality(valid) * 100) \div Cardinality(DOMAIN ballots), TRUE, NoAnswer)

-----------------------------------------------------------------------------
(* Selection over a history of attempts [.., audit] *)

ScoreOf(history, i) == history[i].audit.score

\* select_best_attempt: max by (score, index).
SelectBestAttempt(history) ==
  FoldLeft(LAMBDA best, i : IF ScoreOf(history, i) >= ScoreOf(history, best) THEN i ELSE best,
           1, [i \in 1..Len(history) |-> i])

SameAnswer(a, b) == a = b \/ <<a, b>> \in Equivalent

\* An attempt joins the first bucket whose head it agrees with, or opens one.
PlaceInBucket(history, buckets, i) ==
  LET hits == {k \in DOMAIN buckets :
                 SameAnswer(history[i].audit.answer, history[buckets[k][1]].audit.answer)}
  IN  IF hits = {} THEN Append(buckets, <<i>>)
      ELSE [buckets EXCEPT ![Min(hits)] = Append(@, i)]

\* -inf absorbs every other score of its bucket.
BucketSum(history, b) ==
  IF \E k \in DOMAIN b : history[b[k]].audit.score = NoScore THEN NoScore
  ELSE FoldLeft(LAMBDA s, i : s + history[i].audit.score, 0, b)

BucketBeats(history, a, b) ==
  LET sa == BucketSum(history, a) sb == BucketSum(history, b)
  IN  sa > sb \/ (sa = sb /\ Len(a) > Len(b))

\* select_by_answer_consensus: the index it returns.
SelectByAnswerConsensus(history) ==
  LET valid == SelectSeq([i \in 1..Len(history) |-> i], LAMBDA i : history[i].audit.answer # NoAnswer)
      buckets == FoldLeft(LAMBDA acc, i : PlaceInBucket(history, acc, i), <<>>, valid)
      winner == buckets[Min({k \in DOMAIN buckets : \A j \in DOMAIN buckets :
                               ~BucketBeats(history, buckets[j], buckets[k])})]
  IN  IF valid = <<>> THEN SelectBestAttempt(history)
      ELSE winner[SelectBestAttempt([k \in DOMAIN winner |-> history[winner[k]]])]

-----------------------------------------------------------------------------
(* Composed verifiers and the bridge to the cycle's reports. A composer asks *)
(* its members one after the other or all at once; MoreCalls says whether    *)
(* the next member is asked, and Composed what the answers collected so far  *)
(* amount to.                                                                *)

CONSTANTS
  Members,        \* the number of composed verifiers
  Aggregator,     \* Ensemble's aggregator
  Confident       \* Cascade's confidence_threshold, in percent

\* What the composers' constructors accept.
ValidComposer ==
  /\ Members \in Nat \ {0}
  /\ Aggregator \in {"majority", "median", "min", "mean", "max"}
  /\ Confident \in 0..100

ASSUME ComposerAssumption == ValidComposer

NoLabel == "none" \* no _cycle_verdict in the metadata

Verdict(passed, score, label, answer, findings) ==
  [passed |-> passed, score |-> score, label |-> label, answer |-> answer,
   findings |-> findings]

\* verdict_from_audit_report; the answer a consensus compares is the score.
VerdictFromAuditReport(a) ==
  Verdict(a.verdict = "success", a.confidence, a.verdict, a.score, a.findings)

\* audit_report_from_verdict: a label that came through the bridge wins over
\* `passed'; a composer's own verdict has none.
AuditReportFromVerdict(v) ==
  Report("composed",
         IF v.label # NoLabel THEN v.label ELSE IF v.passed THEN "success" ELSE "iterate",
         IF v.label # NoLabel THEN v.answer ELSE NoScore,
         IF v.score = NoScore THEN 0 ELSE v.score, v.findings, NoAnswer)

Sequential == {"bare", "pipeline", "fallback", "cascade"}
Gathered == {"majority", "ensemble", "parallel", "consensus"}
\* gather(return_exceptions=True): a member that raises is left out.
Tolerant == {"majority", "consensus"}

ConfidentEnough(v) == v.score # NoScore /\ v.score >= Confident

\* Does the composer ask the next member, given the verdicts so far?
MoreCalls(mode, n, got) ==
  \/ mode \in Gathered /\ n < Members
  \/ mode = "bare" /\ n < 1
  \/ mode = "pipeline" /\ n < Members /\ \A i \in DOMAIN got : got[i].passed
  \/ mode = "fallback" /\ n < Members /\ \A i \in DOMAIN got : ~got[i].passed
  \/ mode = "cascade" /\ n < 2 /\ \A i \in DOMAIN got : ~ConfidentEnough(got[i])

Composite(passed, score, answer, findings) == Verdict(passed, score, NoLabel, answer, findings)

\* The member that answered last.
Latest(got) == got[Max(DOMAIN got)]

Pipeline(got) == Composite(Latest(got).passed, NoScore, NoScore, FALSE)

Fallback(got) ==
  Composite(Latest(got).passed, IF Latest(got).passed THEN Latest(got).score ELSE NoScore, NoScore, FALSE)

Cascade(got) == Composite(Latest(got).passed, Latest(got).score, NoScore, FALSE)

Parallel(got) == Composite(\A i \in DOMAIN got : got[i].passed, NoScore, NoScore, FALSE)

Aggregate(got) ==
  LET scores == [i \in {i \in DOMAIN got : got[i].score # NoScore} |-> got[i].score]
  IN  IF DOMAIN scores = {} THEN NoScore
      ELSE CASE Aggregator = "min" -> Min(Range(scores))
             [] Aggregator = "max" -> Max(Range(scores))
             [] Aggregator = "mean" -> SumFunction(scores) \div Cardinality(DOMAIN scores)
             [] OTHER -> Median(scores)

Ensemble(got) ==
  LET passes == Cardinality({i \in DOMAIN got : got[i].passed})
      asked == Cardinality(DOMAIN got)
  IN  Composite(IF Aggregator = "majority" THEN passes * 2 > asked ELSE passes = asked,
                Aggregate(got), NoScore, FALSE)

\* ConsensusVerifier: a strict majority of the members that answered at all.
Consensus(got) ==
  LET valid == Cardinality(DOMAIN got)
      answers == [i \in {i \in DOMAIN got : got[i].answer # NoScore} |-> got[i].answer]
      top == MostCommon(answers)
      votes == Cardinality({i \in DOMAIN answers : answers[i] = top})
  IN  IF DOMAIN answers = {}
      THEN Composite(FALSE, NoScore, NoScore, valid < Members \/ valid # 0)
      ELSE Composite(votes * 2 > valid, NoScore, top, valid < Members)

Composed(mode, got) ==
  CASE mode = "pipeline" -> Pipeline(got)
    [] mode = "fallback" -> Fallback(got)
    [] mode = "cascade" -> Cascade(got)
    [] mode = "parallel" -> Parallel(got)
    [] mode = "ensemble" -> Ensemble(got)
    [] mode = "consensus" -> Consensus(got)
=============================================================================
