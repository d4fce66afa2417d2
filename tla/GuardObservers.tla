--------------------------- MODULE GuardObservers ---------------------------
(***************************************************************************)
(* The observers that watch a loop for lack of progress, as functions from *)
(* the guard's state and the turn to its next state and intervention       *)
(* (components/observers), and the duplicate-call middleware               *)
(* (runtime/loop/guardrails.py).  A call is a tool class, the hosts of its *)
(* URLs and the hosts its other text names; a result is the class its body *)
(* falls in for the guard's patterns.                                      *)
(***************************************************************************)
EXTENDS Integers, Sequences, FiniteSets, SequencesExt

----------------------------------------------------------------------------
(* StuckTargetGuard: what a result says about its target. *)

Bodies == {"error", "empty", "weak", "noresult", "failure", "httpfail", "markup", "content"}

IsNetworkTool(tool) == tool \in {"fetch", "search", "download", "bash"}

\* A reader or archive host stands for the page behind it and is dropped; a
\* fetch reads only its url arguments, a search its words as well.
HostsFor(call, transparent) ==
  CASE ~IsNetworkTool(call.tool) -> {}
    [] call.tool = "search" -> (call.urls \cup call.named) \ transparent
    [] OTHER -> call.urls \ transparent

\* (Faulty variant: the refusal reads as ordinary content.)
RefusedBody_Content == "content"

\* The body of a call the guard itself, or the middleware, refused: its
\* marker is one of the failure lines.
RefusedBody == "failure"

ResultVerdict(tool, body) ==
  CASE body = "weak" -> "soft"
    [] body \in {"error", "empty", "noresult", "failure"} ->
         IF tool = "search" THEN "soft" ELSE "hard"
    [] tool = "bash" /\ body = "httpfail" -> "hard"
    [] tool = "bash" /\ body = "markup" -> "neutral"
    [] OTHER -> IF tool \in {"fetch", "download"} THEN "ok" ELSE "neutral"

\* One useful page vouches for its host; otherwise the worst outcome counts.
MergeVerdicts(verdicts) ==
  CASE "ok" \in verdicts -> "ok"
    [] "ok" \notin verdicts /\ "hard" \in verdicts -> "hard"
    [] verdicts \cap {"ok", "hard"} = {} /\ "soft" \in verdicts -> "soft"
    [] OTHER -> "neutral"

\* _host_verdicts: a batched fetch is read one numbered block at a time, and
\* a combined result of another tool is too vague to quarantine on.
HostVerdicts(tool, hosts, result) ==
  LET verdict == ResultVerdict(tool, result.body)
      blocksOf(h) == {b \in result.blocks : b.host = h}
  IN  IF Cardinality(hosts) <= 1 THEN [h \in hosts |-> verdict]
      ELSE IF tool = "fetch"
      THEN [h \in {h \in hosts : blocksOf(h) # {}} |->
              MergeVerdicts({ResultVerdict(tool, b.body) : b \in blocksOf(h)})]
      ELSE [h \in hosts |-> IF verdict = "hard" THEN "soft" ELSE verdict]

----------------------------------------------------------------------------
(* StuckTargetGuard: hints, then quarantine.  t holds its thresholds.      *)

StuckInit == [recent |-> <<>>, fired |-> {}, blocked |-> {}]

\* The floors __init__ puts under its arguments.
StuckThresholds(hintAfter, escalateAfter, window) ==
  LET hint == IF hintAfter < 2 THEN 2 ELSE hintAfter
      block == IF escalateAfter < hint + 1 THEN hint + 1 ELSE escalateAfter
  IN  [hint |-> hint, block |-> block, window |-> IF window < block THEN block ELSE window]

Skipped(g, hosts) == hosts \cap g.blocked # {}

\* Whether a result makes the turn a network turn, which ages the window.
CountsAsNetwork(call, hosts) == IsNetworkTool(call.tool) /\ (call.tool = "bash" => hosts # {})

ResetHosts(g, hosts) ==
  [recent |-> [i \in DOMAIN g.recent |->
                 [hard |-> g.recent[i].hard \ hosts, soft |-> g.recent[i].soft \ hosts]],
   fired |-> {f \in g.fired : f[1] \notin hosts},
   blocked |-> g.blocked \ hosts]

HardCount(recent, h) == Cardinality({i \in DOMAIN recent : h \in recent[i].hard})
AnyCount(recent, h) == Cardinality({i \in DOMAIN recent : h \in recent[i].hard \cup recent[i].soft})
CountFor(kind, recent, h) == IF kind = "block" THEN HardCount(recent, h) ELSE AnyCount(recent, h)

\* on_turn_end of a network turn: the guard states it may end in, with what
\* it injects.  Among hosts over the threshold the most failing one is
\* served, ties in no particular order, and one intervention is made a turn.
StuckTurnEnd(g, t, hard, soft, ok) ==
  LET reset == ResetHosts(g, ok)
      failed == [hard |-> hard \ ok, soft |-> soft \ (ok \cup hard)]
      grown == Append(reset.recent, failed)
      recent == IF Len(grown) > t.window THEN Tail(grown) ELSE grown
      hosts == UNION {recent[i].hard \cup recent[i].soft : i \in DOMAIN recent}
      threshold(kind) == IF kind = "block" THEN t.block ELSE t.hint
      fired == {f \in reset.fired : \/ f[1] \in reset.blocked
                                    \/ CountFor(f[2], recent, f[1]) >= threshold(f[2])}
      due(kind) == {h \in hosts : /\ CountFor(kind, recent, h) >= threshold(kind)
                                  /\ <<h, kind>> \notin fired}
      first(kind) == {h \in due(kind) : \A o \in due(kind) :
                        CountFor(kind, recent, h) >= CountFor(kind, recent, o)}
      kinds == {k \in {"block", "hint"} : due(k) # {}}
      kind == IF "block" \in kinds THEN "block" ELSE "hint"
      g1 == [recent |-> recent, fired |-> fired, blocked |-> reset.blocked]
  IN  IF kinds = {} THEN {[g |-> g1, inject |-> 0]}
      ELSE {[g |-> [g1 EXCEPT !.fired = @ \cup {<<h, kind>>},
                              !.blocked = IF kind = "block" THEN @ \cup {h} ELSE @],
             inject |-> 1] : h \in first(kind)}

----------------------------------------------------------------------------
(* RepetitionGuard: identical turns in a row.  sig is NoCalls for a turn   *)
(* without tool calls.                                                     *)

NoCalls == <<>>
RepetitionInit == [sig |-> NoCalls, streak |-> 0]
HintThreshold(threshold) == IF threshold < 2 THEN 2 ELSE threshold

StopThreshold(threshold, stopAfter) ==
  IF stopAfter = 0 THEN 0
  ELSE IF stopAfter < HintThreshold(threshold) + 1 THEN HintThreshold(threshold) + 1 ELSE stopAfter

RepetitionTurnEnd(g, sig, threshold, stopAfter) ==
  LET n == g.streak + 1
      hint == HintThreshold(threshold)
      stop == StopThreshold(threshold, stopAfter)
      stops == stop > 0 /\ n >= stop
  IN  IF sig = NoCalls THEN [g |-> RepetitionInit, stop |-> FALSE, hint |-> FALSE]
      ELSE IF sig # g.sig THEN [g |-> [sig |-> sig, streak |-> 1], stop |-> FALSE, hint |-> FALSE]
      ELSE [g |-> [sig |-> sig, streak |-> n], stop |-> stops,
            hint |-> ~stops /\ n >= hint /\ n % hint = 0]

----------------------------------------------------------------------------
(* TextRepetitionGuard: a text is its set of shingles; texts of fewer than *)
(* minShingles are too short to be looked at.  Similarity is at least      *)
(* simNum / simDen.                                                        *)

TextInit == [history |-> <<>>, streak |-> 0, hinted |-> FALSE]

Similar(a, b, simNum, simDen) ==
  \/ a = {} /\ b = {}
  \/ a # {} /\ b # {} /\ Cardinality(a \cap b) * simDen >= Cardinality(a \cup b) * simNum

TextTurnEnd(g, text, t) ==
  LET matched == \E i \in DOMAIN g.history : Similar(text, g.history[i], t.simNum, t.simDen)
      grown == Append(g.history, text)
      history == IF Len(grown) > t.window THEN Tail(grown) ELSE grown
      n == g.streak + 1
      stops == t.enableStop /\ n >= t.stopAfter
      hints == ~stops /\ n >= t.injectAfter /\ ~g.hinted
  IN  IF Cardinality(text) < t.minShingles THEN [g |-> g, stop |-> FALSE, hint |-> FALSE]
      ELSE IF ~matched
      THEN [g |-> [history |-> history, streak |-> 1, hinted |-> FALSE], stop |-> FALSE, hint |-> FALSE]
      ELSE [g |-> [history |-> history, streak |-> n, hinted |-> g.hinted \/ hints],
            stop |-> stops, hint |-> hints]

----------------------------------------------------------------------------
(* The notices of a run nearing its turn or token budget. *)

\* ConcludePhaseObserver, at concludeNum / concludeDen of the turns.
ConcludeFires(fired, turn, maxTurns, num, den) == ~fired /\ maxTurns > 0 /\ turn * den >= maxTurns * num

\* FinalizationReserveObserver.
ReserveFires(fired, turn, maxTurns, reserveTurns) ==
  LET reserve == IF reserveTurns < 1 THEN 1 ELSE reserveTurns
      trigger == IF maxTurns - reserve < 2 THEN 2 ELSE maxTurns - reserve
  IN  trigger < maxTurns - 1 /\ ~fired /\ turn >= trigger

\* BudgetObserver, with its warning at warnNum / warnDen of the tokens.
BudgetTurnEnd(used, warned, maxTokens, warnNum, warnDen) ==
  LET stop == maxTokens > 0 /\ used >= maxTokens
      warn == maxTokens > 0 /\ ~stop /\ used * warnDen >= maxTokens * warnNum /\ ~warned
  IN  [stop |-> stop, warn |-> warn]

\* TaskBoardObserver: last is NeverFired until the board was shown.
NeverFired == -10000
BoardFires(last, turn, cooldown, boardSize) ==
  boardSize > 0 /\ turn - last >= (IF cooldown < 1 THEN 1 ELSE cooldown)

----------------------------------------------------------------------------
(* GuardrailsMiddleware, for one task. *)

RailsInit == [recent |-> <<>>, searches |-> 0, warned |-> FALSE, hints |-> 0]

\* How many of the latest calls are identical to this one.
Consecutive(recent, call) ==
  Cardinality({i \in DOMAIN recent : \A j \in i..Len(recent) : recent[j] = call})

\* before_tool_call: a duplicate over the threshold is refused and not
\* recorded; after enough loop hints any call seen before is refused too.
BeforeToolCall(r, call, t) ==
  LET duplicate == Consecutive(r.recent, call) >= t.duplicates
      grown == Append(r.recent, call)
      searches == r.searches + (IF call.tool = "search" THEN 1 ELSE 0)
  IN  IF call.tool = "ignored" THEN [r |-> r, block |-> FALSE]
      ELSE IF duplicate THEN [r |-> r, block |-> TRUE]
      ELSE [r |-> [r EXCEPT !.recent = IF Len(grown) > t.window THEN Tail(grown) ELSE grown,
                            !.searches = searches,
                            !.warned = @ \/ (call.tool = "search" /\ searches >= t.searchWarn)],
            block |-> r.hints >= t.loopHints /\ \E i \in DOMAIN r.recent :
                        /\ r.recent[i] = call
                        /\ Len(grown) > t.window => i > 1]
=============================================================================
