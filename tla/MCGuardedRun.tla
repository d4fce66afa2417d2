---------------------------- MODULE MCGuardedRun ----------------------------
(* Instances for GuardedRun: one configuration per group of guards.        *)
EXTENDS GuardedRun

CONSTANTS t1, t2

MCThreads == {t1, t2}

Fetch(hosts) == [tool |-> "fetch", urls |-> hosts, named |-> {"b"}]
Search(named) == [tool |-> "search", urls |-> {}, named |-> named]
Bash(hosts) == [tool |-> "bash", urls |-> hosts, named |-> {}]
Download(hosts) == [tool |-> "download", urls |-> hosts, named |-> {}]
Local == [tool |-> "local", urls |-> {}, named |-> {}]

MCTransparent == {"proxy"}
TargetBatches == {<<Fetch({"a", "proxy"})>>, <<Fetch({"b"})>>, <<Fetch({"a", "b"})>>,
                  <<Bash({"a"})>>, <<Bash({})>>, <<Download({"a", "b"})>>,
                  <<Fetch({"a"}), Search({"a"})>>}
RailsBatches == {<<Fetch({"a"})>>, <<Search({"a"})>>, <<Fetch({"a"}), Fetch({"a"})>>}
RepeatBatches == {NoCalls, <<Local>>, <<Bash({})>>}

MCResultBodies == {"error", "weak", "httpfail", "content"}
MCResultBlocks == {{}, {[host |-> "a", body |-> "failure"]},
                   {[host |-> "a", body |-> "failure"], [host |-> "b", body |-> "content"]},
                   {[host |-> "a", body |-> "failure"], [host |-> "a", body |-> "content"],
                    [host |-> "b", body |-> "weak"]}}

Conf(kind, watch, batches) ==
  [kind |-> kind, watch |-> watch, batches |-> batches, maxTurns |-> 5, settings |-> NoSettings,
   leased |-> FALSE, maxSession |-> NoTime, budget |-> 0]

WallSettings ==
  {[NoSettings EXCEPT !.research = r, !.total = tot, !.envResearch = er, !.envTotal = et,
                      !.legacyTotal = lt, !.reserve = rs, !.envReport = ep] :
     r \in {Unset, Junk, Seconds(3)}, tot \in {Unset, Seconds(8)}, er \in {Unset, Seconds(4)},
     et \in {Unset, Seconds(0), Seconds(6)}, lt \in {Unset, Seconds(8)},
     rs \in {Junk, Seconds(2)}, ep \in {Unset, Seconds(2)}}

MCConfs ==
  {[Conf("root", {"wall"}, {<<Local>>}) EXCEPT !.settings = s, !.leased = TRUE, !.maxTurns = 3] :
     s \in WallSettings}
  \cup {[Conf("root", {"wall"}, {<<Local>>}) EXCEPT !.settings.total = Seconds(8), !.leased = TRUE,
                                                   !.maxSession = 9, !.maxTurns = 3]}
  \cup {[Conf("sub", {"wall"}, {NoCalls, <<Local>>}) EXCEPT !.budget = b, !.leased = l, !.maxTurns = 2] :
          b \in {6, 10}, l \in BOOLEAN}
  \cup {Conf("sub", {"stuck"}, TargetBatches), Conf("sub", {"stuck", "rails"}, RailsBatches),
        Conf("sub", {"repeat"}, RepeatBatches), Conf("sub", {"budget"}, {NoCalls}),
        [Conf("sub", {"budget"}, {NoCalls}) EXCEPT !.maxTurns = 3],
        Conf("sub", {"history"}, {})}

MCTexts == {{}, {1, 2, 3}, {1, 2, 4}, {5, 6}}
MCStuck == StuckThresholds(1, 3, 3)
MCRepeat == [threshold |-> 2, stopAfter |-> 2]
MCTextRule == [window |-> 2, simNum |-> 1, simDen |-> 2, minShingles |-> 2, injectAfter |-> 2,
               stopAfter |-> 3, enableStop |-> TRUE]
MCRails == [duplicates |-> 2, window |-> 3, searchWarn |-> 2, loopHints |-> 1]

Message(role, calls, id, size) == [role |-> role, calls |-> calls, id |-> id, size |-> size]
ACall(id, complete) == [id |-> id, complete |-> complete]
MCMessages ==
  {Message("system", <<>>, NoId, 3), Message("system", <<>>, NoId, 1), Message("user", <<>>, NoId, 2), Message("nudge", <<>>, NoId, 1),
   Message("assistant", <<>>, NoId, 4), Message("assistant", <<>>, NoId, 0),
   Message("assistant", <<ACall("x", TRUE)>>, NoId, 0),
   Message("assistant", <<ACall("x", TRUE), ACall("y", TRUE)>>, NoId, 1),
   Message("assistant", <<ACall("x", TRUE), ACall("x", TRUE)>>, NoId, 0),
   Message("assistant", <<ACall("x", FALSE)>>, NoId, 0),
   Message("tool", <<>>, "x", 2), Message("tool", <<>>, "y", 1), Message("junk", <<>>, NoId, 0)}
=============================================================================
