---------------------------- MODULE MCAgentLoop -----------------------------
\* One fan-in tool, one landing tool, one ordinary tool.
EXTENDS AgentLoop

R(calls, native, end) ==
  [calls |-> calls, native |-> native, end |-> end, leak |-> FALSE, over |-> FALSE,
   reset |-> FALSE]

MCTools == {"work", "land", "collect"}
MCReplies ==
  {R(<<"work", "collect">>, TRUE, "stop"),
   R(<<"unknown", "land", "work">>, TRUE, "stop"),
   R(<<"unknown">>, TRUE, "stop"),
   R(<<"land", "work">>, FALSE, "stop"),
   R(<<>>, TRUE, "stop"),
   R(<<>>, TRUE, "length"),
   R(<<>>, TRUE, "runaway"),
   R(<<"work">>, TRUE, "refused"),
   [R(<<>>, TRUE, "stop") EXCEPT !.leak = TRUE],
   [R(<<"work">>, TRUE, "stop") EXCEPT !.over = TRUE],
   [R(<<"work">>, TRUE, "stop") EXCEPT !.reset = TRUE]}

MCHostBefore == {NoIntervention, [NoIntervention EXCEPT !.inject = 1, !.stop = TRUE]}
MCHostInterrupt == {NoIntervention, [NoIntervention EXCEPT !.inject = 1]}
MCHostReply ==
  {NoIntervention,
   [NoIntervention EXCEPT !.skip = TRUE],
   [NoIntervention EXCEPT !.pop = TRUE, !.cont = TRUE]}
MCHostTurnEnd ==
  {NoIntervention,
   [NoIntervention EXCEPT !.inject = 1, !.pop = TRUE, !.cont = TRUE]}
\* No host observer intervenes.
MCNoHost == {NoIntervention}
MCVisible == {{"work", "land"}}
=============================================================================
