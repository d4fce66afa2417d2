-------------------------- MODULE MCProviderTurns --------------------------
(* Small instances of ProviderTurns for TLC. *)
EXTENDS ProviderTurns

Reply(blocks) == [blocks |-> blocks, hides |-> FALSE]
Unopened(blocks) == [blocks |-> blocks, hides |-> TRUE]
T == Text(0)
K == Think(0)
R == Redacted(0)
C == Call(0, TRUE, "object")
Broken == Call(0, TRUE, "broken")
Nameless == Call(0, FALSE, "object")

MCTemplates ==
  [anthropic |-> {Reply(<<>>), Reply(<<T>>), Reply(<<K, C, K, C>>), Reply(<<R, C, Nameless>>),
                  Unopened(<<K, T, C>>)},
   responses |-> {Reply(<<>>), Reply(<<K, T, Broken>>), Reply(<<R, Nameless, K, C>>),
                  Unopened(<<T, C, C>>)},
   chat |-> {Reply(<<>>), Reply(<<K, T>>), Reply(<<T, Broken, Nameless, C>>)}]

Plain == [p |-> "anthropic", wrap |-> "none", streams |-> {}, turns |-> 4,
          keep |-> FALSE, strict |-> TRUE]
Streaming == [Plain EXCEPT !.streams = {1}, !.turns = 2]

MCStacks ==
  {Plain, [Plain EXCEPT !.p = "responses", !.turns = 3],
   [Plain EXCEPT !.p = "chat", !.turns = 3, !.keep = TRUE, !.wrap = "cooldown"],
   Streaming, [Streaming EXCEPT !.p = "responses", !.wrap = "chain"],
   [Streaming EXCEPT !.p = "chat", !.wrap = "cooldown"],
   [Streaming EXCEPT !.wrap = "chain", !.turns = 1, !.strict = FALSE]}
=============================================================================
