----------------------------- MODULE MCLLMProxy -----------------------------
(* A streaming and a plain caller on one proxy. *)
EXTENDS LLMProxy

MCArgs ==
  [c \in {"stream", "chat"} |->
     IF c = "stream"
     THEN [stream |-> TRUE, calls |-> 1, scopes |-> {<<"t1", "a">>}]
     ELSE [stream |-> FALSE, calls |-> 2, scopes |-> {<<"t1", "a">>, <<"t2", "a">>}]]

MCTexts == {<<1>>, <<2, 1, 2, 1, 2, 1, 2>>}
=============================================================================
