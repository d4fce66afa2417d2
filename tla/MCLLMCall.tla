----------------------------- MODULE MCLLMCall -----------------------------
(* A streaming call with everything its provider can do to it, and a plain  *)
(* one beside it, on a gate of one slot.                                    *)
EXTENDS LLMCall

Error(signals, status) == [signals |-> signals, status |-> status]

\* One error per branch, and the shapes the branches could confuse: a number
\* that is also a text, a gateway's 400, an overflow without a status, a refusal
\* that comes as a 5xx.
MCErrors ==
  {Error({}, 529), Error({"model"}, 503), Error({"safety"}, 400), Error({}, 402),
   Error({}, 403), Error({}, 429), Error({"network"}, 400), Error({"context"}, 400),
   Error({"context"}, 0), Error({"empty"}, 0)}

MCArgs ==
  [c \in {"stream", "chat"} |->
     IF c = "stream"
     THEN [timeout |-> 3, retries |-> 3, deadline |-> 4, stream |-> TRUE, chain |-> TRUE,
           empties |-> 1, legs |-> 2, advance |-> {1},
           outcomes |-> Responses \cup {"empty"} \cup Closing, errors |-> MCErrors]
     ELSE [timeout |-> 1, retries |-> 2, deadline |-> Unbounded, stream |-> FALSE,
           chain |-> FALSE, empties |-> 0, legs |-> 1, advance |-> {},
           outcomes |-> {"ok", "empty"},
           errors |-> {Error({"overload"}, 503), Error({"safety"}, 400)}]]
=============================================================================
