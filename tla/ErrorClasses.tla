---------------------------- MODULE ErrorClasses ----------------------------
(* runtime/retriable.py: what an exception of a provider means for the call  *)
(* that met it. An error is what its text says (the groups of patterns that  *)
(* match it) and its status_code, 0 if it carries none.                      *)
EXTENDS Naturals, FiniteSets, Sequences

Signals == {"overload", "credit", "rate", "context", "network", "truncated",
            "stall", "safety", "model", "auth", "empty"}

IsError(e) == e.signals \subseteq Signals /\ e.status \in 0..599

\* _stringify appends the status, and four groups have a pattern for a number.
StatusSignals(s) ==
  {g \in Signals : <<g, s>> \in {<<"overload", 529>>, <<"credit", 402>>,
                                 <<"rate", 429>>, <<"auth", 401>>}}

Stringify(e) == e.signals \cup StatusSignals(e.status)

IsOverloadedError(e) == "overload" \in Stringify(e)
IsCreditExhausted(e) == "credit" \in Stringify(e)
IsRateLimited(e) == "rate" \in Stringify(e)
IsContextLengthError(e) == "context" \in Stringify(e)
IsStreamStall(e) == "stall" \in Stringify(e)
IsSafetyFilter(e) == "safety" \in Stringify(e)
IsModelUnavailable(e) == "model" \in Stringify(e)
IsAuthFailure(e) == "auth" \in Stringify(e)
IsEmptyCompletion(e) == "empty" \in Stringify(e)
IsTruncatedStream(e) == "truncated" \in Stringify(e)

\* A 5xx or a network text, unless a class that has another answer claims it.
IsTransientNetwork(e) ==
  /\ ~(IsStreamStall(e) \/ IsTruncatedStream(e) \/ IsOverloadedError(e) \/ IsModelUnavailable(e))
  /\ e.status \in 500..599 \/ "network" \in Stringify(e)

IsRetriableWithFallback(e) ==
  \/ IsOverloadedError(e) \/ IsCreditExhausted(e) \/ IsSafetyFilter(e)
  \/ IsModelUnavailable(e) \/ IsAuthFailure(e) \/ IsEmptyCompletion(e)
  \/ IsTruncatedStream(e) \/ IsStreamStall(e)

\* call_llm: the signals a second sample on the same key may clear.
ResampleMayRecover(e) == IsOverloadedError(e) \/ IsEmptyCompletion(e) \/ IsTruncatedStream(e)

\* The statuses that end a call, and the one a gateway wraps a passing failure in.
NonTransient(e) ==
  e.status \in {400, 401, 403, 404} /\ ~(e.status = 400 /\ IsTransientNetwork(e))
=============================================================================
