------------------------------ MODULE LLMCall ------------------------------
(* call_llm: logical LLM calls that retry physical requests under a deadline *)
(* and share the process-wide concurrency gate.                              *)
(*                                                                           *)
(* Time is discrete and relative: `left` is what remains of a call's nearest *)
(* deadline, `timer` what remains of what it waits for, `room` what remains  *)
(* of the generation budget of the slot it holds. Tick counts them down, and *)
(* no timer is passed over.                                                  *)
EXTENDS Integers, Sequences, SequencesExt, FiniteSetsExt, ErrorClasses

CONSTANTS
  Calls,           \* the logical calls
  Args,            \* per call: timeout, retries, deadline, stream, chain, empties,
                   \* legs, advance (legs whose triggers match an empty completion),
                   \* outcomes and errors (what the provider may do to it)
  Gate,            \* LLM_MAX_CONCURRENT
  GateWait,        \* LLM_GATE_WAIT_S; 0 disables it
  Floor,           \* _WALL_DEADLINE_FLOOR_S
  RecoveryMin,     \* _STREAM_RECOVERY_MIN_TIMEOUT_S
  Backoff,         \* _transient_backoff
  RateBackoff,     \* the wait after a 429
  RunawayBackoff,  \* _RUNAWAY_BACKOFF_S
  RunawayMax,      \* _RUNAWAY_MAX_RETRIES
  StallMax,        \* LLM_STREAM_STALL_MAX
  Grace,           \* _CLEANUP_TIMEOUT_S: bound on closing a stream
  Obs              \* _OBSERVATION_TIMEOUT_S: bound on an attempt callback

Unbounded == 1000  \* no deadline stamped
Never == -1        \* a wait with no timer

\* Outcomes of a request besides an exception of the provider: a complete
\* response, no content, or a stream its watchdogs stop.
Responses == {"ok", "invalid", "runaway"}
Closing == {"early", "stall"}

ASSUME LLMCallAssumption ==
  /\ IsFiniteSet(Calls) /\ Gate \in Nat \ {0}
  /\ {Floor, RecoveryMin} \subseteq Nat \ {0}
  /\ {GateWait, Backoff, RateBackoff, RunawayBackoff, RunawayMax, StallMax, Grace, Obs}
       \subseteq Nat
  /\ Obs <= Floor
  /\ \A c \in Calls :
       /\ Args[c].retries \in Nat \ {0} /\ Args[c].timeout \in Nat \ {0}
       /\ Args[c].empties \in Nat /\ Args[c].deadline \in 0..Unbounded
       /\ Args[c].legs \in Nat \ {0} /\ Args[c].advance \subseteq 1..(Args[c].legs - 1)
       /\ Args[c].outcomes \subseteq Responses \cup {"empty"}
                           \cup (IF Args[c].stream THEN Closing ELSE {})
       /\ \A e \in Args[c].errors : IsError(e)

VARIABLES
  slots,    \* free permits of the gate's semaphore
  queue,    \* calls waiting in gate.acquire, in order
  call,     \* the local state of each call
  orphans   \* leases kept open by abandoned requests still unwinding: <<call, request>>

vars == <<slots, queue, call, orphans>>

\* Every request index a call can use: each pass of the loop sends at most a
\* request and its replay; a pass is a generic attempt or an empty completion.
MaxRequests(c) == 2 * (Args[c].retries - 1 + (Args[c].empties + 1) * Args[c].legs)

Fresh(c) ==
  [pc |-> "idle", left |-> 0, timer |-> 0, room |-> 0, budget |-> 0,
   attempt |-> 0, phys |-> 0, index |-> 0, replay |-> 0, clamped |-> FALSE,
   empties |-> 0, stalls |-> 0, spent |-> 0, phase |-> 0, leg |-> 1, after |-> "none",
   finished |-> [i \in 1..MaxRequests(c) |-> 0],
   delivered |-> 0, source |-> 0, futile |-> 0, result |-> "none"]

Init ==
  /\ slots = Gate
  /\ queue = <<>>
  /\ call = [c \in Calls |-> Fresh(c)]
  /\ orphans = {}

-----------------------------------------------------------------------------
(* Steps on a call's local state *)

Becomes(c, r) == call' = [call EXCEPT ![c] = r]

\* _finish_attempt: the finished event of physical request i.
Finish(r, i) == [r EXCEPT !.finished[i] = @ + 1]

\* What an attempt leaves behind when the loop goes round.
Rested(r) == [r EXCEPT !.timer = 0, !.room = 0, !.budget = 0, !.index = 0, !.replay = 0,
                       !.clamped = FALSE, !.after = "none"]

End(r, why) ==
  [Rested(r) EXCEPT !.pc = "ended", !.result = why, !.left = 0, !.attempt = 0,
                    !.empties = 0, !.stalls = 0, !.spent = 0, !.phase = 0, !.leg = 1,
                    !.futile = 0]

Raise(r, why) == End(Finish(r, r.index), why)

\* The response of request s is returned, its attempt closed as delivered.
Deliver(r, s) == [Raise(r, "response") EXCEPT !.delivered = r.index, !.source = s]

\* _effective_timeout_or_deadline_exhausted
Refused(c, r) == r.left < Args[c].timeout /\ r.left < Floor
Effective(c, r) == Min({Args[c].timeout, r.left})

\* The slot goes back to the semaphore.
Release == slots' = slots + 1 /\ UNCHANGED orphans

\* (Faulty variant: the slot is returned when the block exits.)
Abandon_Releases(c) == orphans' = orphans \cup {<<c, call[c].phys>>} /\ slots' = slots + 1

\* hold_until_settled: the lease outlives its block until the request, the last
\* one the call sent, settles.
Abandon(c) == orphans' = orphans \cup {<<c, call[c].phys>>} /\ UNCHANGED slots

Keep == UNCHANGED <<slots, orphans>>

-----------------------------------------------------------------------------
(* What an attempt's end leads to *)

\* The attempt is discarded and the backoff slept; its finished event may take
\* the observation bound as well.
Again(c, r, wait) ==
  \E d \in 0..Obs :
    Becomes(c, [Rested(Finish(r, r.index)) EXCEPT !.pc = "sleep", !.timer = wait + d])

\* A backoff that would not leave the floor of the deadline is not slept.
Resample(c, r, wait) ==
  \/ wait + Floor > r.left /\ Becomes(c, Raise(r, "deadline"))
  \/ wait + Floor <= r.left /\ Again(c, r, wait)

LastAttempt(c, r) == r.attempt = Args[c].retries - 1

Retry(c, r, wait) ==
  \/ ~LastAttempt(c, r) /\ Resample(c, [r EXCEPT !.attempt = @ + 1], wait)
  \/ LastAttempt(c, r) /\ Becomes(c, Raise(r, "exhausted"))

\* advance_empty_completion: the serving entry's triggers match the blank and an
\* entry follows it.
AdvanceEmptyCompletion(c, r) == r.leg \in Args[c].advance

\* _recover_empty_completion: the leg's own allowance, then the next leg of the
\* call's cursor with a fresh one, then the outer chain.
RecoverEmptyCompletion(c, r) ==
  \/ /\ r.empties < Args[c].empties
     /\ Resample(c, [r EXCEPT !.empties = @ + 1], Backoff)
  \/ /\ r.empties >= Args[c].empties
     /\ AdvanceEmptyCompletion(c, r)
     /\ Resample(c, [r EXCEPT !.empties = 0, !.leg = @ + 1], 0)
  \/ /\ r.empties >= Args[c].empties
     /\ ~AdvanceEmptyCompletion(c, r)
     /\ Becomes(c, Raise(r, IF Args[c].chain THEN "chain_advance" ELSE "empty_completion"))

\* The runaway ladder: 1 expanded, 2 reduced, 3 and on thinking disabled; the
\* expanded phase needs a full retry budget and room for a larger cap.
DisableThinkingAfter == 3
NextPhases(p) ==
  IF p = 0 /\ RunawayMax >= DisableThinkingAfter THEN {1, 2} ELSE {Max({p + 1, 2})}

MayResample(c, r) == r.spent < RunawayMax /\ ~LastAttempt(c, r)

Runaway(c, r, s) ==
  \/ /\ MayResample(c, r) /\ RunawayBackoff + Floor < r.left
     /\ \E p \in NextPhases(r.phase) :
          Again(c, [r EXCEPT !.spent = @ + 1, !.attempt = @ + 1, !.phase = p], RunawayBackoff)
  \/ /\ ~MayResample(c, r) \/ RunawayBackoff + Floor >= r.left
     /\ Becomes(c, Deliver(r, s))

\* A stream the reasoning guard stopped takes the same ladder.
RunawayEarly(c, r, s) == Runaway(c, r, s)

Stalled(c, r) ==
  LET n == r.stalls + 1
      advance == StallMax > 0 /\ n >= StallMax /\ Args[c].chain IN
  \/ advance /\ Becomes(c, Raise(r, "chain_advance"))
  \/ ~advance /\ Retry(c, [r EXCEPT !.stalls = n], Backoff)

TimedOut(c, r) ==
  \/ r.clamped /\ r.left <= 0 /\ Becomes(c, Raise(r, "deadline"))
  \/ (~r.clamped \/ r.left > 0) /\ Retry(c, r, Backoff)

\* A context overflow of the expanded phase goes straight to the reduced one.
ExpandedOverflow(c, r, e) == r.phase = 1 /\ IsContextLengthError(e) /\ MayResample(c, r)

ContextLength(c, r) ==
  Becomes(c, [Rested(Finish(r, r.index)) EXCEPT
                !.pc = "top", !.spent = @ + 1, !.attempt = @ + 1, !.phase = 2])

\* What only another key or provider can answer is left to the outer chain, and
\* so is what a second sample may clear when there is one.
FallbackSignal(c, e) ==
  IsRetriableWithFallback(e) /\ (Args[c].chain \/ ~ResampleMayRecover(e))

\* An exception that is neither blank nor an expanded overflow, by its status.
RaisedError(c, r, e) ==
  \/ FallbackSignal(c, e) /\ Becomes(c, Raise(r, "chain_advance"))
  \/ /\ ~FallbackSignal(c, e)
     /\ \/ NonTransient(e) /\ Becomes(c, Raise(r, "non_transient"))
        \/ e.status = 429 /\ Retry(c, r, RateBackoff)
        \/ ~NonTransient(e) /\ e.status # 429 /\ Retry(c, r, Backoff)

HandledError(c, r, e) ==
  \/ IsEmptyCompletion(e) /\ RecoverEmptyCompletion(c, r)
  \/ ~IsEmptyCompletion(e) /\ ExpandedOverflow(c, r, e) /\ ContextLength(c, r)
  \/ ~IsEmptyCompletion(e) /\ ~ExpandedOverflow(c, r, e) /\ RaisedError(c, r, e)

Handled(c, r, o, s) ==
  \/ o \in {"ok", "invalid"} /\ Becomes(c, Deliver(r, s))
  \/ o = "runaway" /\ Runaway(c, r, s)
  \/ o = "early" /\ RunawayEarly(c, r, s)
  \/ o = "empty" /\ RecoverEmptyCompletion(c, r)
  \/ o = "stall" /\ Stalled(c, r)
  \/ o = "timeout" /\ TimedOut(c, r)

-----------------------------------------------------------------------------
(* The same-attempt streaming replay of an invalid tool call *)

RecoveryTimeout(c, r) == Min({Effective(c, r), r.room})

\* _stream_recovery_budget_too_small, or the deadline refuses the replay.
NoReplay(c, r) ==
  LET t == RecoveryTimeout(c, r) IN
  Refused(c, r) \/ (t < RecoveryMin /\ 2 * t < r.budget)

\* "Recovery is opportunistic": the first response is returned.
KeepStreamed(r) ==
  Deliver(IF r.replay = 0 THEN r ELSE Finish(r, r.replay), r.index)

\* (Faulty variant: the replay's response is reported under the stream's index.)
Recovered_SameIndex(r) == [Finish(r, r.replay) EXCEPT !.replay = 0]

\* The streamed attempt is closed and the replay takes its place.
Recovered(r) == [Finish(r, r.index) EXCEPT !.index = r.replay, !.replay = 0]

\* What the call makes of the end of the request it was running.
Settled(c, r, o) ==
  \/ o = "cancel" /\ Becomes(c, End(r, "cancelled"))
  \/ o # "cancel" /\ r.replay = 0 /\ Handled(c, r, o, r.index)
  \/ r.replay # 0 /\ o \in Responses /\ Handled(c, Recovered(r), o, r.replay)
  \/ r.replay # 0 /\ o \notin Responses \cup {"cancel"} /\ Becomes(c, KeepStreamed(r))

-----------------------------------------------------------------------------
(* Actions *)

Start(c) ==
  /\ call[c].pc = "idle"
  /\ Becomes(c, [call[c] EXCEPT !.pc = "top", !.left = Args[c].deadline])
  /\ UNCHANGED <<slots, queue, orphans>>

\* The head of the retry loop: the pre-gate refusal precedes the started event.
Top(c) ==
  LET r == call[c] IN
  /\ r.pc = "top"
  /\ \/ Refused(c, r) /\ Becomes(c, End(r, "deadline"))
     \/ /\ ~Refused(c, r)
        /\ Becomes(c, [r EXCEPT !.pc = "admit", !.timer = Obs, !.phys = @ + 1,
                                !.index = r.phys + 1])
  /\ UNCHANGED <<slots, queue, orphans>>

\* The generation budget starts once the slot is held, clamped again.
PostGate(c, r) ==
  LET t == Effective(c, r) IN
  [r EXCEPT !.pc = "flight", !.timer = t, !.room = t, !.budget = t,
            !.clamped = r.left < Args[c].timeout]

\* The admission budget: what the deadline leaves above the floor, or GateWait.
DeadlineWait(r) == r.left - Floor
WaitsForDeadline(r) ==
  r.left # Unbounded /\ (GateWait = 0 \/ DeadlineWait(r) <= GateWait)

Admit(c) ==
  LET r == call[c] IN
  /\ r.pc = "admit"
  /\ \/ /\ WaitsForDeadline(r) /\ DeadlineWait(r) <= 0
        /\ Becomes(c, Raise(r, "deadline"))
        /\ UNCHANGED <<slots, queue>>
     \/ /\ ~(WaitsForDeadline(r) /\ DeadlineWait(r) <= 0)
        /\ slots > 0 /\ queue = <<>>
        /\ slots' = slots - 1
        /\ Becomes(c, PostGate(c, r))
        /\ UNCHANGED queue
     \/ /\ ~(WaitsForDeadline(r) /\ DeadlineWait(r) <= 0)
        /\ slots = 0 \/ queue # <<>>
        /\ queue' = Append(queue, c)
        /\ Becomes(c, [r EXCEPT !.pc = "gate",
                                !.timer = IF WaitsForDeadline(r) THEN DeadlineWait(r)
                                          ELSE IF GateWait > 0 THEN GateWait ELSE Never])
        /\ UNCHANGED slots
  /\ UNCHANGED orphans

\* A permit reaches the first waiter. What it finds after the gate is never
\* under the floor: the wait was bounded by it.
Granted(c) ==
  /\ call[c].pc = "gate"
  /\ slots > 0 /\ Head(queue) = c
  /\ slots' = slots - 1
  /\ queue' = Tail(queue)
  /\ Becomes(c, PostGate(c, call[c]))
  /\ UNCHANGED orphans

\* (Faulty variant: the expired waiter keeps its place in the queue.)
GateTimeout_KeepsPlace(c) ==
  LET r == call[c] IN
  /\ r.pc = "gate" /\ r.timer = 0
  /\ Becomes(c, Raise(r, IF r.left = Floor THEN "deadline" ELSE "gate_wait"))
  /\ UNCHANGED <<slots, queue, orphans>>

GateTimeout(c) ==
  LET r == call[c] IN
  /\ r.pc = "gate" /\ r.timer = 0
  /\ queue' = Remove(queue, c)
  /\ Becomes(c, Raise(r, IF r.left = Floor THEN "deadline" ELSE "gate_wait"))
  /\ UNCHANGED <<slots, orphans>>

\* LLMFallbackChain: an entry fails before any output and the next one serves;
\* the call's cursor stays there.
FallThrough(c) ==
  /\ call[c].pc = "flight" /\ call[c].leg < Args[c].legs
  /\ Becomes(c, [call[c] EXCEPT !.leg = @ + 1])
  /\ UNCHANGED <<slots, queue, orphans>>

\* The request ends by itself; the slot is returned before the end is handled.
RequestEnds(c) ==
  LET r == call[c] IN
  /\ r.pc = "flight"
  /\ \E o \in Args[c].outcomes \ Closing :
       /\ ~(o = "invalid" /\ Args[c].stream /\ r.replay = 0)
       /\ Settled(c, r, o)
  /\ Release
  /\ UNCHANGED queue

\* Nothing about the request will be different next time: a refusal of the key,
\* the model or the content, or a malformed request, and no sign that it passes.
Hopeless(e) ==
  /\ Stringify(e) \cap {"overload", "empty", "truncated", "network", "context"} = {}
  /\ \/ e.signals \cap {"credit", "safety", "model", "auth"} # {}
     \/ e.status \in {400, 401, 402, 403, 404}

\* The provider raises. During a replay the streamed response is kept.
RequestFails(c) ==
  LET r == call[c] IN
  /\ r.pc = "flight"
  /\ \E e \in Args[c].errors :
       IF r.replay # 0 THEN Becomes(c, KeepStreamed(r))
       ELSE HandledError(c, [r EXCEPT !.futile = @ + (IF Hopeless(e) THEN 1 ELSE 0)], e)
  /\ Release
  /\ UNCHANGED queue

\* A streamed response with an invalid tool call is replayed if it may be.
InvalidStreamed(c) ==
  LET r == call[c] IN
  /\ r.pc = "flight" /\ r.replay = 0
  /\ Args[c].stream /\ "invalid" \in Args[c].outcomes
  /\ \/ NoReplay(c, r) /\ Becomes(c, KeepStreamed(r)) /\ Release
     \/ /\ ~NoReplay(c, r)
        /\ Becomes(c, [r EXCEPT !.pc = "replay", !.timer = Obs, !.phys = @ + 1,
                                !.replay = r.phys + 1])
        /\ Keep
  /\ UNCHANGED queue

\* After the started event's observation the budget is taken again.
ReplayStart(c) ==
  LET r == call[c] IN
  /\ r.pc = "replay"
  /\ \/ NoReplay(c, r) /\ Becomes(c, KeepStreamed(r)) /\ Release
     \/ /\ ~NoReplay(c, r)
        /\ Becomes(c, [r EXCEPT !.pc = "flight", !.timer = RecoveryTimeout(c, r)])
        /\ Keep
  /\ UNCHANGED queue

\* A stream is given up (o) and closed within its grace.
CloseStream(c, o) ==
  /\ Becomes(c, [call[c] EXCEPT !.pc = "closing", !.timer = Grace, !.after = o])
  /\ Keep

WatchdogFires(c) ==
  /\ call[c].pc = "flight"
  /\ \E o \in Args[c].outcomes \cap Closing : CloseStream(c, o)
  /\ UNCHANGED queue

\* await_bounded leaves a chat request behind; a stream is closed first.
TimesOut(c) ==
  /\ call[c].pc = "flight" /\ call[c].timer = 0
  /\ \/ Args[c].stream /\ CloseStream(c, "timeout")
     \/ ~Args[c].stream /\ Settled(c, call[c], "timeout") /\ Abandon(c)
  /\ UNCHANGED queue

CloseEnds(c) ==
  LET r == call[c] IN
  /\ r.pc = "closing"
  /\ Settled(c, r, r.after)
  /\ Release \/ (r.timer = 0 /\ Abandon(c))
  /\ UNCHANGED queue

Wake(c) ==
  /\ call[c].pc = "sleep" /\ call[c].timer = 0
  /\ Becomes(c, [call[c] EXCEPT !.pc = "top"])
  /\ UNCHANGED <<slots, queue, orphans>>

\* The caller cancels call_llm at one of its suspension points.
Cancel(c) ==
  LET r == call[c]
      gone == Becomes(c, End(r, "cancelled")) IN
  \/ /\ r.pc \in {"admit", "gate", "sleep"}
     /\ gone /\ Keep
     /\ queue' = Remove(queue, c)
  \/ r.pc = "replay" /\ gone /\ Release /\ UNCHANGED queue
  \/ r.pc = "flight" /\ Args[c].stream /\ CloseStream(c, "cancel") /\ UNCHANGED queue
  \/ /\ r.pc = "closing" \/ (r.pc = "flight" /\ ~Args[c].stream)
     /\ gone /\ Abandon(c) /\ UNCHANGED queue

\* An abandoned request finishes unwinding and its lease returns the slot.
Settle(c) ==
  /\ \E lease \in orphans :
       lease[1] = c /\ orphans' = orphans \ {lease}
  /\ slots' = slots + 1
  /\ UNCHANGED <<queue, call>>

Timed == {"admit", "gate", "flight", "replay", "closing", "sleep"}

Urgent(c) ==
  \/ call[c].pc = "top"
  \/ call[c].pc \in Timed /\ call[c].timer = 0
  \/ slots > 0 /\ queue # <<>> /\ Head(queue) = c

Later(r) ==
  IF r.pc \notin Timed THEN r
  ELSE [r EXCEPT !.timer = IF @ = Never THEN Never ELSE @ - 1,
                 !.left = IF @ = Unbounded THEN Unbounded ELSE @ - 1,
                 !.room = IF r.pc \in {"flight", "replay", "closing"} THEN @ - 1 ELSE 0]

Tick ==
  /\ \A c \in Calls : ~Urgent(c)
  /\ call' = [c \in Calls |-> Later(call[c])]
  /\ UNCHANGED <<slots, queue, orphans>>

\* What the event loop runs without the provider's or the caller's help.
Step(c) ==
  \/ Top(c) \/ Admit(c) \/ Granted(c) \/ GateTimeout(c)
  \/ ReplayStart(c) \/ TimesOut(c) \/ CloseEnds(c) \/ Wake(c)

Next ==
  \/ Tick
  \/ \E c \in Calls :
       \/ Step(c) \/ Start(c) \/ FallThrough(c) \/ RequestEnds(c) \/ RequestFails(c)
       \/ InvalidStreamed(c) \/ WatchdogFires(c) \/ Cancel(c) \/ Settle(c)

Spec == Init /\ [][Next]_vars

\* Time passes and the event loop runs what is ready. Nothing makes a provider
\* answer, an abandoned request settle or a caller cancel.
FairSpec == Spec /\ WF_vars(Tick) /\ \A c \in Calls : WF_vars(Step(c))

-----------------------------------------------------------------------------
(* Properties *)

In(S) == {c \in Calls : call[c].pc \in S}

Active(c) == call[c].pc \notin {"idle", "ended"}

\* Ranges; in particular a call sends no more physical requests than its
\* generic attempts and the empty allowances of its legs account for.
TypeOK ==
  /\ slots \in 0..Gate
  /\ queue \in Seq(Calls)
  /\ orphans \in SUBSET (Calls \X Nat)
  /\ \A c \in Calls :
       /\ call[c].phys \in 0..MaxRequests(c)
       /\ call[c].attempt \in 0..(Args[c].retries - 1)
       /\ call[c].spent \in 0..RunawayMax
       /\ call[c].leg \in 1..Args[c].legs
       /\ call[c].pc \in Timed \cup {"idle", "top", "ended"}

\* "A slot is released only after an abandoned provider request settles": the
\* requests in the air, abandoned ones included, never exceed the gate, and no
\* permit is lost or made up.
GateBounded ==
  /\ Cardinality(In({"flight", "closing"})) + Cardinality(orphans) <= Gate
  /\ slots + Cardinality(In({"flight", "replay", "closing"})) + Cardinality(orphans) = Gate

\* attempt-finished "is the billing record": a call that was not cancelled
\* closes every physical request it opened exactly once, and closes as
\* delivered the one request whose response it returns.
AttemptsBilled ==
  \A c \in Calls :
    LET r == call[c] IN
    /\ \A i \in 1..r.phys : r.finished[i] <= 1
    /\ r.pc = "ended" /\ r.result # "cancelled" => \A i \in 1..r.phys : r.finished[i] = 1
    /\ r.delivered = r.source
    /\ r.delivered # 0 <=> r.result = "response"

\* How far a step of a call may outlast its budget: closing a stream has a
\* grace, and an attempt callback may begin with a single tick left.
Overrun(pc) ==
  CASE pc = "closing" -> Grace
    [] pc \in {"admit", "replay"} -> Max({0, Obs - 1})
    [] OTHER -> 0

\* Budget closure: "a retry chain can never outlive the loop's own budget".
\* Beyond the closing of a stream and a callback nothing of a call outlives its
\* deadline, and what a slot's holder sends, a replay included, fits the one
\* generation budget that began with the slot.
WithinBudget ==
  \A c \in Calls :
    LET r == call[c] IN
    /\ Active(c) => r.left >= -Overrun(r.pc)
    /\ r.pc \in {"flight", "replay"} => r.room >= -Overrun(r.pc)

\* "Same-key retry is hopeless": a call that met a refusal no second request can
\* change pays for no second request.
NoFutileRetry == \A c \in Calls : Active(c) => call[c].futile = 0

\* What a call spends is accounted for: every physical request is billed, there
\* are no more of them than attempts and empty allowances add up to, together
\* they fit the call's deadline, and none repeats a hopeless one.
SpendAccounted ==
  /\ AttemptsBilled /\ WithinBudget /\ NoFutileRetry
  /\ \A c \in Calls : call[c].phys \in 0..MaxRequests(c)

\* A call with a deadline ends whatever its provider, the other calls and the
\* abandoned requests that hold the gate do; a call without one ends as well
\* if abandoned requests keep settling.
CallsEnd ==
  LET Ends(c) == Active(c) ~> call[c].pc = "ended" IN
  /\ \A c \in Calls : Args[c].deadline # Unbounded => Ends(c)
  /\ []<>(orphans = {}) => \A c \in Calls : Ends(c)
=============================================================================
