------------------------------ MODULE LLMProxy ------------------------------
(***************************************************************************)
(* LLMProxy and its middleware chain (components/middleware/llm/proxy.py,  *)
(* base.py): callers share one proxy, and so the rate limiter's bucket,    *)
(* the loop detector's histories and the usage counters.                   *)
(*                                                                         *)
(* The chain is rate limit, loop detection, retry, stream repetition,      *)
(* token accounting; its after hooks run the other way round.  A call of   *)
(* chat awaits them itself; a stream runs each in a task of its own under  *)
(* a bound, so another coroutine may run, or the caller cancel, before a   *)
(* hook starts.                                                            *)
(*                                                                         *)
(* A text is a sequence of symbols, a response's tool calls a signature    *)
(* (0: none), its usage a number of tokens (None: not reported).  Time is  *)
(* in ticks; a sleeper may wake late.                                      *)
(***************************************************************************)
EXTENDS Integers, Sequences, FiniteSets, FiniteSetsExt, SequencesExt

CONSTANTS
  Callers,      \* coroutines that share the proxy
  Args,         \* per caller: stream, calls (how many it makes) and scopes
  Minute,       \* ticks in which an empty bucket fills
  RRate, TRate, \* requests and tokens a tick adds
  Estimates,    \* prompt sizes in tokens
  Usages,       \* tokens a provider may report
  Signatures,   \* fingerprints of a response's tool calls
  Texts,        \* texts a stream may carry
  ChunkSizes,   \* lengths of a delta
  Window, Trigger, MaxScopes,                        \* LoopDetectionMiddleware
  MinPattern, MaxPattern, MinRepeats, MinText, Interval, \* StreamRepetitionDetector
  MaxRetries, Backoff                                \* LLMRetryMiddleware

None == -1

ASSUME ProxyAssumption ==
  /\ {Minute, RRate, TRate, Window, Trigger, MaxScopes} \subseteq Nat \ {0} /\ Window >= Trigger
  /\ {MinPattern, MaxPattern, MinRepeats, MinText, Interval} \subseteq Nat \ {0}
  /\ MinPattern <= MaxPattern /\ MinRepeats >= 2 /\ MinText >= MinPattern * MinRepeats
  /\ Estimates \cup Usages \subseteq Nat /\ Signatures \subseteq Nat \ {0}
  /\ ChunkSizes \subseteq Nat \ {0} /\ {MaxRetries, Backoff} \subseteq Nat
ASSUME TextAssumption == Texts \subseteq Seq(Nat)

\* A scope is <<task, role and phase>>.
Scopes == UNION {Args[c].scopes : c \in Callers}
Tasks == {s[1] : s \in Scopes}

VARIABLES
  bucket,    \* TokenBucket: [requests, tokens, elapsed], elapsed ticks since _refill
  histories, \* the detector's OrderedDict: a sequence of [key, sigs]
  pending,   \* scopes with a pending hint
  uncounted, \* tokens per task that providers reported less what
             \* TokenAccountingMiddleware._usage holds
  call,      \* per caller, its current call
  due,       \* history: per scope, [last, run, owed] of its delivered signatures
  debt       \* history: tokens responses cost beyond their reservation, not yet refilled

vars == <<bucket, histories, pending, uncounted, call, due, debt>>

Rpm == Minute * RRate
Tpm == Minute * TRate

Idle(made) ==
  [pc |-> "idle", made |-> made, scope |-> <<>>, reserved |-> 0, timer |-> 0, attempt |-> 0,
   text |-> <<>>, pos |-> 0, since |-> 0, given |-> 0, whole |-> FALSE, sig |-> 0, usage |-> None]

NoRun == [last |-> 0, run |-> 0, owed |-> FALSE]

Init ==
  /\ bucket = [requests |-> Rpm, tokens |-> Tpm, elapsed |-> 0]
  /\ histories = <<>> /\ pending = {}
  /\ uncounted = [t \in Tasks |-> 0]
  /\ call = [c \in Callers |-> Idle(0)]
  /\ due = [s \in Scopes |-> NoRun]
  /\ debt = 0

Becomes(c, r) == call' = [call EXCEPT ![c] = r]
Ended(c) == Idle(call[c].made)

-----------------------------------------------------------------------------
(* The rate limiter *)

Refill(b) ==
  [requests |-> Min({Rpm, b.requests + b.elapsed * RRate}),
   tokens |-> Min({Tpm, b.tokens + b.elapsed * TRate}),
   elapsed |-> 0]

\* (Faulty variant: an oversized prompt reserves its whole estimate.)
ReservationSize_Uncapped(estimated) == estimated

\* "avoids an infinite wait for an oversized prompt"
ReservationSize(estimated) == Min({estimated, Tpm})

\* Ticks to sleep, rounded up.
Wait(deficit, rate) == IF deficit <= 0 THEN 0 ELSE (deficit + rate - 1) \div rate
WaitTime(b, n) == Max({Wait(1 - b.requests, RRate), IF n > 0 THEN Wait(n - b.tokens, TRate) ELSE 0})

Reserve(b, n) == [b EXCEPT !.requests = @ - 1, !.tokens = @ - n]

\* Not refilled first: the correction meets the level of the last _refill.
Adjust(b, actual, reserved) == [b EXCEPT !.tokens = Min({Tpm, @ + reserved - actual})]

-----------------------------------------------------------------------------
(* The loop detector *)

At(key) == {i \in DOMAIN histories : histories[i].key = key}

\* The histories of the other scopes, in their order.
Without(gone) ==
  LET kept    == {i \in DOMAIN histories : histories[i].key \notin gone}
      rank(i) == Cardinality({k \in kept : k <= i})
  IN  [n \in 1..Cardinality(kept) |-> histories[CHOOSE i \in kept : rank(i) = n]]

\* _history_for and the append: a known scope moves to the end, a new one may
\* push out the oldest.
Recorded(key, sig) ==
  LET old == IF At(key) = {} THEN <<>> ELSE histories[CHOOSE i \in At(key) : TRUE].sigs
      sigs == Append(old, sig)
      last == IF Len(sigs) > Window THEN Tail(sigs) ELSE sigs
      all == Append(Without({key}), [key |-> key, sigs |-> last])
  IN  [evicted |-> IF Len(all) > MaxScopes THEN {Head(all).key} ELSE {},
       kept |-> IF Len(all) > MaxScopes THEN Tail(all) ELSE all,
       sigs |-> last]

Repeats(sigs) ==
  /\ Len(sigs) >= Trigger
  /\ \A i \in (Len(sigs) - Trigger + 1)..Len(sigs) : sigs[i] = sigs[Len(sigs)]

\* after_llm. An abandoned proposal is not a delivered turn.
Detect(r) ==
  LET rec == Recorded(r.scope, r.sig)
      d == due[r.scope]
      run == IF d.last = r.sig THEN Min({d.run + 1, Trigger}) ELSE 1
      seen == [last |-> r.sig, run |-> run, owed |-> d.owed \/ run = Trigger] IN
  IF r.whole /\ r.sig # 0
  THEN /\ histories' = rec.kept
       /\ pending' = (pending \ rec.evicted) \cup (IF Repeats(rec.sigs) THEN {r.scope} ELSE {})
       /\ due' = [s \in Scopes |-> IF s \in rec.evicted THEN NoRun
                                   ELSE IF s = r.scope THEN seen ELSE due[s]]
  ELSE UNCHANGED <<histories, pending, due>>

\* before_llm: the hint is given once and the history starts again.
Hint(key) ==
  IF key \in pending
  THEN /\ pending' = pending \ {key}
       /\ histories' = [i \in DOMAIN histories |->
                          IF histories[i].key = key THEN [histories[i] EXCEPT !.sigs = <<>>]
                          ELSE histories[i]]
       /\ due' = [due EXCEPT ![key] = NoRun]
  ELSE UNCHANGED <<histories, pending, due>>

CleanupTask(t) ==
  /\ histories' = Without({s \in Scopes : s[1] = t})
  /\ pending' = {s \in pending : s[1] # t \/ At(s) = {}}
  /\ due' = [s \in Scopes |-> IF s[1] = t THEN NoRun ELSE due[s]]
  /\ UNCHANGED <<bucket, uncounted, call, debt>>

-----------------------------------------------------------------------------
(* The stream repetition detector *)

\* _scan_tail: some pattern length stands MinRepeats times at the end.
ScanTail(text) ==
  \E n \in MinPattern..Min({MaxPattern, Len(text) \div MinRepeats}) :
    \A i \in (Len(text) - (MinRepeats - 1) * n + 1)..Len(text) : text[i] = text[i - n]

\* on_chunk of a delta of k symbols: the count since the last scan, and whether
\* to abort.  Nothing is counted before MinText.
OnChunk(r, k) ==
  LET text == SubSeq(r.text, 1, r.pos + k)
      since == r.since + k IN
  IF Len(text) < MinText THEN [since |-> r.since, abort |-> FALSE]
  ELSE IF since < Interval THEN [since |-> since, abort |-> FALSE]
  ELSE [since |-> 0, abort |-> ScanTail(text)]

-----------------------------------------------------------------------------
(* A call *)

Start(c) ==
  /\ call[c].pc = "idle" /\ call[c].made < Args[c].calls
  /\ \E scope \in Args[c].scopes, estimated \in Estimates :
       Becomes(c, [Idle(call[c].made + 1) EXCEPT !.pc = "limit", !.scope = scope,
                                                 !.reserved = ReservationSize(estimated)])
  /\ UNCHANGED <<bucket, histories, pending, uncounted, due, debt>>

Sent(c, r) ==
  \E text \in IF Args[c].stream THEN Texts ELSE {<<>>} :
    Becomes(c, [r EXCEPT !.pc = "request", !.text = text, !.pos = 0, !.since = 0])

Repaid == debt' = Max({0, debt - bucket.elapsed * TRate})

\* (Faulty variant: a waiter that slept takes its share without looking again.)
Acquire_Unchecked(c) ==
  LET r == call[c]
      b == Refill(bucket)
      wait == WaitTime(b, r.reserved) IN
  /\ r.pc \in {"limit", "slept"} /\ r.timer = 0
  /\ \/ /\ wait = 0 \/ r.pc = "slept"
        /\ bucket' = Reserve(b, r.reserved)
        /\ Hint(r.scope)
        /\ Sent(c, r)
     \/ /\ wait > 0 /\ r.pc = "limit"
        /\ bucket' = b
        /\ Becomes(c, [r EXCEPT !.pc = "slept", !.timer = wait])
        /\ UNCHANGED <<histories, pending, due>>
  /\ Repaid
  /\ UNCHANGED uncounted

\* TokenBucket.acquire: capacity is checked and taken under the lock, or the
\* call sleeps and looks again; the rest of run_before does not suspend.
Acquire(c) ==
  LET r == call[c]
      b == Refill(bucket)
      wait == WaitTime(b, r.reserved) IN
  /\ r.pc \in {"limit", "slept"} /\ r.timer = 0
  /\ \/ /\ wait = 0
        /\ bucket' = Reserve(b, r.reserved)
        /\ Hint(r.scope)
        /\ Sent(c, r)
     \/ /\ wait > 0
        /\ bucket' = b
        /\ Becomes(c, [r EXCEPT !.pc = "slept", !.timer = wait])
        /\ UNCHANGED <<histories, pending, due>>
  /\ Repaid
  /\ UNCHANGED uncounted

\* TokenAccountingMiddleware.after_llm up to its event; a response without
\* tokens is not counted.
Counts(r) == r.usage > 0
Reported(u, r) == IF Counts(r) THEN [u EXCEPT ![r.scope[1]] = @ + r.usage] ELSE u
Accounted(u, r) == IF Counts(r) THEN [u EXCEPT ![r.scope[1]] = @ - r.usage] ELSE u

\* RateLimitMiddleware.after_llm: an unknown usage keeps the reservation.
Correct(r) ==
  /\ bucket' = IF r.usage = None THEN bucket ELSE Adjust(bucket, r.usage, r.reserved)
  /\ debt' = debt + Max({0, r.usage - r.reserved})

\* A chat's response: accounting runs at once, and only its event suspends.
ChatAnswers(c) ==
  /\ call[c].pc = "request" /\ ~Args[c].stream
  /\ \E sig \in Signatures \cup {0}, usage \in Usages \cup {None} :
     LET r == [call[c] EXCEPT !.sig = sig, !.usage = usage, !.whole = TRUE] IN
       \/ /\ Counts(r)
          /\ uncounted' = Accounted(Reported(uncounted, r), r)
          /\ Becomes(c, [r EXCEPT !.pc = "append", !.attempt = 0])
          /\ UNCHANGED <<bucket, histories, pending, due, debt>>
       \/ /\ ~Counts(r)
          /\ Detect(r) /\ Correct(r)
          /\ Becomes(c, Ended(c))
          /\ UNCHANGED uncounted

\* The rest of a chat's after hooks.
ChatEnds(c) ==
  /\ call[c].pc = "append" /\ ~Args[c].stream
  /\ Detect(call[c]) /\ Correct(call[c])
  /\ Becomes(c, Ended(c))
  /\ UNCHANGED uncounted

\* LLMRetryMiddleware.on_llm_error
MayRetry(r, retryable) == retryable /\ r.attempt < MaxRetries
BackedOff(r) == [r EXCEPT !.pc = "backoff", !.timer = Backoff, !.attempt = @ + 1, !.text = <<>>]

ChatFails(c) ==
  /\ call[c].pc = "request" /\ ~Args[c].stream
  /\ \E retryable \in BOOLEAN :
       Becomes(c, IF MayRetry(call[c], retryable) THEN BackedOff(call[c]) ELSE Ended(c))
  /\ UNCHANGED <<bucket, histories, pending, uncounted, due, debt>>

Retry(c) ==
  /\ call[c].pc = "backoff" /\ call[c].timer = 0
  /\ Sent(c, call[c])
  /\ UNCHANGED <<bucket, histories, pending, uncounted, due, debt>>

\* The finally block of stream: the after hooks, once per call.
ToHooks(c, r) == Becomes(c, [r EXCEPT !.pc = "account", !.text = <<>>, !.since = 0, !.pos = 0,
                                        !.given = @ - r.pos, !.attempt = 0])

\* A stream is over; calls and usage may have come with its last deltas.
Settle(c, r) ==
  \E sig \in Signatures \cup {0}, usage \in Usages \cup {None} :
    LET end == [r EXCEPT !.sig = sig, !.usage = usage] IN
      uncounted' = Reported(uncounted, end) /\ ToHooks(c, end)

\* A delta reaches the consumer, then the chunk hooks.
Chunk(c) ==
  LET r == call[c] IN
  /\ r.pc = "request" /\ Args[c].stream
  /\ \E k \in ChunkSizes :
       /\ r.pos + k <= Len(r.text)
       /\ LET hook == OnChunk(r, k)
              on == [r EXCEPT !.pos = @ + k, !.given = @ + k, !.since = hook.since] IN
          IF hook.abort THEN Settle(c, [on EXCEPT !.whole = TRUE])
          ELSE Becomes(c, on) /\ UNCHANGED uncounted
  /\ UNCHANGED <<bucket, histories, pending, due, debt>>

StreamEnds(c) ==
  LET r == call[c] IN
  /\ r.pc = "request" /\ Args[c].stream /\ r.pos = Len(r.text)
  /\ Settle(c, [r EXCEPT !.whole = TRUE])
  /\ UNCHANGED <<bucket, histories, pending, due, debt>>

\* (Faulty variant: a stream is retried whatever the consumer already has.)
StreamFails_Replays(c) ==
  LET r == call[c] IN
  /\ r.pc = "request" /\ Args[c].stream
  /\ \E retryable \in BOOLEAN :
       \/ MayRetry(r, retryable) /\ Becomes(c, BackedOff(r)) /\ UNCHANGED uncounted
       \/ ~MayRetry(r, retryable) /\ uncounted' = Reported(uncounted, r) /\ ToHooks(c, r)
  /\ UNCHANGED <<bucket, histories, pending, due, debt>>

\* The stream raises; only one that gave nothing is retried.
StreamFails(c) ==
  LET r == call[c] IN
  /\ r.pc = "request" /\ Args[c].stream
  /\ \/ r.pos > 0 /\ Settle(c, r)
     \/ /\ r.pos = 0
        /\ \E retryable \in BOOLEAN :
             IF MayRetry(r, retryable) THEN Becomes(c, BackedOff(r)) ELSE ToHooks(c, r)
        /\ UNCHANGED uncounted
  /\ UNCHANGED <<bucket, histories, pending, due, debt>>

\* One after hook of a stream.  The event of the accounting hook may outlast
\* its bound; it has counted by then.
StreamHook(c) ==
  LET r == call[c] IN
  /\ Args[c].stream
  /\ \/ /\ r.pc = "account"
        /\ uncounted' = Accounted(uncounted, r)
        /\ Becomes(c, [r EXCEPT !.pc = IF Counts(r) THEN "append" ELSE "detect"])
        /\ UNCHANGED <<bucket, histories, pending, due, debt>>
     \/ /\ r.pc = "append"
        /\ Becomes(c, [r EXCEPT !.pc = "detect"])
        /\ UNCHANGED <<bucket, histories, pending, uncounted, due, debt>>
     \/ /\ r.pc = "detect"
        /\ Detect(r)
        /\ Becomes(c, [r EXCEPT !.pc = "correct", !.sig = 0, !.whole = FALSE])
        /\ UNCHANGED <<bucket, uncounted, debt>>
     \/ /\ r.pc = "correct"
        /\ Correct(r)
        /\ Becomes(c, Ended(c))
        /\ UNCHANGED <<histories, pending, uncounted, due>>

Hooks == {"account", "append", "detect", "correct"}

\* The caller cancels, or closes the stream.  A stream under way still runs its
\* after hooks; before the request, or inside the hooks, what is left is skipped.
Cancel(c) ==
  LET r == call[c] IN
  /\ r.pc # "idle"
  /\ \/ /\ Args[c].stream /\ r.pc \in {"request", "backoff"}
        /\ IF r.pos > 0 THEN Settle(c, r) ELSE ToHooks(c, r) /\ UNCHANGED uncounted
     \/ /\ ~(Args[c].stream /\ r.pc \in {"request", "backoff"})
        /\ Becomes(c, Ended(c))
        /\ uncounted' = IF r.pc = "account" THEN Accounted(uncounted, r) ELSE uncounted
  /\ UNCHANGED <<bucket, histories, pending, due, debt>>

\* Enough ticks to fill the bucket from any debt are as good as more.
Fills == Minute + (debt + TRate - 1) \div TRate

Tick ==
  /\ bucket' = [bucket EXCEPT !.elapsed = Min({@ + 1, Fills})]
  /\ call' = [c \in Callers |-> [call[c] EXCEPT !.timer = Max({0, @ - 1})]]
  /\ UNCHANGED <<histories, pending, uncounted, due, debt>>

\* What runs by itself, and what the provider owes: its requests have timeouts.
Step(c) ==
  \/ Acquire(c) \/ Retry(c) \/ ChatEnds(c) \/ StreamHook(c)
  \/ ChatAnswers(c) \/ ChatFails(c) \/ Chunk(c) \/ StreamEnds(c) \/ StreamFails(c)

Next ==
  \/ Tick
  \/ \E c \in Callers : Start(c) \/ Step(c) \/ Cancel(c)
  \/ \E t \in Tasks : CleanupTask(t)

Spec == Init /\ [][Next]_vars /\ WF_vars(Tick) /\ \A c \in Callers : WF_vars(Step(c))

-----------------------------------------------------------------------------
(* Properties *)

\* The limiter admits what the quota has room for, however many callers wake at
\* once: neither bucket is ever overdrawn by an admission, and the token bucket
\* is in debt only for what responses cost beyond their reservation.
QuotaKept ==
  /\ bucket.requests \in 0..Rpm
  /\ bucket.tokens \in (-debt)..Tpm

\* The reported tokens of a task that a call's accounting hook has yet to count,
\* each with its call.
Share(c, t) ==
  IF call[c].pc = "account" /\ Counts(call[c]) /\ call[c].scope[1] = t
  THEN {c} \X (1..call[c].usage) ELSE {}
Uncounted(t) == UNION {Share(c, t) : c \in Callers}

\* Every token a provider reported is counted for its task exactly once, or is
\* still to be counted by the hook of the call that got it: not lost by a retry,
\* an abort or a failed stream, not counted again by one.
UsageOnce == \A t \in Tasks : uncounted[t] = Cardinality(Uncounted(t))

\* A scope has a hint coming exactly when its last delivered turns repeated each
\* other and no call of it has had the hint since, whatever the other callers and
\* their scopes did; and the detector remembers no more than it may.
HintExact ==
  /\ pending = {s \in Scopes : due[s].owed}
  /\ pending \subseteq {histories[i].key : i \in DOMAIN histories}
  /\ Len(histories) <= MaxScopes

\* The consumer has the deltas of one attempt only, and no stream goes on for
\* longer than the detector's interval while its text repeats.
StreamClean ==
  \A c \in Callers :
    LET r == call[c] IN
    /\ r.pc \in {"request", "backoff"} \cup Hooks => r.given = r.pos
    /\ r.pc = "request" /\ r.pos >= MinText + Interval =>
         ~\A n \in (r.pos - Interval)..r.pos : ScanTail(SubSeq(r.text, 1, n))

\* The hooks of the shared chain act once on each call and on the right one.
HooksExact == UsageOnce /\ HintExact /\ StreamClean

\* "Queues on limit, never rejects": every call ends.
CallersServed == \A c \in Callers : call[c].pc # "idle" ~> call[c].pc = "idle"
=============================================================================
