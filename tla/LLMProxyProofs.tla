--------------------------- MODULE LLMProxyProofs ---------------------------
(***************************************************************************)
(* Proofs about LLMProxy: whatever the callers, the limits and the costs,  *)
(* the rate limiter keeps its quota, and the hooks of the chain the        *)
(* callers share act once on each call and on the right one.               *)
(***************************************************************************)
EXTENDS LLMProxy, FiniteSetTheorems, TLAPS

\* A call's record, the reservation within what a full bucket can give.
CallRecords ==
  [pc : {"idle", "limit", "slept", "request", "backoff"} \cup Hooks,
   made : Nat, scope : Scopes \cup {<<>>}, reserved : 0..Tpm, timer : Nat, attempt : Nat,
   text : Texts \cup {<<>>}, pos : Nat, since : Nat, given : Int, whole : BOOLEAN,
   sig : Signatures \cup {0}, usage : Usages \cup {None}]

BucketOK ==
  /\ bucket \in [requests : Int, tokens : Int, elapsed : Nat]
  /\ debt \in Nat

CallsOK == call \in [Callers -> CallRecords]

\* The inductive invariant: QuotaKept needs the reservations of the waiting
\* calls, and that what is owed to the bucket is never negative.
IInv == BucketOK /\ CallsOK /\ QuotaKept

-----------------------------------------------------------------------------
(* Arithmetic of the bucket *)

\* The capacity of an empty bucket is what a minute's ticks add.
LEMMA Capacities == ASSUME ProxyAssumption PROVE Rpm \in Nat \ {0} /\ Tpm \in Nat \ {0}
  BY DEF ProxyAssumption, Rpm, Tpm

\* Min as the code's min() of two numbers.
LEMMA MinOfTwo ==
  ASSUME NEW a \in Int, NEW b \in Int
  PROVE  Min({a, b}) = IF a <= b THEN a ELSE b
  BY DEF Min

\* Max as the code's max() of two numbers.
LEMMA MaxOfTwo ==
  ASSUME NEW a \in Int, NEW b \in Int
  PROVE  Max({a, b}) = IF a >= b THEN a ELSE b
  BY DEF Max

\* A sleep is a number of ticks, and none exactly when nothing is missing.
LEMMA WaitZero ==
  ASSUME NEW d \in Int, NEW r \in Nat \ {0}
  PROVE  /\ Wait(d, r) \in Nat
         /\ Wait(d, r) = 0 <=> d <= 0
<1>1. CASE d <= 0
  BY <1>1 DEF Wait
<1>2. CASE d > 0
  <2>1. Wait(d, r) = (d + r - 1) \div r
    BY <1>2 DEF Wait
  <2>2. (d + r - 1) \div r \in Nat
    BY <1>2
  <2>3. (d + r - 1) \div r >= 1
    BY <1>2
  <2> QED
    BY <1>2, <2>1, <2>2, <2>3
<1> QED
  BY <1>1, <1>2

\* A call that need not wait finds a request and all its tokens in the bucket.
LEMMA NoWait ==
  ASSUME ProxyAssumption,
         NEW b \in [requests : Int, tokens : Int, elapsed : Nat], NEW n \in Nat
  PROVE  /\ WaitTime(b, n) \in Nat
         /\ WaitTime(b, n) = 0 => b.requests >= 1 /\ (n > 0 => b.tokens >= n)
<1> DEFINE q == Wait(1 - b.requests, RRate)
           t == IF n > 0 THEN Wait(n - b.tokens, TRate) ELSE 0
<1>0. /\ RRate \in Nat \ {0} /\ TRate \in Nat \ {0}
      /\ 1 - b.requests \in Int /\ n - b.tokens \in Int
  BY DEF ProxyAssumption
<1>1. q \in Nat /\ (q = 0 <=> 1 - b.requests <= 0)
  BY <1>0, WaitZero
<1>2. t \in Nat /\ (n > 0 => (t = 0 <=> n - b.tokens <= 0))
  BY <1>0, WaitZero
<1>3. WaitTime(b, n) = IF q >= t THEN q ELSE t
  <2> HIDE DEF q, t
  <2>1. Max({q, t}) = IF q >= t THEN q ELSE t
    BY <1>1, <1>2, MaxOfTwo
  <2> QED
    BY <2>1 DEF WaitTime, q, t
<1> QED
  <2> HIDE DEF q, t
  <2> QED BY <1>1, <1>2, <1>3

\* A refill adds what the elapsed ticks earned, never beyond the capacity, and
\* repays the debt by as much.
LEMMA RefillKeeps ==
  ASSUME ProxyAssumption, BucketOK, QuotaKept, Repaid
  PROVE  LET b == Refill(bucket) IN
         /\ b \in [requests : 0..Rpm, tokens : Int, elapsed : Nat]
         /\ debt' \in Nat
         /\ b.tokens \in (-debt')..Tpm
<1> DEFINE e == bucket.elapsed * TRate
           q == bucket.elapsed * RRate
           b == Refill(bucket)
<1>1. e \in Nat /\ q \in Nat
  BY DEF ProxyAssumption, BucketOK
<1>2. Rpm \in Nat /\ Tpm \in Nat
  BY Capacities
<1>3. /\ b.requests = IF Rpm <= bucket.requests + q THEN Rpm ELSE bucket.requests + q
      /\ b.tokens = IF Tpm <= bucket.tokens + e THEN Tpm ELSE bucket.tokens + e
      /\ b.elapsed = 0
      /\ b = [requests |-> b.requests, tokens |-> b.tokens, elapsed |-> b.elapsed]
  <2> HIDE DEF e, q
  <2>1. bucket.requests + q \in Int /\ bucket.tokens + e \in Int
    BY <1>1 DEF BucketOK
  <2> QED
    BY <1>2, <2>1, MinOfTwo DEF Refill, e, q
<1>4. debt' = IF 0 >= debt - e THEN 0 ELSE debt - e
  <2> HIDE DEF e
  <2>1. debt - e \in Int
    BY <1>1 DEF BucketOK
  <2> QED
    BY <2>1, MaxOfTwo DEF Repaid, e
<1>5. debt \in Nat /\ bucket.requests \in 0..Rpm /\ bucket.tokens \in (-debt)..Tpm
  BY DEF BucketOK, QuotaKept
<1> HIDE DEF e, q, b
<1>6. b.requests \in 0..Rpm /\ debt' \in Nat /\ b.tokens \in (-debt')..Tpm
  BY <1>1, <1>2, <1>3, <1>4, <1>5
<1> QED
  BY <1>3, <1>6 DEF b

\* A reservation that needs no wait overdraws neither bucket.
LEMMA ReserveKeeps ==
  ASSUME ProxyAssumption, NEW d \in Nat, NEW n \in 0..Tpm,
         NEW b \in [requests : 0..Rpm, tokens : Int, elapsed : Nat],
         b.tokens \in (-d)..Tpm, WaitTime(b, n) = 0
  PROVE  /\ Reserve(b, n) \in [requests : Int, tokens : Int, elapsed : Nat]
         /\ Reserve(b, n).requests \in 0..Rpm
         /\ Reserve(b, n).tokens \in (-d)..Tpm
<1>1. Rpm \in Nat /\ Tpm \in Nat
  BY Capacities
<1>2. n \in Nat /\ b \in [requests : Int, tokens : Int, elapsed : Nat]
  BY <1>1
<1>3. b.requests >= 1 /\ (n > 0 => b.tokens >= n)
  BY <1>2, NoWait
<1> DEFINE q == b.requests - 1
           t == b.tokens - n
<1>4. q \in 0..Rpm /\ t \in (-d)..Tpm /\ q \in Int /\ t \in Int
  BY <1>1, <1>2, <1>3
<1> HIDE DEF q, t
<1>5. Reserve(b, n) = [b EXCEPT !.requests = q, !.tokens = t]
  BY DEF Reserve, q, t
<1> QED
  BY <1>2, <1>4, <1>5

\* The correction after a response charges the debt with what it cost beyond
\* its reservation, and gives back no more than the bucket holds.
LEMMA CorrectKeeps ==
  ASSUME ProxyAssumption, BucketOK, QuotaKept, NEW r \in CallRecords, Correct(r)
  PROVE  BucketOK' /\ QuotaKept'
<1>1. Rpm \in Nat /\ Tpm \in Nat
  BY Capacities
<1>2. r.reserved \in 0..Tpm /\ r.usage \in Nat \cup {None} /\ None = -1
  BY DEF CallRecords, ProxyAssumption, None
<1>3. debt' = debt + IF 0 >= r.usage - r.reserved THEN 0 ELSE r.usage - r.reserved
  <2>1. r.usage - r.reserved \in Int
    BY <1>1, <1>2
  <2> QED
    BY <2>1, MaxOfTwo DEF Correct
<1>4. debt \in Nat /\ bucket.requests \in 0..Rpm /\ bucket.tokens \in (-debt)..Tpm
  BY DEF BucketOK, QuotaKept
<1>5. CASE r.usage = None
  <2>1. bucket' = bucket /\ debt' = debt
    BY <1>1, <1>2, <1>3, <1>4, <1>5 DEF Correct
  <2> QED
    BY <2>1 DEF BucketOK, QuotaKept, Rpm, Tpm
<1>6. CASE r.usage # None
  <2> DEFINE t == bucket.tokens + r.reserved - r.usage
  <2>1. t \in Int
    BY <1>1, <1>2, <1>4, <1>6
  <2>2. bucket' = [bucket EXCEPT !.tokens = IF Tpm <= t THEN Tpm ELSE t]
    <3>1. Min({Tpm, t}) = IF Tpm <= t THEN Tpm ELSE t
      BY <1>1, <2>1, MinOfTwo
    <3> QED
      BY <1>6, <3>1 DEF Correct, Adjust, BucketOK
  <2>3. /\ bucket' \in [requests : Int, tokens : Int, elapsed : Nat]
        /\ bucket'.requests = bucket.requests
        /\ bucket'.tokens = IF Tpm <= t THEN Tpm ELSE t
    <3> HIDE DEF t
    <3> QED
      BY <1>1, <2>1, <2>2 DEF BucketOK
  <2>4. debt' \in Nat /\ bucket'.tokens \in (-debt')..Tpm
    BY <1>1, <1>2, <1>3, <1>4, <1>6, <2>3
  <2> QED
    BY <1>4, <2>3, <2>4 DEF BucketOK, QuotaKept, Rpm, Tpm
<1> QED
  BY <1>5, <1>6

-----------------------------------------------------------------------------
(* The calls *)

\* A new record for one caller keeps the others.
LEMMA BecomesOK ==
  ASSUME CallsOK, NEW c \in Callers, NEW r \in CallRecords, Becomes(c, r)
  PROVE  CallsOK'
  BY DEF CallsOK, Becomes, CallRecords, Hooks, Scopes, Tpm, None

\* What a caller has between two calls.
LEMMA IdleOK == ASSUME ProxyAssumption, NEW m \in Nat PROVE Idle(m) \in CallRecords
<1>1. 0 \in 0..Tpm
  BY Capacities
<1> QED
  BY <1>1 DEF Idle, CallRecords

\* A call that ends leaves an idle record.
LEMMA EndedOK ==
  ASSUME ProxyAssumption, CallsOK, NEW c \in Callers, Becomes(c, Ended(c))
  PROVE  CallsOK'
<1>1. call[c].made \in Nat
  BY DEF CallsOK, CallRecords
<1>2. Ended(c) \in CallRecords
  BY <1>1, IdleOK DEF Ended
<1> QED
  BY <1>2, BecomesOK

\* Sending a request, for the first time or again.
LEMMA SentOK ==
  ASSUME CallsOK, NEW c \in Callers, NEW r \in CallRecords, Sent(c, r)
  PROVE  CallsOK'
<1>1. PICK text \in Texts \cup {<<>>} :
        Becomes(c, [r EXCEPT !.pc = "request", !.text = text, !.pos = 0, !.since = 0])
  BY DEF Sent
<1>2. [r EXCEPT !.pc = "request", !.text = text, !.pos = 0, !.since = 0] \in CallRecords
  BY DEF CallRecords
<1> QED
  BY <1>1, <1>2, BecomesOK

\* Entering the after hooks of a stream.
LEMMA ToHooksOK ==
  ASSUME CallsOK, NEW c \in Callers, NEW r \in CallRecords, ToHooks(c, r)
  PROVE  CallsOK'
<1> DEFINE g == r.given - r.pos
<1>1. g \in Int
  BY DEF CallRecords
<1> HIDE DEF g
<1>2. [r EXCEPT !.pc = "account", !.text = <<>>, !.since = 0, !.pos = 0,
                !.given = g, !.attempt = 0] \in CallRecords
  BY <1>1 DEF CallRecords, Hooks
<1> QED
  BY <1>2, BecomesOK DEF ToHooks, g

\* The end of a stream, with what came in its last deltas.
LEMMA SettleOK ==
  ASSUME CallsOK, NEW c \in Callers, NEW r \in CallRecords, Settle(c, r)
  PROVE  CallsOK'
<1>1. PICK sig \in Signatures \cup {0}, usage \in Usages \cup {None} :
        ToHooks(c, [r EXCEPT !.sig = sig, !.usage = usage])
  BY DEF Settle
<1>2. [r EXCEPT !.sig = sig, !.usage = usage] \in CallRecords
  BY DEF CallRecords
<1> QED
  BY <1>1, <1>2, ToHooksOK

\* A failed attempt that is to be made again.
LEMMA BackedOffOK ==
  ASSUME ProxyAssumption, NEW r \in CallRecords
  PROVE  BackedOff(r) \in CallRecords
<1> DEFINE a == r.attempt + 1
<1>1. a \in Nat /\ Backoff \in Nat
  <2>1. r.attempt \in Nat
    BY DEF CallRecords
  <2>2. Backoff \in Nat
    BY DEF ProxyAssumption
  <2> QED
    BY <2>1, <2>2
<1> HIDE DEF a
<1>2. [r EXCEPT !.pc = "backoff", !.timer = Backoff, !.attempt = a, !.text = <<>>] \in CallRecords
  BY <1>1 DEF CallRecords
<1> QED
  BY <1>2 DEF BackedOff, a

-----------------------------------------------------------------------------
(* The theorem *)

\* An action that touches neither the bucket nor the debt.
LEMMA BucketUnchanged ==
  ASSUME BucketOK, QuotaKept, UNCHANGED <<bucket, debt>>
  PROVE  BucketOK' /\ QuotaKept'
  BY DEF BucketOK, QuotaKept, Rpm, Tpm

\* A call that reaches the bucket: it takes its share or goes on waiting.
LEMMA AcquireKeeps ==
  ASSUME ProxyAssumption, IInv, NEW c \in Callers, Acquire(c)
  PROVE  IInv'
<1> DEFINE r == call[c]
           b == Refill(bucket)
<1>1. r \in CallRecords /\ Tpm \in Nat /\ Rpm \in Nat
  BY Capacities DEF IInv, CallsOK
<1>2. r.reserved \in 0..Tpm /\ r.reserved \in Nat
  BY <1>1 DEF CallRecords
<1>3. /\ b \in [requests : 0..Rpm, tokens : Int, elapsed : Nat]
      /\ debt' \in Nat
      /\ b.tokens \in (-debt')..Tpm
  BY RefillKeeps DEF IInv, Acquire
<1>4. b \in [requests : Int, tokens : Int, elapsed : Nat]
  BY <1>1, <1>3
<1>5. CASE WaitTime(b, r.reserved) = 0
  <2>1. bucket' = Reserve(b, r.reserved) /\ Sent(c, r)
    BY <1>5 DEF Acquire
  <2>2. BucketOK' /\ QuotaKept'
    <3> HIDE DEF b, r
    <3> QED
      BY <1>2, <1>3, <1>5, <2>1, ReserveKeeps DEF BucketOK, QuotaKept, Rpm, Tpm
  <2>3. CallsOK'
    BY <1>1, <2>1, SentOK DEF IInv
  <2> QED
    BY <2>2, <2>3 DEF IInv
<1>6. CASE WaitTime(b, r.reserved) # 0
  <2> DEFINE w == WaitTime(b, r.reserved)
  <2>1. w \in Nat
    BY <1>2, <1>4, NoWait
  <2>2. bucket' = b /\ Becomes(c, [r EXCEPT !.pc = "slept", !.timer = w])
    BY <1>6 DEF Acquire
  <2>3. BucketOK' /\ QuotaKept'
    BY <1>3, <1>4, <2>2 DEF BucketOK, QuotaKept, Rpm, Tpm
  <2>4. [r EXCEPT !.pc = "slept", !.timer = w] \in CallRecords
    <3> HIDE DEF b, r, w
    <3> QED
      BY <1>1, <2>1 DEF CallRecords
  <2>5. CallsOK'
    BY <2>2, <2>4, BecomesOK DEF IInv
  <2> QED
    BY <2>3, <2>5 DEF IInv
<1> QED
  BY <1>5, <1>6

\* Every step of the proxy keeps the invariant.
LEMMA StepKeeps ==
  ASSUME ProxyAssumption, IInv, [Next]_vars
  PROVE  IInv'
<1> USE DEF IInv
<1>1. CASE UNCHANGED vars
  BY <1>1, BucketUnchanged DEF vars, CallsOK
<1>2. CASE Tick
  <2>1. Fills \in Nat
    BY DEF Fills, ProxyAssumption, BucketOK
  <2> DEFINE e == Min({bucket.elapsed + 1, Fills})
  <2>2. e \in Nat
    <3> DEFINE n == bucket.elapsed + 1
    <3>1. n \in Nat
      BY DEF BucketOK
    <3> HIDE DEF n
    <3>2. Min({n, Fills}) \in Nat
      BY <2>1, <3>1, MinOfTwo
    <3> QED
      BY <3>2 DEF n
  <2>3. bucket' = [bucket EXCEPT !.elapsed = e] /\ debt' = debt
    BY <1>2 DEF Tick
  <2> HIDE DEF e
  <2>4. BucketOK' /\ QuotaKept'
    BY <2>2, <2>3 DEF BucketOK, QuotaKept, Rpm, Tpm
  <2>5. CallsOK'
    <3> SUFFICES ASSUME NEW c \in Callers
                 PROVE  [call[c] EXCEPT !.timer = Max({0, @ - 1})] \in CallRecords
      BY <1>2, Zenon DEF Tick, CallsOK
    <3> DEFINE r == call[c]
               t == Max({0, r.timer - 1})
    <3>1. r \in CallRecords
      BY DEF CallsOK
    <3>2. t \in Nat
      <4> HIDE DEF r
      <4>1. r.timer \in Nat
        BY <3>1 DEF CallRecords
      <4>2. 0 \in Int /\ r.timer - 1 \in Int
        BY <4>1
      <4>3. t = IF 0 >= r.timer - 1 THEN 0 ELSE r.timer - 1
        BY <4>2, MaxOfTwo
      <4> QED
        BY <4>1, <4>3
    <3>3. [r EXCEPT !.timer = t] \in CallRecords
      <4> HIDE DEF r, t
      <4> QED
        BY <3>1, <3>2 DEF CallRecords
    <3> QED
      BY <3>3
  <2> QED
    BY <2>4, <2>5
<1>3. ASSUME NEW t \in Tasks, CleanupTask(t)
      PROVE  IInv'
  BY <1>3, BucketUnchanged DEF CleanupTask, CallsOK
<1>4. ASSUME NEW c \in Callers, Start(c)
      PROVE  IInv'
  <2>1. BucketOK' /\ QuotaKept'
    BY <1>4, BucketUnchanged DEF Start
  <2>2. PICK scope \in Args[c].scopes, estimated \in Estimates :
          Becomes(c, [Idle(call[c].made + 1) EXCEPT !.pc = "limit", !.scope = scope,
                                                    !.reserved = ReservationSize(estimated)])
    BY <1>4 DEF Start
  <2> DEFINE n == ReservationSize(estimated)
             i == Idle(call[c].made + 1)
  <2>3. n \in 0..Tpm
    <3>1. estimated \in Nat /\ Tpm \in Nat
      BY Capacities DEF ProxyAssumption
    <3> QED
      BY <3>1, MinOfTwo DEF ReservationSize
  <2>4. i \in CallRecords
    <3>1. call[c] \in CallRecords
      BY DEF CallsOK
    <3>2. call[c].made \in Nat
      BY <3>1 DEF CallRecords
    <3>3. call[c].made + 1 \in Nat
      BY <3>2
    <3> QED
      BY <3>3, IdleOK
  <2>5. scope \in Scopes
    BY DEF Scopes
  <2> HIDE DEF n, i
  <2>6. [i EXCEPT !.pc = "limit", !.scope = scope, !.reserved = n] \in CallRecords
    BY <2>3, <2>4, <2>5 DEF CallRecords
  <2>7. CallsOK'
    BY <2>2, <2>6, BecomesOK DEF n, i
  <2> QED
    BY <2>1, <2>7
<1>5. ASSUME NEW c \in Callers, Acquire(c)
      PROVE  IInv'
  BY <1>5, AcquireKeeps
<1>6. ASSUME NEW c \in Callers, Retry(c)
      PROVE  IInv'
  <2>1. BucketOK' /\ QuotaKept'
    BY <1>6, BucketUnchanged DEF Retry
  <2>2. call[c] \in CallRecords
    BY DEF CallsOK
  <2>3. CallsOK'
    BY <1>6, <2>2, SentOK DEF Retry
  <2> QED
    BY <2>1, <2>3
<1>7. ASSUME NEW c \in Callers, ChatEnds(c)
      PROVE  IInv'
  <2>1. call[c] \in CallRecords
    BY DEF CallsOK
  <2> QED
    BY <1>7, <2>1, CorrectKeeps, EndedOK DEF ChatEnds
<1>8. ASSUME NEW c \in Callers, ChatAnswers(c)
      PROVE  IInv'
  <2>1. PICK sig \in Signatures \cup {0}, usage \in Usages \cup {None} :
          LET r == [call[c] EXCEPT !.sig = sig, !.usage = usage, !.whole = TRUE] IN
            \/ /\ Becomes(c, [r EXCEPT !.pc = "append", !.attempt = 0])
               /\ UNCHANGED <<bucket, debt>>
            \/ /\ Correct(r)
               /\ Becomes(c, Ended(c))
    BY <1>8 DEF ChatAnswers
  <2> DEFINE r == [call[c] EXCEPT !.sig = sig, !.usage = usage, !.whole = TRUE]
  <2>2. r \in CallRecords
    <3> DEFINE q == call[c]
    <3>1. q \in CallRecords
      BY DEF CallsOK
    <3> HIDE DEF q
    <3>2. [q EXCEPT !.sig = sig, !.usage = usage, !.whole = TRUE] \in CallRecords
      BY <3>1 DEF CallRecords
    <3> QED
      BY <3>2 DEF q
  <2>3. CASE Becomes(c, [r EXCEPT !.pc = "append", !.attempt = 0]) /\ UNCHANGED <<bucket, debt>>
    <3> HIDE DEF r
    <3>1. [r EXCEPT !.pc = "append", !.attempt = 0] \in CallRecords
      BY <2>2 DEF CallRecords, Hooks
    <3> QED
      BY <2>3, <3>1, BecomesOK, BucketUnchanged
  <2>4. CASE Correct(r) /\ Becomes(c, Ended(c))
    BY <2>2, <2>4, CorrectKeeps, EndedOK
  <2> QED
    BY <2>1, <2>3, <2>4
<1>9. ASSUME NEW c \in Callers, ChatFails(c)
      PROVE  IInv'
  <2>1. call[c] \in CallRecords
    BY DEF CallsOK
  <2>2. Becomes(c, BackedOff(call[c])) \/ Becomes(c, Ended(c))
    BY <1>9 DEF ChatFails
  <2>3. CallsOK'
    BY <2>1, <2>2, BackedOffOK, BecomesOK, EndedOK
  <2> QED
    BY <1>9, <2>3, BucketUnchanged DEF ChatFails
<1>10. ASSUME NEW c \in Callers, Chunk(c)
       PROVE  IInv'
  <2> DEFINE r == call[c]
  <2>1. r \in CallRecords
    BY DEF CallsOK
  <2>2. BucketOK' /\ QuotaKept'
    BY <1>10, BucketUnchanged DEF Chunk
  <2>3. PICK k \in ChunkSizes :
          LET hook == OnChunk(r, k)
              on == [r EXCEPT !.pos = @ + k, !.given = @ + k, !.since = hook.since] IN
          Settle(c, [on EXCEPT !.whole = TRUE]) \/ Becomes(c, on)
    BY <1>10 DEF Chunk
  <2> DEFINE p == r.pos + k
             g == r.given + k
             s == OnChunk(r, k).since
  <2>4. p \in Nat /\ g \in Int /\ r.since + k \in Nat /\ r.since \in Nat
    <3> HIDE DEF r
    <3>1. r.pos \in Nat /\ r.given \in Int /\ r.since \in Nat
      BY <2>1 DEF CallRecords
    <3>2. k \in Nat
      BY DEF ProxyAssumption
    <3> QED
      BY <3>1, <3>2
  <2>5. s \in Nat
    BY <2>4 DEF OnChunk
  <2> HIDE DEF p, g, s, r
  <2> DEFINE on == [r EXCEPT !.pos = p, !.given = g, !.since = s]
  <2>6. on \in CallRecords
    BY <2>1, <2>4, <2>5 DEF CallRecords
  <2>7. Settle(c, [on EXCEPT !.whole = TRUE]) \/ Becomes(c, on)
    BY <2>3 DEF p, g, s
  <2> HIDE DEF on
  <2>8. [on EXCEPT !.whole = TRUE] \in CallRecords
    BY <2>6 DEF CallRecords
  <2>9. CallsOK'
    BY <2>6, <2>7, <2>8, SettleOK, BecomesOK
  <2> QED
    BY <2>2, <2>9
<1>11. ASSUME NEW c \in Callers, StreamEnds(c)
       PROVE  IInv'
  <2> DEFINE r == call[c]
  <2>0. r \in CallRecords
    BY DEF CallsOK
  <2>1. [r EXCEPT !.whole = TRUE] \in CallRecords
    <3> HIDE DEF r
    <3> QED
      BY <2>0 DEF CallRecords
  <2>2. CallsOK'
    BY <1>11, <2>1, SettleOK DEF StreamEnds
  <2> QED
    BY <1>11, <2>2, BucketUnchanged DEF StreamEnds
<1>12. ASSUME NEW c \in Callers, StreamFails(c)
       PROVE  IInv'
  <2>1. call[c] \in CallRecords
    BY DEF CallsOK
  <2>2. \/ Settle(c, call[c])
        \/ Becomes(c, BackedOff(call[c]))
        \/ ToHooks(c, call[c])
    BY <1>12 DEF StreamFails
  <2>3. CallsOK'
    BY <2>1, <2>2, SettleOK, ToHooksOK, BackedOffOK, BecomesOK
  <2> QED
    BY <1>12, <2>3, BucketUnchanged DEF StreamFails
<1>13. ASSUME NEW c \in Callers, StreamHook(c)
       PROVE  IInv'
  <2> DEFINE r == call[c]
  <2>1. r \in CallRecords
    BY DEF CallsOK
  <2>2. CASE Correct(r) /\ Becomes(c, Ended(c))
    BY <2>1, <2>2, CorrectKeeps, EndedOK
  <2>3. ASSUME NEW pc \in Hooks, UNCHANGED <<bucket, debt>>,
               \/ Becomes(c, [r EXCEPT !.pc = pc])
               \/ Becomes(c, [r EXCEPT !.pc = pc, !.sig = 0, !.whole = FALSE])
        PROVE  IInv'
    <3> HIDE DEF r
    <3>1. /\ [r EXCEPT !.pc = pc] \in CallRecords
          /\ [r EXCEPT !.pc = pc, !.sig = 0, !.whole = FALSE] \in CallRecords
      BY <2>1 DEF CallRecords
    <3> QED
      BY <2>3, <3>1, BecomesOK, BucketUnchanged
  <2>4. \/ Correct(r) /\ Becomes(c, Ended(c))
        \/ \E pc \in Hooks :
             /\ UNCHANGED <<bucket, debt>>
             /\ \/ Becomes(c, [r EXCEPT !.pc = pc])
                \/ Becomes(c, [r EXCEPT !.pc = pc, !.sig = 0, !.whole = FALSE])
    BY <1>13 DEF StreamHook, Hooks
  <2> QED
    BY <2>2, <2>3, <2>4
<1>14. ASSUME NEW c \in Callers, Cancel(c)
       PROVE  IInv'
  <2>1. call[c] \in CallRecords
    BY DEF CallsOK
  <2>2. Settle(c, call[c]) \/ ToHooks(c, call[c]) \/ Becomes(c, Ended(c))
    BY <1>14 DEF Cancel
  <2>3. CallsOK'
    BY <2>1, <2>2, SettleOK, ToHooksOK, EndedOK
  <2> QED
    BY <1>14, <2>3, BucketUnchanged DEF Cancel
<1> QED
  BY <1>1, <1>2, <1>3, <1>4, <1>5, <1>6, <1>7, <1>8, <1>9, <1>10, <1>11, <1>12, <1>13, <1>14
     DEF Next, Step

\* The invariant holds of a full bucket without callers.
LEMMA QuotaBegins == ASSUME ProxyAssumption, Init PROVE IInv
<1>1. BucketOK /\ QuotaKept
  BY Capacities DEF Init, BucketOK, QuotaKept
<1>2. CallsOK
  BY IdleOK DEF Init, CallsOK
<1> QED
  BY <1>1, <1>2 DEF IInv

\* The limiter never admits beyond its quota: however many callers share the
\* bucket, wake late or together, cancel or get charged afterwards, no
\* admission of TokenBucket.acquire overdraws the requests, and the tokens are
\* in debt only for what responses cost beyond their reservation.
THEOREM QuotaIsKept == Spec => []QuotaKept
<1>1. ProxyAssumption
  BY ProxyAssumption
<1>2. Init => IInv
  BY <1>1, QuotaBegins
<1>3. IInv /\ [Next]_vars => IInv'
  BY <1>1, StepKeeps
<1>4. IInv => QuotaKept
  BY DEF IInv
<1> QED
  BY <1>2, <1>3, <1>4, PTL DEF Spec

-----------------------------------------------------------------------------
(* The loop detector's lists and the runs they end with *)

\* What the detector keeps of a scope, and the history variable's account of it.
Entries == [key : Scopes, sigs : Seq(Signatures)]
Runs == [last : Signatures \cup {0}, run : Nat, owed : BOOLEAN]

\* A list of n signatures ends with a run of last, counted up to Trigger.
Before(n, run) == n - run
Ending(n, run) == (Before(n, run) + 1)..n
EndsIn(q, n, last, run) ==
  /\ last = q[n] /\ run \in 1..Trigger /\ run <= n
  /\ \A i \in Ending(n, run) : q[i] = last
  /\ run < Trigger => run = n \/ q[Before(n, run)] # last
RunOf(q, last, run) ==
  IF q = <<>> THEN run = 0 /\ last = 0 ELSE EndsIn(q, Len(q), last, run)

Keyed(h) == \A i, k \in DOMAIN h : h[i].key = h[k].key => i = k
Remembers(h, s) == \E i \in DOMAIN h : h[i].key = s

\* Forgetting scopes keeps the others, each once.
LEMMA WithoutKeeps ==
  ASSUME histories \in Seq(Entries), Keyed(histories), NEW gone
  PROVE  /\ Without(gone) \in Seq(Entries) /\ Keyed(Without(gone))
         /\ Len(Without(gone)) <= Len(histories)
         /\ \A n \in DOMAIN Without(gone) :
              \E i \in DOMAIN histories :
                Without(gone)[n] = histories[i] /\ histories[i].key \notin gone
         /\ \A i \in DOMAIN histories : histories[i].key \notin gone =>
              \E n \in DOMAIN Without(gone) : Without(gone)[n] = histories[i]
<1> DEFINE kept == {i \in DOMAIN histories : histories[i].key \notin gone}
           upto(i) == {k \in kept : k <= i}
           rank(i) == Cardinality(upto(i))
           ranks == [i \in kept |-> rank(i)]
           size == Cardinality(kept)
           at(n) == CHOOSE i \in kept : rank(i) = n
           w == Without(gone)
<1>1. kept \subseteq 1..Len(histories) /\ IsFiniteSet(kept) /\ Len(histories) \in Nat
  <2>1. IsFiniteSet(1..Len(histories))
    BY FS_Interval
  <2>2. kept \subseteq 1..Len(histories) /\ Len(histories) \in Nat
    OBVIOUS
  <2> QED
    BY <2>1, <2>2, FS_Subset
<1>2. size \in Nat /\ size <= Len(histories)
  <2> HIDE DEF kept
  <2>1. Cardinality(1..Len(histories)) = Len(histories) /\ IsFiniteSet(1..Len(histories))
    BY <1>1, FS_Interval
  <2> QED
    BY <1>1, <2>1, FS_CardinalityType, FS_Subset
<1>3. \A i \in kept : rank(i) \in 1..size
  <2> SUFFICES ASSUME NEW i \in kept PROVE rank(i) \in 1..size
    OBVIOUS
  <2>1. upto(i) \subseteq kept /\ i \in upto(i)
    BY <1>1
  <2>2. IsFiniteSet(upto(i)) /\ rank(i) \in Nat /\ rank(i) <= size
    <3> HIDE DEF kept, upto
    <3> QED
      BY <1>1, <2>1, FS_Subset, FS_CardinalityType
  <2>3. rank(i) # 0
    <3> HIDE DEF kept, upto
    <3> QED
      BY <2>1, <2>2, FS_EmptySet
  <2> HIDE DEF rank, size
  <2> QED
    BY <1>2, <2>2, <2>3
<1>4. \A i, k \in kept : i < k => rank(i) < rank(k)
  <2> SUFFICES ASSUME NEW i \in kept, NEW k \in kept, i < k PROVE rank(i) < rank(k)
    OBVIOUS
  <2>1. upto(i) \subseteq upto(k) /\ k \in upto(k) /\ k \notin upto(i)
    BY <1>1
  <2>2. IsFiniteSet(upto(k))
    <3>1. upto(k) \subseteq kept
      OBVIOUS
    <3> HIDE DEF kept, upto
    <3> QED
      BY <1>1, <3>1, FS_Subset
  <2> HIDE DEF upto
  <2>3. IsFiniteSet(upto(i)) /\ rank(i) \in Nat /\ rank(k) \in Nat /\ rank(i) <= rank(k)
    BY <2>1, <2>2, FS_Subset, FS_CardinalityType
  <2>4. rank(i) # rank(k)
    BY <2>1, <2>2, FS_Subset
  <2> HIDE DEF rank
  <2> QED
    BY <2>3, <2>4
<1>5. \A i, k \in kept : rank(i) = rank(k) => i = k
  <2> SUFFICES ASSUME NEW i \in kept, NEW k \in kept, rank(i) = rank(k), i # k PROVE FALSE
    OBVIOUS
  <2>1. i < k \/ k < i
    BY <1>1
  <2>2. rank(i) \in Nat /\ rank(k) \in Nat
    <3> HIDE DEF rank, kept, size
    <3> QED
      BY <1>2, <1>3
  <2> HIDE DEF rank, kept
  <2> QED
    BY <1>4, <2>1, <2>2
<1>6. \A n \in 1..size : \E i \in kept : rank(i) = n
  <2>1. ranks \in Injection(kept, 1..size)
    <3> HIDE DEF rank, kept, size
    <3> QED
      BY <1>3, <1>5 DEF Injection, IsInjective
  <2>2. Cardinality(1..size) = size /\ IsFiniteSet(1..size)
    <3> HIDE DEF size
    <3> QED
      BY <1>2, FS_Interval
  <2>3. ranks \in Surjection(kept, 1..size)
    <3> HIDE DEF ranks, kept
    <3> QED
      BY <2>1, <2>2, FS_Injection
  <2> HIDE DEF rank, kept, size
  <2> QED
    BY <2>3 DEF Surjection
<1>7. \A n \in 1..size : at(n) \in kept /\ rank(at(n)) = n
  <2> HIDE DEF rank, kept, size
  <2> QED
    BY <1>6
<1>8. w = [n \in 1..size |-> histories[at(n)]]
  BY DEF Without
<1>9. \A i \in kept : i \in DOMAIN histories /\ histories[i] \in Entries /\ histories[i].key \notin gone
  OBVIOUS
<1> HIDE DEF w
<1>10. w \in Seq(Entries) /\ DOMAIN w = 1..size /\ Len(w) = size
  <2>1. \A n \in 1..size : histories[at(n)] \in Entries
    <3> HIDE DEF at, kept, size
    <3> QED
      BY <1>7, <1>9
  <2> HIDE DEF at, kept, size
  <2> QED
    BY <1>2, <1>8, <2>1
<1>11. \A n \in 1..size : w[n] = histories[at(n)]
  <2> HIDE DEF at, size
  <2> QED
    BY <1>8
<1>12. \A i \in DOMAIN histories : histories[i].key \notin gone => \E n \in DOMAIN w : w[n] = histories[i]
  <2> SUFFICES ASSUME NEW i \in DOMAIN histories, histories[i].key \notin gone
               PROVE  \E n \in DOMAIN w : w[n] = histories[i]
    OBVIOUS
  <2>1. i \in kept
    OBVIOUS
  <2>2. rank(i) \in 1..size /\ at(rank(i)) = i
    <3> HIDE DEF rank, kept, size
    <3> QED
      BY <2>1, <1>3, <1>5
  <2> HIDE DEF at, kept, size, rank
  <2> QED
    BY <1>10, <1>11, <2>2
<1> HIDE DEF at, kept, size, rank
<1>13. Keyed(w)
  <2> SUFFICES ASSUME NEW n \in DOMAIN w, NEW m \in DOMAIN w, w[n].key = w[m].key PROVE n = m
    BY DEF Keyed
  <2>1. histories[at(n)].key = histories[at(m)].key
    BY <1>10, <1>11
  <2>2. at(n) = at(m)
    BY <1>7, <1>9, <1>10, <2>1 DEF Keyed
  <2> QED
    BY <1>7, <1>10, <2>2
<1>14. \A n \in DOMAIN w : \E i \in DOMAIN histories : w[n] = histories[i] /\ histories[i].key \notin gone
  BY <1>7, <1>9, <1>10, <1>11
<1> QED
  BY <1>2, <1>10, <1>12, <1>13, <1>14 DEF w

\* What the window leaves of a list.
Trimmed(s) == IF Len(s) > Window THEN Tail(s) ELSE s

\* The arithmetic of a run that grows.
LEMMA RunNumbers ==
  ASSUME NEW n \in Nat, NEW t \in Nat, NEW old \in 1..t, old <= n, NEW run \in Nat,
         run = IF old + 1 <= t THEN old + 1 ELSE t
  PROVE  /\ run \in 1..t /\ run <= n + 1
         /\ \A i \in Ending(n + 1, run) : i = n + 1 \/ (i \in Ending(n, old) /\ i \in 1..n)
         /\ run < t /\ run # n + 1 =>
              old < t /\ old # n /\ Before(n + 1, run) = Before(n, old) /\ Before(n, old) \in 1..n
  BY DEF Ending, Before

\* The arithmetic of one that begins.
LEMMA RunBegins ==
  ASSUME NEW n \in Nat
  PROVE  /\ 1 <= n + 1 /\ \A i \in Ending(n + 1, 1) : i = n + 1
         /\ n # 0 => n \in 1..n
         /\ Before(n + 1, 1) = n
  BY DEF Ending, Before

\* A signature that joins a list lengthens the run at its end or begins one.
LEMMA RunGrows ==
  ASSUME ProxyAssumption, NEW q \in Seq(Signatures), NEW l, NEW old \in Nat, RunOf(q, l, old),
         NEW sig \in Signatures, NEW run \in Nat,
         l = sig => run = IF old + 1 <= Trigger THEN old + 1 ELSE Trigger, l # sig => run = 1
  PROVE  RunOf(Append(q, sig), sig, run)
<1>1. Trigger \in Nat /\ 1 \in 1..Trigger /\ sig # 0
  BY DEF ProxyAssumption
<1> DEFINE n == Len(q)
           s == Append(q, sig)
<1>2. n \in Nat /\ (n = 0 <=> q = <<>>)
  OBVIOUS
<1>3. Len(s) = n + 1 /\ s[n + 1] = sig /\ s # <<>>
  <2>1. Len(s) = n + 1 /\ s[n + 1] = sig
    OBVIOUS
  <2>2. Len(s) # 0 /\ Len(<<>>) = 0
    BY <2>1
  <2> HIDE DEF s
  <2> QED
    BY <2>1, <2>2, Zenon
<1>4. \A i \in 1..n : s[i] = q[i]
  OBVIOUS
<1> HIDE DEF n, s
<1>5. ASSUME run \in 1..Trigger, run <= n + 1, \A i \in Ending(n + 1, run) : s[i] = sig,
             run < Trigger => run = n + 1 \/ s[Before(n + 1, run)] # sig
      PROVE  RunOf(s, sig, run)
  <2>1. EndsIn(s, n + 1, sig, run)
    <3> DEFINE m == n + 1
    <3>1. sig = s[m] /\ run <= m /\ run \in 1..Trigger /\ (\A i \in Ending(m, run) : s[i] = sig)
      BY <1>3, <1>5
    <3>2. run < Trigger => run = m \/ s[Before(m, run)] # sig
      BY <1>5
    <3> HIDE DEF m
    <3>3. EndsIn(s, m, sig, run)
      BY ONLY <3>1, <3>2, Zenon DEF EndsIn
    <3> QED
      BY <3>3 DEF m
  <2> QED
    BY <1>3, <2>1, Zenon DEF RunOf
<1>6. CASE n = 0 \/ l # sig
  <2>1. run = 1
    BY <1>1, <1>2, <1>6, Zenon DEF RunOf
  <2>2. n # 0 => s[n] # sig
    <3>1. n # 0 => l = q[n]
      BY <1>2, Zenon DEF RunOf, EndsIn, n
    <3> QED
      BY <1>2, <1>4, <1>6, <3>1, RunBegins, Zenon
  <2>3. run <= n + 1 /\ (\A i \in Ending(n + 1, run) : i = n + 1) /\ Before(n + 1, run) = n
    BY <1>2, <2>1, RunBegins
  <2>4. \A i \in Ending(n + 1, run) : s[i] = sig
    BY <1>3, <2>3, Zenon
  <2>5. n = 0 => run = n + 1
    BY <2>1
  <2>6. run < Trigger => run = n + 1 \/ s[Before(n + 1, run)] # sig
    BY <2>2, <2>3, <2>5, Zenon
  <2>7. run \in 1..Trigger
    BY <1>1, <2>1
  <2> QED
    BY <1>5, <2>3, <2>4, <2>6, <2>7, Zenon DEF s
<1>7. CASE n # 0 /\ l = sig
  <2>1. EndsIn(q, n, l, old)
    BY <1>2, <1>7, Zenon DEF RunOf, n
  <2>2. old \in 1..Trigger /\ old <= n
    BY <2>1, Zenon DEF EndsIn
  <2>3. run = IF old + 1 <= Trigger THEN old + 1 ELSE Trigger
    BY <1>7
  <2>4. /\ run \in 1..Trigger /\ run <= n + 1
        /\ \A i \in Ending(n + 1, run) : i = n + 1 \/ (i \in Ending(n, old) /\ i \in 1..n)
        /\ run < Trigger /\ run # n + 1 =>
             old < Trigger /\ old # n /\ Before(n + 1, run) = Before(n, old) /\ Before(n, old) \in 1..n
    <3>1. n \in Nat /\ Trigger \in Nat /\ run \in Nat
      BY <1>1, <1>2
    <3> QED
      BY ONLY <2>2, <2>3, <3>1, RunNumbers
  <2>5. \A i \in Ending(n + 1, run) : s[i] = sig
    BY <1>3, <1>4, <1>7, <2>1, <2>4, Zenon DEF EndsIn
  <2>6. run < Trigger => run = n + 1 \/ s[Before(n + 1, run)] # sig
    BY <1>3, <1>4, <1>7, <2>1, <2>4, Zenon DEF EndsIn
  <2> QED
    BY <1>5, <2>4, <2>5, <2>6, Zenon DEF s
<1> QED
  BY <1>6, <1>7

\* A list repeats itself exactly when its run is long enough.
LEMMA RunRepeats ==
  ASSUME ProxyAssumption, NEW q \in Seq(Signatures), q # <<>>, NEW l, NEW run, RunOf(q, l, run)
  PROVE  Repeats(q) <=> run = Trigger
<1> DEFINE n == Len(q)
<1>1. Trigger \in Nat /\ n \in Nat /\ n > 0
  BY DEF ProxyAssumption
<1>2. EndsIn(q, n, l, run)
  BY Zenon DEF RunOf
<1>3. Repeats(q) <=> n >= Trigger /\ \A i \in Ending(n, Trigger) : q[i] = q[n]
  BY DEF Repeats, Ending, Before
<1> HIDE DEF n
<1>4. run \in 1..Trigger /\ run <= n
  BY <1>2 DEF EndsIn
<1>5. run = Trigger => n >= Trigger
  BY <1>1, <1>4
<1>6. run # Trigger => run < Trigger /\ (n >= Trigger => run # n /\ Before(n, run) \in Ending(n, Trigger))
  BY <1>1, <1>4 DEF Ending, Before
<1> QED
  BY <1>2, <1>3, <1>5, <1>6, Zenon DEF EndsIn

\* The arithmetic of a window that slides.
LEMMA WindowNumbers ==
  ASSUME NEW w \in Nat, NEW t \in Nat, t <= w, NEW run \in 1..t
  PROVE  /\ w \in 1..w /\ run <= w
         /\ \A i \in Ending(w, run) : i \in 1..w /\ i + 1 \in Ending(w + 1, run)
         /\ run < t => run # w + 1 /\ Before(w, run) \in 1..w /\ Before(w, run) + 1 = Before(w + 1, run)
  BY DEF Ending, Before

\* A window that slides does not shorten the run it is looked at for.
LEMMA RunInWindow ==
  ASSUME ProxyAssumption, NEW s \in Seq(Signatures), NEW l, NEW run, RunOf(s, l, run),
         s # <<>>, Len(s) <= Window + 1
  PROVE  /\ Trimmed(s) \in Seq(Signatures) /\ Trimmed(s) # <<>> /\ Len(Trimmed(s)) <= Window
         /\ RunOf(Trimmed(s), l, run)
<1>1. Trigger \in Nat /\ Window \in Nat /\ Window > 0 /\ Trigger <= Window
  BY DEF ProxyAssumption
<1>2. CASE Len(s) <= Window
  BY <1>1, <1>2 DEF Trimmed
<1>3. CASE Len(s) > Window
  <2> DEFINE w == Window
             last == Trimmed(s)
  <2>1. Len(s) = w + 1 /\ last = Tail(s)
    BY <1>1, <1>3 DEF Trimmed
  <2>2. last \in Seq(Signatures) /\ Len(last) = w /\ last # <<>>
    <3>1. Tail(s) \in Seq(Signatures) /\ Len(Tail(s)) = Len(s) - 1
      OBVIOUS
    <3>2. Len(s) - 1 = w /\ w # 0 /\ Len(<<>>) = 0
      BY <1>1, <2>1
    <3> HIDE DEF last, w
    <3> QED
      BY <2>1, <3>1, <3>2, Zenon
  <2>3. \A i \in 1..w : last[i] = s[i + 1]
    BY <1>1, <2>1
  <2>4. EndsIn(s, w + 1, l, run)
    BY <2>1, Zenon DEF RunOf
  <2>5. run \in 1..Trigger
    BY <2>4, Zenon DEF EndsIn
  <2>6. /\ w \in 1..w /\ run <= w
        /\ \A i \in Ending(w, run) : i \in 1..w /\ i + 1 \in Ending(w + 1, run)
        /\ run < Trigger => run # w + 1 /\ Before(w, run) \in 1..w /\ Before(w, run) + 1 = Before(w + 1, run)
    BY <1>1, <2>5, WindowNumbers
  <2> HIDE DEF last
  <2>7. EndsIn(last, w, l, run)
    <3>1. \A i \in Ending(w, run) : last[i] = l
      BY <2>3, <2>4, <2>6, Zenon DEF EndsIn
    <3>2. ASSUME run < Trigger PROVE last[Before(w, run)] # l
      <4>1. run # w + 1 /\ Before(w, run) \in 1..w /\ Before(w, run) + 1 = Before(w + 1, run)
        BY <2>6, <3>2
      <4>2. last[Before(w, run)] = s[Before(w, run) + 1]
        BY <2>3, <4>1, Zenon
      <4>3. s[Before(w + 1, run)] # l
        BY <2>4, <3>2, <4>1, Zenon DEF EndsIn
      <4> QED
        BY ONLY <4>1, <4>2, <4>3, Zenon
    <3>3. l = last[w] /\ run <= w
      BY <2>3, <2>4, <2>6, Zenon DEF EndsIn
    <3> QED
      BY <2>5, <3>1, <3>2, <3>3, Zenon DEF EndsIn
  <2>8. w <= Window
    BY <1>1
  <2> QED
    BY <2>2, <2>7, <2>8, Zenon DEF RunOf, last
<1> QED
  BY <1>1, <1>2, <1>3

\* The detector's lists agree with what was delivered: a scope it does not
\* remember has no run, and a list it has ends with the run of its scope.
Traced(h, d) ==
  /\ h \in Seq(Entries) /\ Keyed(h) /\ Len(h) <= MaxScopes
  /\ d \in [Scopes -> Runs]
  /\ \A s \in Scopes : ~Remembers(h, s) => d[s] = NoRun
  /\ \A i \in DOMAIN h : /\ Len(h[i].sigs) <= Window
                         /\ RunOf(h[i].sigs, d[h[i].key].last, d[h[i].key].run)
Hinted == Traced(histories, due) /\ pending = {s \in Scopes : due[s].owed}

\* A scope without a run is owed nothing.
LEMMA NoRunOK == NoRun \in Runs /\ NoRun.last = 0 /\ NoRun.run = 0 /\ NoRun.owed = FALSE
  BY DEF NoRun, Runs

\* The hint is given once and the history starts again.
LEMMA HintKeeps ==
  ASSUME ProxyAssumption, Hinted, NEW key \in Scopes, Hint(key)
  PROVE  Hinted'
<1>1. CASE key \notin pending
  BY <1>1 DEF Hint, Hinted, Traced
<1>2. CASE key \in pending
  <2> DEFINE h == [i \in DOMAIN histories |->
                     IF histories[i].key = key THEN [histories[i] EXCEPT !.sigs = <<>>]
                     ELSE histories[i]]
             d == [due EXCEPT ![key] = NoRun]
  <2>1. histories' = h /\ due' = d /\ pending' = pending \ {key}
    BY <1>2 DEF Hint
  <2>2. /\ histories \in Seq(Entries) /\ DOMAIN histories = 1..Len(histories) /\ Len(histories) \in Nat
        /\ \A i \in DOMAIN histories : histories[i] \in Entries
    BY DEF Hinted, Traced
  <2>3. ASSUME NEW i \in DOMAIN histories
        PROVE  /\ h[i] \in Entries /\ h[i].key = histories[i].key
               /\ h[i].sigs = IF histories[i].key = key THEN <<>> ELSE histories[i].sigs
    <3> DEFINE e == histories[i]
    <3>1. e \in Entries
      BY <2>2
    <3>2. h[i] = IF e.key = key THEN [e EXCEPT !.sigs = <<>>] ELSE e
      OBVIOUS
    <3> HIDE DEF e, h
    <3>3. /\ [e EXCEPT !.sigs = <<>>] \in Entries /\ [e EXCEPT !.sigs = <<>>].key = e.key
          /\ [e EXCEPT !.sigs = <<>>].sigs = <<>>
      <4> DEFINE none == <<>>
      <4>1. none \in Seq(Signatures)
        OBVIOUS
      <4> HIDE DEF none
      <4>2. /\ [e EXCEPT !.sigs = none] \in Entries /\ [e EXCEPT !.sigs = none].key = e.key
            /\ [e EXCEPT !.sigs = none].sigs = none
        BY <3>1, <4>1 DEF Entries
      <4> QED
        BY <4>2 DEF none
    <3> QED
      BY <3>1, <3>2, <3>3 DEF e
  <2>4. h \in Seq(Entries) /\ DOMAIN h = DOMAIN histories /\ Len(h) = Len(histories)
    <3>1. DOMAIN h = DOMAIN histories /\ h = [i \in 1..Len(histories) |-> h[i]]
      BY <2>2
    <3> HIDE DEF h
    <3> QED
      BY <2>2, <2>3, <3>1
  <2> HIDE DEF h
  <2>5. d \in [Scopes -> Runs] /\ d[key] = NoRun /\ \A s \in Scopes \ {key} : d[s] = due[s]
    BY NoRunOK DEF Hinted, Traced
  <2> HIDE DEF d
  <2>6. Keyed(h) /\ \A s : Remembers(h, s) <=> Remembers(histories, s)
    BY <2>3, <2>4 DEF Hinted, Traced, Keyed, Remembers
  <2>7. \A s \in Scopes : ~Remembers(h, s) => d[s] = NoRun
    BY <2>5, <2>6 DEF Hinted, Traced
  <2>8. ASSUME NEW i \in DOMAIN h
        PROVE  Len(h[i].sigs) <= Window /\ RunOf(h[i].sigs, d[h[i].key].last, d[h[i].key].run)
    <3>1. histories[i].key \in Scopes
      BY <2>2, <2>4 DEF Entries
    <3>2. CASE histories[i].key = key
      <4>1. Len(<<>>) <= Window /\ RunOf(<<>>, NoRun.last, NoRun.run)
        BY NoRunOK DEF RunOf, ProxyAssumption
      <4> QED
        BY <2>3, <2>4, <2>5, <3>2, <4>1
    <3>3. CASE histories[i].key # key
      BY <2>3, <2>4, <2>5, <3>1, <3>3 DEF Hinted, Traced
    <3> QED
      BY <3>2, <3>3
  <2>9. Len(h) <= MaxScopes
    BY <2>4 DEF Hinted, Traced
  <2>10. Traced(h, d)
    BY <2>4, <2>5, <2>6, <2>7, <2>8, <2>9 DEF Traced
  <2>11. pending' = {s \in Scopes : d[s].owed}
    BY <2>1, <2>5, NoRunOK DEF Hinted
  <2> QED
    BY <2>1, <2>10, <2>11 DEF Hinted, Traced
<1> QED
  BY <1>1, <1>2

\* Cleaning up a task forgets its scopes and what they are owed.
LEMMA CleanupKeeps ==
  ASSUME ProxyAssumption, Hinted, NEW t \in Tasks, CleanupTask(t)
  PROVE  Hinted'
<1> DEFINE gone == {s \in Scopes : s[1] = t}
           h == Without(gone)
           d == [s \in Scopes |-> IF s[1] = t THEN NoRun ELSE due[s]]
<1>1. /\ histories' = h /\ due' = d
      /\ pending' = {s \in pending : s[1] # t \/ At(s) = {}}
  BY DEF CleanupTask
<1>2. histories \in Seq(Entries) /\ Keyed(histories) /\ Len(histories) \in Nat /\ MaxScopes \in Nat
  BY DEF Hinted, Traced, ProxyAssumption
<1>3. /\ h \in Seq(Entries) /\ Keyed(h) /\ Len(h) <= Len(histories)
      /\ \A n \in DOMAIN h : \E i \in DOMAIN histories :
           h[n] = histories[i] /\ histories[i].key \notin gone
      /\ \A i \in DOMAIN histories : histories[i].key \notin gone => \E n \in DOMAIN h : h[n] = histories[i]
  <2> HIDE DEF gone
  <2> QED
    BY <1>2, WithoutKeeps
<1>4. \A i \in DOMAIN histories : histories[i].key \in Scopes
  <2>1. \A i \in DOMAIN histories : histories[i] \in Entries
    BY <1>2
  <2> QED
    BY <2>1 DEF Entries
<1>5. d \in [Scopes -> Runs] /\ \A s \in Scopes : d[s] = IF s \in gone THEN NoRun ELSE due[s]
  BY NoRunOK DEF Hinted, Traced
<1>6. \A s \in Scopes : s \in gone <=> s[1] = t
  OBVIOUS
<1> HIDE DEF gone, h, d
<1>7. \A s \in Scopes : ~Remembers(h, s) => d[s] = NoRun
  <2> SUFFICES ASSUME NEW s \in Scopes, ~Remembers(h, s), s \notin gone PROVE due[s] = NoRun
    BY <1>5
  <2>1. ~Remembers(histories, s)
    BY <1>3 DEF Remembers
  <2> QED
    BY <2>1 DEF Hinted, Traced
<1>8. ASSUME NEW n \in DOMAIN h
      PROVE  Len(h[n].sigs) <= Window /\ RunOf(h[n].sigs, d[h[n].key].last, d[h[n].key].run)
  <2>1. PICK i \in DOMAIN histories : h[n] = histories[i] /\ histories[i].key \notin gone
    BY <1>3
  <2>2. d[h[n].key] = due[histories[i].key]
    BY <1>4, <1>5, <2>1
  <2> QED
    BY <2>1, <2>2 DEF Hinted, Traced
<1>9. Len(h) <= MaxScopes
  <2>1. Len(histories) <= MaxScopes /\ Len(h) \in Nat
    BY <1>3 DEF Hinted, Traced
  <2> QED
    BY <1>2, <1>3, <2>1
<1>10. Traced(h, d)
  BY <1>3, <1>5, <1>7, <1>8, <1>9 DEF Traced
<1>11. pending' = {s \in Scopes : d[s].owed}
  <2>1. \A s \in pending : s \in Scopes /\ due[s].owed
    BY DEF Hinted
  <2>2. \A s \in Scopes : due[s].owed => At(s) # {}
    <3> SUFFICES ASSUME NEW s \in Scopes, due[s].owed, At(s) = {} PROVE FALSE
      OBVIOUS
    <3>1. ~Remembers(histories, s)
      BY DEF At, Remembers
    <3>2. due[s] = NoRun
      BY <3>1 DEF Hinted, Traced
    <3> QED
      BY <3>2, NoRunOK
  <2>3. \A s \in Scopes : d[s].owed <=> s[1] # t /\ due[s].owed
    BY <1>5, <1>6, NoRunOK
  <2>4. pending = {s \in Scopes : due[s].owed}
    BY DEF Hinted
  <2> QED
    BY <1>1, <2>2, <2>3, <2>4
<1> QED
  BY <1>1, <1>10, <1>11 DEF Hinted, Traced

\* An entry joins a list that has room, or pushes its oldest entry out.
Full(all) == Len(all) > MaxScopes
Evicted(all) == IF Full(all) THEN {Head(all).key} ELSE {}
Kept(all) == IF Full(all) THEN Tail(all) ELSE all

\* Positions of a list and of one that is longer by one.
LEMMA Positions ==
  ASSUME NEW n \in Nat
  PROVE  /\ \A i \in 1..(n + 1) : i \in 1..n \/ i = n + 1
         /\ \A m \in 1..n : m # 1 => m - 1 \in 1..n /\ (m - 1) + 1 = m
         /\ \A i, k \in 1..n : i + 1 = k + 1 => i = k
  OBVIOUS

\* What popping the oldest entry leaves.
LEMMA TailIs ==
  ASSUME NEW S, NEW q \in Seq(S), q # <<>>
  PROVE  /\ Head(q) = q[1] /\ Tail(q) \in Seq(S) /\ Len(Tail(q)) = Len(q) - 1
         /\ DOMAIN Tail(q) = 1..(Len(q) - 1)
         /\ \A i \in 1..(Len(q) - 1) : Tail(q)[i] = q[i + 1]
  OBVIOUS

\* Every entry but the evicted one is still there, and the new one is.
Pushed(w, e, h, gone) ==
  /\ h \in Seq(Entries) /\ Keyed(h) /\ Len(h) <= MaxScopes
  /\ e.key \notin gone /\ \E i \in DOMAIN h : h[i] = e
  /\ \A i \in DOMAIN h : h[i].key \notin gone /\ (h[i] = e \/ \E n \in DOMAIN w : h[i] = w[n])
  /\ \A n \in DOMAIN w : w[n].key \notin gone => \E i \in DOMAIN h : h[i] = w[n]

\* What comes of the lists when a scope is recorded.
LEMMA PushKeeps ==
  ASSUME ProxyAssumption, NEW w \in Seq(Entries), Keyed(w), Len(w) <= MaxScopes, NEW e \in Entries,
         \A n \in DOMAIN w : w[n].key # e.key
  PROVE  Pushed(w, e, Kept(Append(w, e)), Evicted(Append(w, e)))
<1> DEFINE all == Append(w, e)
           h == Kept(all)
           gone == Evicted(all)
<1> DEFINE n == Len(w)
<1>1. n \in Nat /\ MaxScopes \in Nat /\ MaxScopes > 0 /\ n <= MaxScopes /\ DOMAIN w = 1..n
  BY DEF ProxyAssumption
<1>2. /\ all \in Seq(Entries) /\ Len(all) = n + 1 /\ DOMAIN all = 1..(n + 1) /\ all[n + 1] = e
      /\ \A i \in 1..n : all[i] = w[i]
  OBVIOUS
<1>3. \A i, k \in 1..n : all[i].key = all[k].key => i = k
  BY <1>1, <1>2 DEF Keyed
<1>4. \A i \in 1..n : all[i].key # e.key
  BY <1>1, <1>2
<1> HIDE DEF n, all, h, gone
<1>5. Keyed(all)
  <2> SUFFICES ASSUME NEW i \in DOMAIN all, NEW k \in DOMAIN all, all[i].key = all[k].key PROVE i = k
    BY DEF Keyed
  <2>1. (i \in 1..n \/ i = n + 1) /\ (k \in 1..n \/ k = n + 1)
    BY <1>1, <1>2, Positions, Zenon
  <2> QED
    BY <1>2, <1>3, <1>4, <2>1
<1>6. ASSUME ~Full(all) PROVE Pushed(w, e, h, gone)
  <2>1. h = all /\ gone = {}
    BY <1>6 DEF Kept, Evicted, h, gone
  <2>2. Len(all) <= MaxScopes
    BY <1>1, <1>2, <1>6 DEF Full
  <2>3. \A i \in DOMAIN all : i \in 1..n \/ i = n + 1
    BY <1>1, <1>2, Positions, Zenon
  <2>4. n + 1 \in DOMAIN all /\ \A i \in 1..n : i \in DOMAIN all
    BY <1>1, <1>2
  <2>5. \A i \in DOMAIN all : all[i] = e \/ \E m \in DOMAIN w : all[i] = w[m]
    BY <1>1, <1>2, <2>3, Zenon
  <2>6. \A m \in DOMAIN w : \E i \in DOMAIN all : all[i] = w[m]
    BY <1>1, <1>2, <2>4, Zenon
  <2> QED
    <3>1. \E i \in DOMAIN all : all[i] = e
      BY <1>2, <2>4, Zenon
    <3>2. /\ \A i \in DOMAIN h : h[i] = e \/ \E m \in DOMAIN w : h[i] = w[m]
          /\ \A m \in DOMAIN w : \E i \in DOMAIN h : h[i] = w[m]
      BY ONLY <2>1, <2>5, <2>6
    <3>3. h \in Seq(Entries) /\ Keyed(h) /\ Len(h) <= MaxScopes /\ \E i \in DOMAIN h : h[i] = e
      BY <1>2, <1>5, <2>1, <2>2, <3>1, Zenon
    <3>4. \A x : x \notin gone
      BY <2>1
    <3> QED
      BY <1>4, <2>4, <3>2, <3>3, <3>4, Zenon DEF Pushed
<1>7. ASSUME Full(all) PROVE Pushed(w, e, h, gone)
  <2>1. h = Tail(all) /\ gone = {Head(all).key}
    BY <1>7 DEF Kept, Evicted, h, gone
  <2>2. n = MaxScopes /\ all # <<>>
    <3>1. n = MaxScopes
      BY <1>1, <1>2, <1>7 DEF Full
    <3>2. Len(all) # 0 /\ Len(<<>>) = 0
      BY <1>1, <1>2
    <3> QED
      BY <3>1, <3>2, Zenon
  <2>3. /\ Head(all) = all[1] /\ Tail(all) \in Seq(Entries) /\ Len(Tail(all)) = Len(all) - 1
        /\ DOMAIN Tail(all) = 1..(Len(all) - 1)
        /\ \A i \in 1..(Len(all) - 1) : Tail(all)[i] = all[i + 1]
    BY <1>2, <2>2, TailIs
  <2>4. Len(all) - 1 = n
    BY <1>1, <1>2
  <2>5. /\ h \in Seq(Entries) /\ Len(h) = n /\ DOMAIN h = 1..n
        /\ \A i \in 1..n : h[i] = all[i + 1]
    BY <2>1, <2>3, <2>4
  <2>6. gone = {all[1].key} /\ 1 \in 1..n
    BY <1>1, <2>1, <2>2, <2>3
  <2>7. \A i \in 1..n : i + 1 \in DOMAIN all /\ i + 1 # 1 /\ (i + 1 \in 1..n \/ i + 1 = n + 1) /\ (i = n => i + 1 = n + 1)
    BY <1>1, <1>2
  <2>8. 1 \in DOMAIN all /\ n \in 1..n
    BY <1>1, <1>2, <2>6
  <2>9. Keyed(h)
    <3> SUFFICES ASSUME NEW i \in DOMAIN h, NEW k \in DOMAIN h, h[i].key = h[k].key PROVE i = k
      BY DEF Keyed
    <3>1. i \in 1..n /\ k \in 1..n
      BY <2>5
    <3>2. all[i + 1].key = all[k + 1].key
      BY <2>5, <3>1
    <3>3. i + 1 = k + 1
      BY <1>5, <2>7, <3>1, <3>2 DEF Keyed
    <3> QED
      BY <1>1, <3>1, <3>3, Positions, Zenon
  <2>10. e.key \notin gone
    BY <1>4, <2>6
  <2>11. \E i \in DOMAIN h : h[i] = e
    <3>1. n \in DOMAIN h /\ h[n] = all[n + 1]
      BY <2>5, <2>8
    <3> QED
      BY <1>2, <3>1
  <2>12. ASSUME NEW i \in DOMAIN h
         PROVE  h[i].key \notin gone /\ (h[i] = e \/ \E m \in DOMAIN w : h[i] = w[m])
    <3>1. i \in 1..n /\ h[i] = all[i + 1]
      BY <2>5
    <3>2. h[i].key # all[1].key
      BY <1>5, <2>7, <2>8, <3>1 DEF Keyed
    <3>3. h[i] = e \/ \E m \in DOMAIN w : h[i] = w[m]
      BY <1>1, <1>2, <2>7, <3>1, Zenon
    <3> QED
      BY <2>6, <3>2, <3>3
  <2>13. ASSUME NEW m \in DOMAIN w, w[m].key \notin gone PROVE \E i \in DOMAIN h : h[i] = w[m]
    <3>1. m \in 1..n /\ w[m] = all[m]
      BY <1>1, <1>2
    <3>2. m # 1
      BY <2>6, <2>13, <3>1
    <3>3. m - 1 \in 1..n /\ (m - 1) + 1 = m
      BY <1>1, <3>1, <3>2, Positions, Zenon
    <3>4. h[m - 1] = all[m]
      BY <2>5, <3>3
    <3> QED
      BY <2>5, <3>1, <3>3, <3>4, Zenon
  <2>14. Len(h) <= MaxScopes
    BY <1>1, <2>2, <2>5
  <2> QED
    BY <2>5, <2>9, <2>10, <2>11, <2>12, <2>13, <2>14, Zenon DEF Pushed
<1>8. Pushed(w, e, h, gone)
  BY <1>6, <1>7
<1> QED
  BY <1>8 DEF h, gone, all
\* A delivered turn goes to the end of its scope's list; a new scope may push out
\* the oldest one, with what that one was owed.
LEMMA DetectKeeps ==
  ASSUME ProxyAssumption, Hinted, NEW r, r.scope \in Scopes, r.sig \in Signatures \cup {0}, Detect(r)
  PROVE  Hinted'
<1>1. CASE ~(r.whole /\ r.sig # 0)
  BY <1>1 DEF Detect, Hinted, Traced
<1>2. CASE r.whole /\ r.sig # 0
  <2> DEFINE key == r.scope
             sig == r.sig
             old == IF At(key) = {} THEN <<>> ELSE histories[CHOOSE i \in At(key) : TRUE].sigs
             last == Trimmed(Append(old, sig))
             entry == [key |-> key, sigs |-> last]
             w == Without({key})
             all == Append(w, entry)
             full == Len(all) > MaxScopes
             evicted == IF full THEN {Head(all).key} ELSE {}
             h == IF full THEN Tail(all) ELSE all
             p == due[key]
             run == IF p.last = sig THEN Min({p.run + 1, Trigger}) ELSE 1
             seen == [last |-> sig, run |-> run, owed |-> p.owed \/ run = Trigger]
             d == [s \in Scopes |-> IF s \in evicted THEN NoRun ELSE IF s = key THEN seen ELSE due[s]]
  <2>1. /\ histories' = h /\ due' = d
        /\ pending' = (pending \ evicted) \cup (IF Repeats(last) THEN {key} ELSE {})
    BY <1>2 DEF Detect, Recorded, Trimmed
  <2>2. key \in Scopes /\ sig \in Signatures /\ sig # 0 /\ MaxScopes \in Nat /\ MaxScopes > 0
        /\ Trigger \in Nat /\ Window \in Nat
    BY <1>2 DEF ProxyAssumption
  <2> HIDE DEF key, sig
  <2>3. /\ histories \in Seq(Entries) /\ Keyed(histories) /\ due \in [Scopes -> Runs]
        /\ \A i \in DOMAIN histories : histories[i] \in Entries
    BY DEF Hinted, Traced
  <2>4. p \in Runs /\ p.run \in Nat /\ p.owed \in BOOLEAN
    BY <2>2, <2>3 DEF Runs
  <2>5. old \in Seq(Signatures) /\ Len(old) <= Window /\ RunOf(old, p.last, p.run)
    <3>1. CASE At(key) = {}
      <4>1. ~Remembers(histories, key)
        BY <3>1 DEF At, Remembers
      <4>2. p = NoRun
        BY <2>2, <4>1 DEF Hinted, Traced
      <4>3. Len(<<>>) <= Window /\ <<>> \in Seq(Signatures) /\ RunOf(<<>>, NoRun.last, NoRun.run)
        BY <2>2, NoRunOK DEF RunOf
      <4> QED
        BY <3>1, <4>2, <4>3
    <3>2. CASE At(key) # {}
      <4>1. PICK i : i \in At(key) /\ old = histories[i].sigs
        BY <3>2
      <4>2. i \in DOMAIN histories /\ histories[i].key = key
        BY <4>1 DEF At
      <4>3. histories[i].sigs \in Seq(Signatures)
        BY <2>3, <4>2 DEF Entries
      <4> HIDE DEF old, p
      <4> QED
        BY <4>1, <4>2, <4>3 DEF Hinted, Traced, p
    <3> QED
      BY <3>1, <3>2
  <2>6. run \in Nat /\ (p.last = sig => run = IF p.run + 1 <= Trigger THEN p.run + 1 ELSE Trigger)
        /\ (p.last # sig => run = 1)
    <3> DEFINE n == p.run + 1
    <3>1. n \in Int /\ Trigger \in Int /\ n \in Nat
      BY <2>2, <2>4
    <3> HIDE DEF n
    <3>2. Min({n, Trigger}) = IF n <= Trigger THEN n ELSE Trigger
      BY <3>1, MinOfTwo
    <3> HIDE DEF p
    <3> QED
      BY <2>2, <3>1, <3>2 DEF n
  <2> HIDE DEF old, p, run
  <2>7. RunOf(Append(old, sig), sig, run)
    BY <2>2, <2>4, <2>5, <2>6, RunGrows
  <2>8. /\ last \in Seq(Signatures) /\ last # <<>> /\ Len(last) <= Window /\ RunOf(last, sig, run)
    <3>1. Append(old, sig) \in Seq(Signatures) /\ Append(old, sig) # <<>> /\ Len(Append(old, sig)) <= Window + 1
      BY <2>2, <2>5
    <3> QED
      BY <2>7, <3>1, RunInWindow
  <2>9. Repeats(last) <=> run = Trigger
    BY <2>8, RunRepeats
  <2> HIDE DEF last
  <2>10. entry \in Entries /\ entry.key = key /\ entry.sigs = last
    BY <2>2, <2>8 DEF Entries
  <2> HIDE DEF entry
  <2>11. seen \in Runs /\ seen.last = sig /\ seen.run = run /\ (seen.owed <=> p.owed \/ run = Trigger)
    BY <2>2, <2>4, <2>6 DEF Runs
  <2> HIDE DEF seen
  <2>12. /\ w \in Seq(Entries) /\ Keyed(w) /\ Len(w) <= Len(histories)
         /\ \A n \in DOMAIN w : \E i \in DOMAIN histories :
              w[n] = histories[i] /\ histories[i].key \notin {key}
         /\ \A i \in DOMAIN histories : histories[i].key \notin {key} => \E n \in DOMAIN w : w[n] = histories[i]
    BY <2>3, WithoutKeeps
  <2> HIDE DEF w
  <2> HIDE DEF all
  <2>13. Len(w) <= MaxScopes /\ \A n \in DOMAIN w : w[n].key # entry.key
    <3>1. Len(histories) \in Nat /\ Len(w) \in Nat /\ Len(histories) <= MaxScopes
      BY <2>3, <2>12 DEF Hinted, Traced
    <3> QED
      <4>1. Len(w) <= MaxScopes
        BY <2>2, <2>12, <3>1
      <4>2. \A n \in DOMAIN w : w[n].key # entry.key
        BY <2>10, <2>12
      <4> QED
        BY <4>1, <4>2
  <2>14. h = Kept(all) /\ evicted = Evicted(all) /\ all = Append(w, entry)
    BY DEF Kept, Evicted, Full, all
  <2> HIDE DEF h, evicted
  <2>15. /\ h \in Seq(Entries) /\ Keyed(h) /\ Len(h) <= MaxScopes
         /\ entry.key \notin evicted /\ \E i \in DOMAIN h : h[i] = entry
         /\ \A i \in DOMAIN h : /\ h[i].key \notin evicted
                                /\ h[i] = entry \/ \E n \in DOMAIN w : h[i] = w[n]
         /\ \A n \in DOMAIN w : w[n].key \notin evicted => \E i \in DOMAIN h : h[i] = w[n]
    <3>1. entry \in Entries
      BY <2>10
    <3>2. w \in Seq(Entries) /\ Keyed(w)
      BY <2>12
    <3> QED
      <4>1. Pushed(w, entry, Kept(Append(w, entry)), Evicted(Append(w, entry)))
        BY <2>13, <3>1, <3>2, PushKeeps
      <4>2. Pushed(w, entry, h, evicted)
        BY <2>14, <4>1, Zenon
      <4> QED
        BY <4>2, Zenon DEF Pushed
  <2>16. /\ d \in [Scopes -> Runs] /\ d[key] = seen
         /\ \A s \in Scopes : s \in evicted => d[s] = NoRun
         /\ \A s \in Scopes : s \notin evicted /\ s # key => d[s] = due[s]
    BY <2>2, <2>3, <2>10, <2>11, <2>15, NoRunOK
  <2> HIDE DEF d
  <2>17. \A s \in Scopes : ~Remembers(h, s) => d[s] = NoRun
    <3> SUFFICES ASSUME NEW s \in Scopes, ~Remembers(h, s), s \notin evicted PROVE d[s] = NoRun
      BY <2>16
    <3>1. s # key
      BY <2>10, <2>15 DEF Remembers
    <3>2. ~Remembers(histories, s)
      <4> SUFFICES ASSUME NEW i \in DOMAIN histories, histories[i].key = s PROVE FALSE
        BY DEF Remembers
      <4>1. PICK n \in DOMAIN w : w[n] = histories[i]
        BY <2>12, <3>1
      <4>2. PICK k \in DOMAIN h : h[k] = w[n]
        BY <2>15, <4>1
      <4> QED
        BY <4>1, <4>2 DEF Remembers
    <3> QED
      BY <2>16, <3>1, <3>2 DEF Hinted, Traced
  <2>18. ASSUME NEW i \in DOMAIN h
         PROVE  Len(h[i].sigs) <= Window /\ RunOf(h[i].sigs, d[h[i].key].last, d[h[i].key].run)
    <3>1. CASE h[i] = entry
      BY <2>8, <2>10, <2>11, <2>16, <3>1
    <3>2. CASE \E n \in DOMAIN w : h[i] = w[n]
      <4>1. PICK k \in DOMAIN histories : h[i] = histories[k] /\ histories[k].key # key
        BY <2>12, <3>2
      <4>2. histories[k].key \in Scopes
        BY <2>3 DEF Entries
      <4>3. d[h[i].key] = due[histories[k].key]
        BY <2>15, <2>16, <4>1, <4>2
      <4> QED
        BY <4>1, <4>3 DEF Hinted, Traced
    <3> QED
      BY <2>15, <3>1, <3>2
  <2>19. Traced(h, d)
    BY <2>15, <2>16, <2>17, <2>18 DEF Traced
  <2>20. pending' = {s \in Scopes : d[s].owed}
    <3>1. pending = {s \in Scopes : due[s].owed}
      BY DEF Hinted
    <3>2. d[key].owed <=> due[key].owed \/ Repeats(last)
      BY <2>9, <2>11, <2>16 DEF p
    <3>3. key \notin evicted
      BY <2>10, <2>15
    <3>4. \A s \in Scopes : s \in evicted => ~d[s].owed
      BY <2>16, NoRunOK
    <3>5. \A s \in Scopes : s \notin evicted /\ s # key => (d[s].owed <=> due[s].owed)
      BY <2>16
    <3>6. \A s : s \in pending' <=> (s \in pending /\ s \notin evicted) \/ (Repeats(last) /\ s = key)
      BY <2>1
    <3>7. \A s : s \in pending' <=> s \in Scopes /\ d[s].owed
      BY <2>2, <3>1, <3>2, <3>3, <3>4, <3>5, <3>6
    <3> QED
      BY <3>7
  <2> QED
    BY <2>1, <2>19, <2>20 DEF Hinted, Traced
<1> QED
  BY <1>1, <1>2

-----------------------------------------------------------------------------
(* What a call holds, and the tokens it has yet to count *)

\* A prefix the stream repetition detector looked at, or was too short to look at.
Looked(text, n) == n >= MinText => ~ScanTail(SubSeq(text, 1, n))

\* What holds of a caller's record at each of its positions.
Shape(c, r) ==
  /\ r.pc # "idle" => r.scope \in Scopes
  /\ r.pc \notin Hooks => r.usage = None
  /\ r.pc # "request" => r.pos = 0 /\ r.given = 0
  /\ r.pc = "request" => /\ r.given = r.pos /\ r.pos <= Len(r.text)
                         /\ r.since < Interval /\ r.since <= r.pos
                         /\ Looked(r.text, r.pos - r.since)
  /\ ~Args[c].stream => r.pos = 0
Shapes == \A c \in Callers : Shape(c, call[c])

\* The tokens a response adds to its task, and those its call has yet to count.
Due(r, t) == IF Counts(r) /\ r.scope[1] = t THEN r.usage ELSE 0
Owes(r, t) == IF r.pc = "account" THEN Due(r, t) ELSE 0
Balanced(c, r) == uncounted' = [t \in Tasks |-> uncounted[t] - Owes(call[c], t) + Owes(r, t)]
Tallied ==
  /\ uncounted \in [Tasks -> Int]
  /\ \A t \in Tasks : IsFiniteSet(Uncounted(t))
  /\ UsageOnce

\* One call moves on and the counters follow it.
Moves(c) == \E r : Becomes(c, r) /\ Shape(c, r) /\ Balanced(c, r)

\* A number of tokens of one call are as many pairs.
LEMMA SharesCount ==
  ASSUME NEW c, NEW n \in Nat
  PROVE  IsFiniteSet({c} \X (1..n)) /\ Cardinality({c} \X (1..n)) = n
<1>1. IsFiniteSet({c}) /\ Cardinality({c}) = 1
  BY FS_Singleton
<1>2. IsFiniteSet(1..n) /\ Cardinality(1..n) = n
  BY FS_Interval
<1>3. /\ IsFiniteSet({c} \X (1..n))
      /\ Cardinality({c} \X (1..n)) = Cardinality({c}) * Cardinality(1..n)
  BY <1>1, <1>2, FS_Product
<1> QED
  BY <1>1, <1>2, <1>3

\* What a response adds is a number.
LEMMA DueIsNat ==
  ASSUME ProxyAssumption, NEW r \in CallRecords, NEW t
  PROVE  Due(r, t) \in Nat /\ Owes(r, t) \in Nat
<1>1. r.usage \in Nat \cup {None} /\ None = -1
  BY DEF CallRecords, ProxyAssumption, None
<1>2. Counts(r) => r.usage \in Nat
  BY <1>1 DEF Counts
<1> QED
  BY <1>2 DEF Due, Owes

\* A call's share is as large as what it owes.
LEMMA ShareIs ==
  ASSUME ProxyAssumption, CallsOK, NEW c \in Callers, NEW t
  PROVE  /\ IsFiniteSet(Share(c, t)) /\ Cardinality(Share(c, t)) = Owes(call[c], t)
         /\ Share(c, t) \subseteq {c} \X Nat
<1>1. Owes(call[c], t) \in Nat
  BY DueIsNat DEF CallsOK
<1>2. CASE call[c].pc = "account" /\ Counts(call[c]) /\ call[c].scope[1] = t
  <2>1. Share(c, t) = {c} \X (1..call[c].usage) /\ Owes(call[c], t) = call[c].usage
    BY <1>2 DEF Share, Owes, Due
  <2>2. 1..call[c].usage \subseteq Nat
    BY <1>1, <2>1
  <2> QED
    <3> DEFINE n == call[c].usage
    <3>1. n \in Nat
      BY <1>1, <2>1
    <3> HIDE DEF n
    <3>2. IsFiniteSet({c} \X (1..n)) /\ Cardinality({c} \X (1..n)) = n
      BY <3>1, SharesCount
    <3>3. {c} \X (1..n) \subseteq {c} \X Nat
      BY <3>1
    <3> QED
      BY <2>1, <3>2, <3>3 DEF n
<1>3. CASE ~(call[c].pc = "account" /\ Counts(call[c]) /\ call[c].scope[1] = t)
  <2>1. Share(c, t) = {} /\ Owes(call[c], t) = 0
    BY <1>3 DEF Share, Owes, Due
  <2> QED
    BY <2>1, FS_EmptySet
<1> QED
  BY <1>2, <1>3

\* When one call moves on, its share of the uncounted tokens is replaced.
LEMMA Recount ==
  ASSUME ProxyAssumption, CallsOK, CallsOK', NEW c \in Callers, NEW r, Becomes(c, r),
         NEW t, IsFiniteSet(Uncounted(t))
  PROVE  /\ IsFiniteSet(Uncounted(t)')
         /\ Cardinality(Uncounted(t)') = Cardinality(Uncounted(t)) - Owes(call[c], t) + Owes(r, t)
<1> DEFINE rest == UNION {Share(i, t) : i \in Callers \ {c}}
           old == Share(c, t)
           new == Share(c, t)'
<1>1. call'[c] = r /\ \A i \in Callers \ {c} : call'[i] = call[i]
  BY DEF Becomes, CallsOK
<1>2. IsFiniteSet(old) /\ Cardinality(old) = Owes(call[c], t) /\ Owes(call[c], t) \in Nat
  <2>1. Owes(call[c], t) \in Nat
    BY DueIsNat DEF CallsOK
  <2> QED
    BY <2>1, ShareIs
<1>3. \A i \in Callers : Share(i, t) \subseteq {i} \X Nat
  BY ShareIs
<1>4. /\ IsFiniteSet(new) /\ Cardinality(new) = Owes(r, t) /\ Owes(r, t) \in Nat
      /\ new \subseteq {c} \X Nat
  <2>1. r \in CallRecords
    BY <1>1 DEF CallsOK, CallRecords, Hooks, Scopes, Tpm, None
  <2>2. Owes(r, t) \in Nat
    BY <2>1, DueIsNat
  <2>3. new = IF r.pc = "account" /\ Counts(r) /\ r.scope[1] = t THEN {c} \X (1..r.usage) ELSE {}
    BY <1>1 DEF Share, Counts
  <2>4. CASE r.pc = "account" /\ Counts(r) /\ r.scope[1] = t
    <3>1. new = {c} \X (1..r.usage) /\ Owes(r, t) = r.usage
      BY <2>3, <2>4 DEF Owes, Due
    <3>2. 1..r.usage \subseteq Nat
      BY <2>2, <3>1
    <3> HIDE DEF new
    <3> QED
      BY <2>2, <3>1, <3>2, SharesCount
  <2>5. CASE ~(r.pc = "account" /\ Counts(r) /\ r.scope[1] = t)
    <3>1. new = {} /\ Owes(r, t) = 0
      BY <2>3, <2>5 DEF Owes, Due
    <3> HIDE DEF new
    <3> QED
      BY <3>1, FS_EmptySet
  <2> QED
    BY <2>4, <2>5
<1>5. Uncounted(t) = rest \cup old
  BY DEF Uncounted
<1>6. Uncounted(t)' = rest \cup new
  <2>1. \A i \in Callers \ {c} : Share(i, t)' = Share(i, t)
    BY <1>1 DEF Share, Counts
  <2>2. Uncounted(t)' = UNION {Share(i, t)' : i \in Callers}
    BY DEF Uncounted
  <2>3. {Share(i, t)' : i \in Callers} = {Share(i, t) : i \in Callers \ {c}} \cup {new}
    <3> HIDE DEF new
    <3> QED
      BY <2>1 DEF new
  <2> QED
    BY <2>2, <2>3
<1>7. rest \cap old = {} /\ rest \cap new = {}
  <2> HIDE DEF old, new
  <2>1. old \subseteq {c} \X Nat
    BY <1>3 DEF old
  <2> QED
    BY <1>3, <1>4, <2>1
<1> HIDE DEF rest, old, new
<1>8. IsFiniteSet(rest) /\ Cardinality(rest) \in Nat
  BY <1>5, FS_Subset, FS_CardinalityType
<1>9. Cardinality({}) = 0
  BY FS_EmptySet
<1>10. Cardinality(Uncounted(t)) = Cardinality(rest) + Cardinality(old) - Cardinality({})
  BY <1>2, <1>5, <1>7, <1>8, FS_Union
<1>11. /\ IsFiniteSet(Uncounted(t)')
       /\ Cardinality(Uncounted(t)') = Cardinality(rest) + Cardinality(new) - Cardinality({})
  <2>1. /\ IsFiniteSet(rest \cup new)
        /\ Cardinality(rest \cup new) = Cardinality(rest) + Cardinality(new) - Cardinality(rest \cap new)
    BY <1>4, <1>8, FS_Union
  <2> QED
    BY <1>6, <1>7, <2>1
<1>12. Cardinality(Uncounted(t)') = Cardinality(Uncounted(t)) - Owes(call[c], t) + Owes(r, t)
  BY <1>2, <1>4, <1>8, <1>9, <1>10, <1>11
<1> QED
  BY <1>11, <1>12

\* A call that moves on keeps the shapes and the balance.
LEMMA MovesKeep ==
  ASSUME ProxyAssumption, CallsOK, CallsOK', Shapes, Tallied, NEW c \in Callers, Moves(c)
  PROVE  Shapes' /\ Tallied'
<1>1. PICK r : Becomes(c, r) /\ Shape(c, r) /\ Balanced(c, r)
  BY DEF Moves
<1>2. call'[c] = r /\ \A i \in Callers \ {c} : call'[i] = call[i]
  BY <1>1 DEF Becomes, CallsOK
<1>3. Shapes'
  <2> SUFFICES ASSUME NEW i \in Callers PROVE Shape(i, call'[i])
    BY DEF Shapes, Shape, Hooks, Scopes, None, Looked, ScanTail
  <2> QED
    BY <1>1, <1>2 DEF Shapes
<1>4. \A t : Owes(call[c], t) \in Nat /\ Owes(r, t) \in Nat
  <2>1. call[c] \in CallRecords
    BY DEF CallsOK
  <2>2. r \in CallRecords
    BY <1>2 DEF CallsOK, CallRecords, Hooks, Scopes, Tpm, None
  <2> QED
    BY <2>1, <2>2, DueIsNat
<1>5. uncounted' \in [Tasks -> Int]
  BY <1>1, <1>4 DEF Balanced, Tallied
<1>6. ASSUME NEW t \in Tasks
      PROVE  IsFiniteSet(Uncounted(t)') /\ uncounted'[t] = Cardinality(Uncounted(t)')
  <2>1. IsFiniteSet(Uncounted(t)) /\ uncounted[t] = Cardinality(Uncounted(t))
    BY DEF Tallied, UsageOnce
  <2>2. /\ IsFiniteSet(Uncounted(t)')
        /\ Cardinality(Uncounted(t)') = Cardinality(Uncounted(t)) - Owes(call[c], t) + Owes(r, t)
    BY <1>1, <2>1, Recount
  <2>3. uncounted'[t] = uncounted[t] - Owes(call[c], t) + Owes(r, t)
    BY <1>1 DEF Balanced
  <2> QED
    BY <2>1, <2>2, <2>3
<1>7. Tallied'
  BY <1>5, <1>6 DEF Tallied, UsageOnce, Tasks, Scopes
<1> QED
  BY <1>3, <1>7

-----------------------------------------------------------------------------
(* The steps of a call *)

\* The counters of a report and of its accounting.
LEMMA Reports ==
  ASSUME ProxyAssumption, NEW u \in [Tasks -> Int], NEW r \in CallRecords, r.scope \in Scopes
  PROVE  /\ Reported(u, r) = [t \in Tasks |-> u[t] + Due(r, t)]
         /\ Accounted(u, r) = [t \in Tasks |-> u[t] - Due(r, t)]
         /\ Accounted(Reported(u, r), r) = u
<1>1. r.scope[1] \in Tasks
  BY DEF Tasks
<1>2. CASE ~Counts(r)
  BY <1>2 DEF Reported, Accounted, Due
<1>3. CASE Counts(r)
  <2> DEFINE n == r.usage
             k == r.scope[1]
  <2>1. n \in Int
    <3>1. Due(r, k) = n /\ Due(r, k) \in Nat
      BY <1>3, DueIsNat DEF Due
    <3> HIDE DEF n
    <3> QED
      BY <3>1
  <2>2. /\ Reported(u, r) = [u EXCEPT ![k] = @ + n]
        /\ Accounted(u, r) = [u EXCEPT ![k] = @ - n]
        /\ Accounted(Reported(u, r), r) = [[u EXCEPT ![k] = @ + n] EXCEPT ![k] = @ - n]
    BY <1>3 DEF Reported, Accounted
  <2>3. \A t : Due(r, t) = IF t = k THEN n ELSE 0
    BY <1>3 DEF Due
  <2>4. k \in Tasks
    BY <1>1
  <2> HIDE DEF n, k
  <2>5. [u EXCEPT ![k] = @ + n] = [t \in Tasks |-> u[t] + Due(r, t)]
    <3> DEFINE f == [u EXCEPT ![k] = @ + n]
    <3>1. f = [t \in Tasks |-> f[t]] /\ \A t \in Tasks : f[t] = IF t = k THEN u[t] + n ELSE u[t]
      BY <2>4
    <3>2. \A t \in Tasks : u[t] \in Int /\ u[t] + 0 = u[t]
      OBVIOUS
    <3> HIDE DEF f
    <3>3. \A t \in Tasks : f[t] = u[t] + Due(r, t)
      BY <2>3, <3>1, <3>2
    <3>4. f = [t \in Tasks |-> u[t] + Due(r, t)]
      BY <3>1, <3>3, Zenon
    <3> QED
      BY <3>4 DEF f
  <2>6. [u EXCEPT ![k] = @ - n] = [t \in Tasks |-> u[t] - Due(r, t)]
    <3> DEFINE f == [u EXCEPT ![k] = @ - n]
    <3>1. f = [t \in Tasks |-> f[t]] /\ \A t \in Tasks : f[t] = IF t = k THEN u[t] - n ELSE u[t]
      BY <2>4
    <3>2. \A t \in Tasks : u[t] \in Int /\ u[t] - 0 = u[t]
      OBVIOUS
    <3> HIDE DEF f
    <3>3. \A t \in Tasks : f[t] = u[t] - Due(r, t)
      BY <2>3, <3>1, <3>2
    <3>4. f = [t \in Tasks |-> u[t] - Due(r, t)]
      BY <3>1, <3>3, Zenon
    <3> QED
      BY <3>4 DEF f
  <2>7. [[u EXCEPT ![k] = @ + n] EXCEPT ![k] = @ - n] = u
    <3>1. u[k] \in Int /\ n \in Int
      BY <2>1, <2>4
    <3> DEFINE x == u[k] + n
               f == [u EXCEPT ![k] = x]
    <3>2. [f EXCEPT ![k] = x - n] = u
      <4>1. x - n = u[k]
        BY <3>1
      <4> HIDE DEF x
      <4> QED
        BY <2>4, <4>1
    <3>3. f[k] = x
      BY <2>4
    <3> QED
      BY <3>2, <3>3, Zenon
  <2> QED
    BY <2>2, <2>5, <2>6, <2>7, Zenon
<1> QED
  BY <1>2, <1>3

\* A step that neither reports nor accounts leaves the counters alone.
LEMMA Even ==
  ASSUME uncounted \in [Tasks -> Int], uncounted' = uncounted, NEW c, NEW r,
         \A t \in Tasks : Owes(call[c], t) = 0 /\ Owes(r, t) = 0
  PROVE  Balanced(c, r)
  BY DEF Balanced

\* The end of a call: what it had yet to count is counted.
LEMMA EndMoves ==
  ASSUME ProxyAssumption, CallsOK, Shapes, Tallied, NEW c \in Callers, Becomes(c, Ended(c)),
         uncounted' = IF call[c].pc = "account" THEN Accounted(uncounted, call[c]) ELSE uncounted
  PROVE  Moves(c)
<1> DEFINE q == call[c]
           r == Ended(c)
<1>1. q \in CallRecords /\ Shape(c, q) /\ uncounted \in [Tasks -> Int]
  BY DEF CallsOK, Shapes, Tallied
<1>2. Shape(c, r)
  BY DEF Shape, Ended, Idle, Hooks
<1>3. \A t \in Tasks : Owes(r, t) = 0
  BY DEF Owes, Ended, Idle
<1> HIDE DEF q, r
<1>4. CASE q.pc = "account"
  <2>1. q.scope \in Scopes
    BY <1>1, <1>4 DEF Shape
  <2>2. uncounted' = [t \in Tasks |-> uncounted[t] - Due(q, t)]
    BY <1>1, <1>4, <2>1, Reports DEF q
  <2>3. \A t \in Tasks : Owes(q, t) = Due(q, t) /\ Due(q, t) \in Nat
    BY <1>1, <1>4, DueIsNat DEF Owes
  <2>4. \A t \in Tasks : uncounted[t] - Due(q, t) = uncounted[t] - Owes(q, t) + Owes(r, t)
    BY <1>1, <1>3, <2>3
  <2>5. Balanced(c, r)
    BY <2>2, <2>4 DEF Balanced, q
  <2> QED
    BY <1>2, <2>5 DEF Moves, r
<1>5. CASE q.pc # "account"
  <2>1. \A t \in Tasks : Owes(q, t) = 0
    BY <1>5 DEF Owes
  <2>2. Balanced(c, r)
    BY <1>1, <1>3, <1>5, <2>1, Even DEF q
  <2> QED
    BY <1>2, <2>2 DEF Moves, r
<1> QED
  BY <1>4, <1>5

\* A request is sent, for the first time or again.
LEMMA SentMoves ==
  ASSUME ProxyAssumption, CallsOK, Shapes, Tallied, NEW c \in Callers,
         call[c].pc \in {"limit", "slept", "backoff"}, Sent(c, call[c]), uncounted' = uncounted
  PROVE  Moves(c)
<1> DEFINE q == call[c]
<1>1. /\ q \in CallRecords /\ Shape(c, q) /\ uncounted \in [Tasks -> Int]
      /\ q.pc \in {"limit", "slept", "backoff"}
  BY DEF CallsOK, Shapes, Tallied
<1>2. PICK text \in Texts \cup {<<>>} :
        Becomes(c, [q EXCEPT !.pc = "request", !.text = text, !.pos = 0, !.since = 0])
  BY DEF Sent
<1>3. Len(text) \in Nat /\ Interval \in Nat /\ Interval > 0 /\ MinText \in Nat /\ MinText > 0
  <2>1. text \in Seq(Nat)
    <3>1. <<>> \in Seq(Nat)
      OBVIOUS
    <3>2. Texts \subseteq Seq(Nat)
      BY TextAssumption
    <3> QED
      BY <3>1, <3>2, Zenon
  <2> QED
    BY <2>1 DEF ProxyAssumption
<1> HIDE DEF q
<1> DEFINE r == [q EXCEPT !.pc = "request", !.text = text, !.pos = 0, !.since = 0]
<1>4. Looked(text, 0)
  BY <1>3 DEF Looked
<1>5. Shape(c, r)
  <2>1. /\ r.pc = "request" /\ r.text = text /\ r.pos = 0 /\ r.since = 0 /\ r.scope = q.scope
        /\ r.given = q.given /\ r.usage = q.usage
    BY <1>1 DEF CallRecords
  <2>2. q.given = 0 /\ q.scope \in Scopes /\ q.usage = None
    BY <1>1 DEF Shape, Hooks
  <2> HIDE DEF r
  <2>3. r.pos - r.since = 0
    BY <2>1
  <2> QED
    BY <1>3, <1>4, <2>1, <2>2, <2>3 DEF Shape
<1>6. \A t \in Tasks : Owes(q, t) = 0 /\ Owes(r, t) = 0
  BY <1>1 DEF Owes, CallRecords
<1>7. Balanced(c, r)
  <2> HIDE DEF r
  <2> QED
    BY <1>1, <1>6, Even DEF q
<1> QED
  BY <1>2, <1>5, <1>7 DEF Moves

\* A stream enters its after hooks with what was reported.
LEMMA HooksMove ==
  ASSUME ProxyAssumption, CallsOK, Tallied, NEW c \in Callers, call[c].pc # "account",
         NEW q \in CallRecords, q.scope \in Scopes, q.given = q.pos, ToHooks(c, q),
         uncounted' = Reported(uncounted, q)
  PROVE  Moves(c)
<1> DEFINE g == q.given - q.pos
           r == [q EXCEPT !.pc = "account", !.text = <<>>, !.since = 0, !.pos = 0, !.given = g, !.attempt = 0]
<1>1. g = 0
  BY DEF CallRecords
<1>2. Becomes(c, r)
  BY DEF ToHooks
<1> HIDE DEF g
<1>3. /\ r.pc = "account" /\ r.pos = 0 /\ r.given = g /\ r.scope = q.scope /\ r.usage = q.usage
  BY DEF CallRecords
<1> HIDE DEF r
<1>4. Shape(c, r)
  BY <1>1, <1>3 DEF Shape, Hooks
<1>5. \A t \in Tasks : Owes(call[c], t) = 0 /\ Owes(r, t) = Due(q, t) /\ Due(q, t) \in Nat
  BY <1>3, DueIsNat DEF Owes, Due, Counts
<1>6. uncounted \in [Tasks -> Int] /\ uncounted' = [t \in Tasks |-> uncounted[t] + Due(q, t)]
  BY Reports DEF Tallied
<1>7. \A t \in Tasks : uncounted[t] + Due(q, t) = uncounted[t] - Owes(call[c], t) + Owes(r, t)
  BY <1>5, <1>6
<1>8. Balanced(c, r)
  BY <1>6, <1>7 DEF Balanced
<1> QED
  BY <1>2, <1>4, <1>8 DEF Moves

\* The end of a stream.
LEMMA SettleMoves ==
  ASSUME ProxyAssumption, CallsOK, Tallied, NEW c \in Callers, call[c].pc # "account",
         NEW q \in CallRecords, q.scope \in Scopes, q.given = q.pos, Settle(c, q)
  PROVE  Moves(c)
<1>1. PICK sig \in Signatures \cup {0}, usage \in Usages \cup {None} :
        LET end == [q EXCEPT !.sig = sig, !.usage = usage] IN
        uncounted' = Reported(uncounted, end) /\ ToHooks(c, end)
  BY DEF Settle
<1> DEFINE end == [q EXCEPT !.sig = sig, !.usage = usage]
<1>2. end \in CallRecords /\ end.scope = q.scope /\ end.given = q.given /\ end.pos = q.pos
  BY DEF CallRecords
<1>3. uncounted' = Reported(uncounted, end) /\ ToHooks(c, end)
  BY <1>1
<1> HIDE DEF end
<1> QED
  BY <1>2, <1>3, HooksMove

\* A failed attempt that is made again had given nothing.
LEMMA BackoffMoves ==
  ASSUME ProxyAssumption, CallsOK, Shapes, Tallied, NEW c \in Callers, call[c].pc = "request",
         call[c].pos = 0, Becomes(c, BackedOff(call[c])), uncounted' = uncounted
  PROVE  Moves(c)
<1> DEFINE q == call[c]
           r == BackedOff(q)
<1>1. /\ q \in CallRecords /\ Shape(c, q) /\ uncounted \in [Tasks -> Int]
      /\ q.pc = "request" /\ q.pos = 0
  BY DEF CallsOK, Shapes, Tallied
<1> HIDE DEF q
<1>2. /\ r.pc = "backoff" /\ r.pos = q.pos /\ r.given = q.given /\ r.scope = q.scope /\ r.usage = q.usage
  BY <1>1 DEF BackedOff, CallRecords
<1>3. q.given = 0 /\ q.scope \in Scopes /\ q.usage = None
  BY <1>1 DEF Shape, Hooks
<1> HIDE DEF r
<1>4. Shape(c, r)
  BY <1>1, <1>2, <1>3 DEF Shape, Hooks
<1>5. \A t \in Tasks : Owes(q, t) = 0 /\ Owes(r, t) = 0
  BY <1>1, <1>2 DEF Owes
<1>6. Balanced(c, r)
  BY <1>1, <1>5, Even DEF q
<1> QED
  BY <1>4, <1>6 DEF Moves, r, q

\* A record that differs where neither the shape nor the balance looks.
LEMMA SideMoves ==
  ASSUME CallsOK, Shapes, Tallied, NEW c \in Callers, NEW r, Becomes(c, r), uncounted' = uncounted,
         call[c].pc # "request", call[c].pc # "account", r.pc # "request", r.pc # "account",
         call[c].pc # "idle", r.pc \in Hooks \/ call[c].pc \notin Hooks,
         r.scope = call[c].scope, r.usage = call[c].usage, r.pos = call[c].pos, r.given = call[c].given
  PROVE  Moves(c)
<1>1. Shape(c, call[c]) /\ uncounted \in [Tasks -> Int]
  BY DEF Shapes, Tallied
<1>2. Shape(c, r)
  BY <1>1 DEF Shape
<1>3. \A t \in Tasks : Owes(call[c], t) = 0 /\ Owes(r, t) = 0
  BY DEF Owes
<1>4. Balanced(c, r)
  BY <1>1, <1>3, Even
<1> QED
  BY <1>2, <1>4 DEF Moves

\* A delta reaches the consumer: it is of the attempt under way, and the detector
\* looks at least once per interval.
LEMMA ChunkMoves ==
  ASSUME ProxyAssumption, CallsOK, Shapes, Tallied, NEW c \in Callers, Chunk(c)
  PROVE  Moves(c)
<1> DEFINE q == call[c]
<1>1. q \in CallRecords /\ Shape(c, q) /\ uncounted \in [Tasks -> Int] /\ q.pc = "request" /\ Args[c].stream
  BY DEF CallsOK, Shapes, Tallied, Chunk
<1>2. PICK k \in ChunkSizes :
        /\ q.pos + k <= Len(q.text)
        /\ LET hook == OnChunk(q, k)
               on == [q EXCEPT !.pos = @ + k, !.given = @ + k, !.since = hook.since] IN
           IF hook.abort THEN Settle(c, [on EXCEPT !.whole = TRUE])
           ELSE Becomes(c, on) /\ UNCHANGED uncounted
  BY DEF Chunk
<1> DEFINE hook == OnChunk(q, k)
           p == q.pos + k
           g == q.given + k
           s == hook.since
           on == [q EXCEPT !.pos = p, !.given = g, !.since = s]
<1>3. /\ p <= Len(q.text)
      /\ IF hook.abort THEN Settle(c, [on EXCEPT !.whole = TRUE])
         ELSE Becomes(c, on) /\ uncounted' = uncounted
  BY <1>2
<1>4. /\ q.pos \in Nat /\ q.given \in Int /\ q.since \in Nat /\ q.given = q.pos /\ k \in Nat
      /\ Interval \in Nat /\ Interval > 0 /\ MinText \in Nat
      /\ q.since < Interval /\ q.since <= q.pos /\ q.scope \in Scopes /\ q.usage = None
      /\ Looked(q.text, q.pos - q.since)
  <2> HIDE DEF q
  <2>1. q.pos \in Nat /\ q.given \in Int /\ q.since \in Nat
    BY <1>1 DEF CallRecords
  <2>2. k \in Nat /\ Interval \in Nat /\ Interval > 0 /\ MinText \in Nat
    BY DEF ProxyAssumption
  <2>3. /\ q.given = q.pos /\ q.since < Interval /\ q.since <= q.pos /\ q.scope \in Scopes /\ q.usage = None
        /\ Looked(q.text, q.pos - q.since)
    BY <1>1 DEF Shape, Hooks
  <2> QED
    BY <2>1, <2>2, <2>3
<1>5. q.text \in Seq(Nat)
  <2>1. <<>> \in Seq(Nat)
    OBVIOUS
  <2>2. Texts \subseteq Seq(Nat)
    BY TextAssumption
  <2>3. q.text \in Texts \cup {<<>>}
    BY <1>1 DEF CallRecords
  <2> QED
    BY <2>1, <2>2, <2>3, Zenon
<1> HIDE DEF q
<1>6. /\ p \in Nat /\ q.since <= p /\ q.since + k \in Nat /\ q.since + k <= p
      /\ p < MinText => ~(p - q.since >= MinText)
      /\ p - (q.since + k) = q.pos - q.since
      /\ p - 0 = p /\ 0 <= p
  <2> DEFINE a == q.pos
             b == q.since
  <2>1. a \in Nat /\ b \in Nat /\ k \in Nat /\ MinText \in Nat /\ b <= a /\ p = a + k
    BY <1>4
  <2> HIDE DEF a, b, p
  <2>2. p \in Nat /\ b <= p /\ b + k \in Nat /\ b + k <= p /\ p - 0 = p /\ 0 <= p
    BY <2>1
  <2>3. p < MinText => ~(p - b >= MinText)
    BY <2>1
  <2>4. p - (b + k) = a - b
    BY <2>1
  <2> QED
    BY <2>2, <2>3, <2>4 DEF a, b
<1>12. g = p
  BY <1>4
<1>7. Len(SubSeq(q.text, 1, p)) = p
  <2> HIDE DEF p
  <2> QED
    BY <1>3, <1>5, <1>6
<1>8. /\ s \in Nat /\ s < Interval /\ s <= p
      /\ ~hook.abort => Looked(q.text, p - s)
  <2>1. CASE p < MinText
    <3>1. hook = [since |-> q.since, abort |-> FALSE]
      BY <1>7, <2>1 DEF OnChunk
    <3>2. s = q.since
      BY <3>1
    <3>3. ~(p - q.since >= MinText) /\ q.since <= p
      BY <1>6, <2>1, Zenon
    <3> HIDE DEF p
    <3> QED
      BY <1>4, <3>2, <3>3 DEF Looked
  <2>2. CASE ~(p < MinText) /\ q.since + k < Interval
    <3>1. hook = [since |-> q.since + k, abort |-> FALSE]
      BY <1>7, <2>2 DEF OnChunk
    <3>2. s = q.since + k
      BY <3>1
    <3>3. p - (q.since + k) = q.pos - q.since /\ q.since + k \in Nat /\ q.since + k <= p
      BY <1>6, Zenon
    <3> HIDE DEF p, s
    <3>4. Looked(q.text, p - s)
      BY <1>4, <3>2, <3>3, Zenon
    <3> QED
      BY <2>2, <3>2, <3>3, <3>4
  <2>3. CASE ~(p < MinText) /\ ~(q.since + k < Interval)
    <3>1. hook = [since |-> 0, abort |-> ScanTail(SubSeq(q.text, 1, p))]
      BY <1>7, <2>3 DEF OnChunk
    <3>2. s = 0 /\ (hook.abort <=> ScanTail(SubSeq(q.text, 1, p)))
      BY <3>1
    <3>3. p - 0 = p /\ 0 <= p
      BY <1>6
    <3> HIDE DEF p, s, hook
    <3> QED
      BY <1>4, <3>2, <3>3 DEF Looked
  <2> QED
    BY <2>1, <2>2, <2>3
<1> HIDE DEF p, g, s, hook
<1>9. /\ on \in CallRecords /\ on.pc = "request" /\ on.pos = p /\ on.given = g /\ on.since = s
      /\ on.text = q.text /\ on.scope = q.scope /\ on.usage = q.usage
  <2>1. p \in Nat /\ g \in Int /\ s \in Nat
    BY <1>6, <1>12, <1>8
  <2> QED
    BY <1>1, <2>1 DEF CallRecords
<1> HIDE DEF on
<1>10. CASE hook.abort
  <2> DEFINE r == [on EXCEPT !.whole = TRUE]
  <2>1. r \in CallRecords /\ r.scope = on.scope /\ r.given = on.given /\ r.pos = on.pos
    BY <1>9 DEF CallRecords
  <2>2. Settle(c, r) /\ call[c].pc # "account"
    BY <1>1, <1>3, <1>10 DEF q
  <2> HIDE DEF r
  <2> QED
    BY <1>4, <1>12, <1>9, <2>1, <2>2, SettleMoves
<1>11. CASE ~hook.abort
  <2>1. Becomes(c, on) /\ uncounted' = uncounted
    BY <1>3, <1>11
  <2>2. Shape(c, on)
    <3>1. on.pos <= Len(on.text) /\ Looked(on.text, on.pos - on.since)
      BY <1>3, <1>8, <1>9, <1>11
    <3> QED
      BY <1>1, <1>4, <1>12, <1>8, <1>9, <3>1 DEF Shape
  <2>3. \A t \in Tasks : Owes(q, t) = 0 /\ Owes(on, t) = 0
    BY <1>1, <1>9 DEF Owes
  <2>4. Balanced(c, on)
    BY <1>1, <2>1, <2>3, Even DEF q
  <2> QED
    BY <2>1, <2>2, <2>4 DEF Moves
<1> QED
  BY <1>10, <1>11

\* The accounting hook counts what its call had reported.
LEMMA CountMoves ==
  ASSUME ProxyAssumption, CallsOK, Shapes, Tallied, NEW c \in Callers, call[c].pc = "account",
         NEW r, Becomes(c, r), r.pc \in Hooks \ {"account"}, r.scope = call[c].scope,
         r.pos = call[c].pos, r.given = call[c].given, uncounted' = Accounted(uncounted, call[c])
  PROVE  Moves(c)
<1> DEFINE q == call[c]
<1>1. q \in CallRecords /\ Shape(c, q) /\ uncounted \in [Tasks -> Int] /\ q.pc = "account"
  BY DEF CallsOK, Shapes, Tallied
<1> HIDE DEF q
<1>2. q.scope \in Scopes /\ q.pos = 0 /\ q.given = 0
  BY <1>1 DEF Shape
<1>3. Shape(c, r)
  BY <1>2 DEF Shape, Hooks, q
<1>4. \A t \in Tasks : Owes(r, t) = 0
  BY DEF Owes
<1>5. uncounted' = [t \in Tasks |-> uncounted[t] - Due(q, t)]
  BY <1>1, <1>2, Reports DEF q
<1>6. \A t \in Tasks : Owes(q, t) = Due(q, t) /\ Due(q, t) \in Nat
  BY <1>1, DueIsNat DEF Owes
<1>7. \A t \in Tasks : uncounted[t] - Due(q, t) = uncounted[t] - Owes(q, t) + Owes(r, t)
  BY <1>1, <1>4, <1>6
<1>8. Balanced(c, r)
  BY <1>5, <1>7 DEF Balanced, q
<1> QED
  BY <1>3, <1>8 DEF Moves

\* A call begins.
LEMMA StartMoves ==
  ASSUME CallsOK, Tallied, NEW c \in Callers, Start(c)
  PROVE  Moves(c)
<1>1. PICK scope \in Args[c].scopes, estimated \in Estimates :
        Becomes(c, [Idle(call[c].made + 1) EXCEPT !.pc = "limit", !.scope = scope,
                                                  !.reserved = ReservationSize(estimated)])
  BY DEF Start
<1> DEFINE r == [Idle(call[c].made + 1) EXCEPT !.pc = "limit", !.scope = scope,
                                               !.reserved = ReservationSize(estimated)]
<1>2. r.pc = "limit" /\ r.scope = scope /\ r.pos = 0 /\ r.given = 0 /\ r.usage = None
  BY DEF Idle
<1>3. Becomes(c, r) /\ scope \in Scopes
  BY <1>1 DEF Scopes
<1> HIDE DEF r
<1>4. Shape(c, r)
  BY <1>2, <1>3 DEF Shape, Hooks
<1>5. call[c].pc = "idle" /\ uncounted' = uncounted /\ uncounted \in [Tasks -> Int]
  BY DEF Start, Tallied
<1>6. \A t \in Tasks : Owes(call[c], t) = 0 /\ Owes(r, t) = 0
  BY <1>2, <1>5 DEF Owes
<1>7. Balanced(c, r)
  BY <1>5, <1>6, Even
<1> QED
  BY <1>3, <1>4, <1>7 DEF Moves

\* A chat's response that has tokens is reported and counted in one step.
LEMMA AnswerMoves ==
  ASSUME ProxyAssumption, CallsOK, Shapes, Tallied, NEW c \in Callers, ChatAnswers(c)
  PROVE  Moves(c)
<1> DEFINE q == call[c]
<1>1. q \in CallRecords /\ Shape(c, q) /\ uncounted \in [Tasks -> Int] /\ q.pc = "request"
  BY DEF CallsOK, Shapes, Tallied, ChatAnswers
<1>2. PICK sig \in Signatures \cup {0}, usage \in Usages \cup {None} :
        LET r == [q EXCEPT !.sig = sig, !.usage = usage, !.whole = TRUE] IN
          \/ /\ uncounted' = Accounted(Reported(uncounted, r), r)
             /\ Becomes(c, [r EXCEPT !.pc = "append", !.attempt = 0])
          \/ Becomes(c, Ended(c)) /\ uncounted' = uncounted
  BY DEF ChatAnswers
<1>3. ~Args[c].stream
  BY DEF ChatAnswers
<1> DEFINE e == [q EXCEPT !.sig = sig, !.usage = usage, !.whole = TRUE]
<1>4. CASE Becomes(c, Ended(c)) /\ uncounted' = uncounted
  BY <1>1, <1>4, EndMoves
<1>5. CASE /\ uncounted' = Accounted(Reported(uncounted, e), e)
           /\ Becomes(c, [e EXCEPT !.pc = "append", !.attempt = 0])
  <2> DEFINE r == [e EXCEPT !.pc = "append", !.attempt = 0]
  <2> HIDE DEF q
  <2>1. q.pos = 0 /\ q.given = 0 /\ q.scope \in Scopes
    BY <1>1, <1>3 DEF Shape
  <2>2. e \in CallRecords /\ e.scope = q.scope /\ e.pos = q.pos /\ e.given = q.given
    BY <1>1 DEF CallRecords
  <2> HIDE DEF e
  <2>3. r.pc = "append" /\ r.scope = e.scope /\ r.pos = e.pos /\ r.given = e.given
    BY <2>2 DEF CallRecords
  <2>4. Becomes(c, r)
    BY <1>5
  <2> HIDE DEF r
  <2>5. uncounted' = uncounted
    BY <1>1, <1>5, <2>1, <2>2, Reports
  <2>6. Shape(c, r)
    BY <2>1, <2>2, <2>3 DEF Shape, Hooks
  <2>7. \A t \in Tasks : Owes(q, t) = 0 /\ Owes(r, t) = 0
    BY <1>1, <2>3 DEF Owes
  <2>8. Balanced(c, r)
    BY <1>1, <2>5, <2>7, Even DEF q
  <2> QED
    BY <2>4, <2>6, <2>8 DEF Moves
<1> QED
  BY <1>2, <1>4, <1>5

\* A call goes on waiting for the bucket, or is let through.
LEMMA AcquireMoves ==
  ASSUME ProxyAssumption, CallsOK, Shapes, Tallied, NEW c \in Callers, Acquire(c)
  PROVE  Moves(c)
<1> DEFINE q == call[c]
           wait == WaitTime(Refill(bucket), q.reserved)
<1>1. q.pc \in {"limit", "slept"} /\ uncounted' = uncounted
  BY DEF Acquire
<1>2. Sent(c, q) \/ Becomes(c, [q EXCEPT !.pc = "slept", !.timer = wait])
  BY DEF Acquire
<1>3. CASE Sent(c, q)
  BY <1>1, <1>3, SentMoves
<1>4. CASE Becomes(c, [q EXCEPT !.pc = "slept", !.timer = wait])
  <2> DEFINE r == [q EXCEPT !.pc = "slept", !.timer = wait]
  <2>1. q \in CallRecords
    BY DEF CallsOK
  <2> HIDE DEF q, wait
  <2>2. r.pc = "slept" /\ r.scope = q.scope /\ r.usage = q.usage /\ r.pos = q.pos /\ r.given = q.given
    BY <2>1 DEF CallRecords
  <2>3. Becomes(c, r)
    BY <1>4
  <2> HIDE DEF r
  <2> QED
    BY <1>1, <2>2, <2>3, SideMoves DEF q, Hooks
<1> QED
  BY <1>2, <1>3, <1>4

\* One after hook of a stream.
LEMMA HookMoves ==
  ASSUME ProxyAssumption, CallsOK, Shapes, Tallied, NEW c \in Callers, StreamHook(c)
  PROVE  Moves(c)
<1> DEFINE q == call[c]
<1>1. q \in CallRecords
  BY DEF CallsOK
<1>2. CASE q.pc = "account"
  <2>1. PICK pc \in {"append", "detect"} :
          Becomes(c, [q EXCEPT !.pc = pc]) /\ uncounted' = Accounted(uncounted, q)
    BY <1>2 DEF StreamHook
  <2> DEFINE r == [q EXCEPT !.pc = pc]
  <2>2. Becomes(c, r) /\ uncounted' = Accounted(uncounted, call[c]) /\ call[c].pc = "account"
    BY <1>2, <2>1
  <2>3. r.pc = pc /\ r.scope = call[c].scope /\ r.pos = call[c].pos /\ r.given = call[c].given
    BY <1>1 DEF CallRecords
  <2> HIDE DEF r, q
  <2>4. r.pc \in Hooks \ {"account"}
    BY <2>3 DEF Hooks
  <2> QED
    BY <2>2, <2>3, <2>4, CountMoves
<1>3. CASE q.pc = "append" \/ q.pc = "detect"
  <2>1. /\ uncounted' = uncounted
        /\ \/ Becomes(c, [q EXCEPT !.pc = "detect"])
           \/ Becomes(c, [q EXCEPT !.pc = "correct", !.sig = 0, !.whole = FALSE])
    BY <1>3 DEF StreamHook
  <2>2. ASSUME NEW r, Becomes(c, r), r.pc \in {"detect", "correct"}, r.scope = q.scope,
               r.usage = q.usage, r.pos = q.pos, r.given = q.given
        PROVE  Moves(c)
    BY <1>3, <2>1, <2>2, SideMoves DEF Hooks
  <2> DEFINE d == [q EXCEPT !.pc = "detect"]
             e == [q EXCEPT !.pc = "correct", !.sig = 0, !.whole = FALSE]
  <2> HIDE DEF q
  <2>3. /\ d.pc = "detect" /\ d.scope = q.scope /\ d.usage = q.usage /\ d.pos = q.pos /\ d.given = q.given
        /\ e.pc = "correct" /\ e.scope = q.scope /\ e.usage = q.usage /\ e.pos = q.pos /\ e.given = q.given
    BY <1>1 DEF CallRecords
  <2>4. Becomes(c, d) \/ Becomes(c, e)
    BY <2>1
  <2> HIDE DEF d, e
  <2> QED
    BY <2>2, <2>3, <2>4
<1>4. CASE q.pc = "correct"
  BY <1>4, EndMoves DEF StreamHook
<1> QED
  BY <1>2, <1>3, <1>4 DEF StreamHook

\* The end or the failure of an attempt at a stream.
LEMMA StreamMoves ==
  ASSUME ProxyAssumption, CallsOK, Shapes, Tallied, NEW c \in Callers,
         StreamEnds(c) \/ StreamFails(c) \/ (Cancel(c) /\ Args[c].stream /\ call[c].pc \in {"request", "backoff"})
  PROVE  Moves(c)
<1> DEFINE q == call[c]
<1>1. q \in CallRecords /\ Shape(c, q) /\ uncounted \in [Tasks -> Int]
  BY DEF CallsOK, Shapes, Tallied
<1>2. q.pc \in {"request", "backoff"}
  BY DEF StreamEnds, StreamFails
<1>3. call[c].pc # "account" /\ q.scope \in Scopes /\ q.given = q.pos /\ q.usage = None /\ q.usage = -1
  BY <1>1, <1>2 DEF Shape, Hooks, None
<1>4. CASE StreamEnds(c)
  <2> DEFINE e == [q EXCEPT !.whole = TRUE]
  <2>1. Settle(c, e)
    BY <1>4 DEF StreamEnds
  <2>2. e \in CallRecords /\ e.scope = q.scope /\ e.given = q.given /\ e.pos = q.pos
    <3> HIDE DEF q
    <3> QED
      BY <1>1 DEF CallRecords
  <2> HIDE DEF e
  <2> QED
    BY <1>3, <2>1, <2>2, SettleMoves
<1>5. CASE Settle(c, q)
  BY <1>1, <1>3, <1>5, SettleMoves
<1>6. CASE ToHooks(c, q) /\ uncounted' = uncounted
  <2>1. Reported(uncounted, q) = uncounted
    BY <1>3 DEF Reported, Counts
  <2> QED
    BY <1>1, <1>3, <1>6, <2>1, HooksMove
<1>7. CASE q.pc = "request" /\ q.pos = 0 /\ Becomes(c, BackedOff(q)) /\ uncounted' = uncounted
  BY <1>7, BackoffMoves
<1>8. StreamFails(c) => \/ Settle(c, q)
                        \/ ToHooks(c, q) /\ uncounted' = uncounted
                        \/ q.pc = "request" /\ q.pos = 0 /\ Becomes(c, BackedOff(q)) /\ uncounted' = uncounted
  BY DEF StreamFails
<1>9. Cancel(c) /\ Args[c].stream /\ q.pc \in {"request", "backoff"} =>
        Settle(c, q) \/ (ToHooks(c, q) /\ uncounted' = uncounted)
  BY DEF Cancel
<1> QED
  BY <1>4, <1>5, <1>6, <1>7, <1>8, <1>9

\* Whatever a caller does moves its own call.
LEMMA CallerMoves ==
  ASSUME ProxyAssumption, CallsOK, Shapes, Tallied, NEW c \in Callers,
         Start(c) \/ Step(c) \/ Cancel(c)
  PROVE  Moves(c)
<1> DEFINE q == call[c]
<1>1. Shape(c, q)
  BY DEF Shapes
<1>2. CASE Retry(c)
  BY <1>2, SentMoves DEF Retry
<1>3. CASE ChatEnds(c)
  BY <1>3, EndMoves DEF ChatEnds
<1>4. CASE ChatFails(c)
  <2>1. /\ q.pc = "request" /\ ~Args[c].stream /\ uncounted' = uncounted
        /\ Becomes(c, BackedOff(q)) \/ Becomes(c, Ended(c))
    BY <1>4 DEF ChatFails
  <2>2. q.pos = 0
    BY <1>1, <2>1 DEF Shape
  <2> QED
    BY <2>1, <2>2, BackoffMoves, EndMoves
<1>5. CASE Cancel(c) /\ ~(Args[c].stream /\ call[c].pc \in {"request", "backoff"})
  BY <1>5, EndMoves DEF Cancel
<1> QED
  BY <1>2, <1>3, <1>4, <1>5, StartMoves, AcquireMoves, AnswerMoves, HookMoves, StreamMoves, ChunkMoves DEF Step

-----------------------------------------------------------------------------
(* The hooks of the chain *)

\* Time passes: only timers change, and nobody's share depends on one.
LEMMA TickMoves ==
  ASSUME CallsOK, Shapes, Tallied, Tick
  PROVE  Shapes' /\ Tallied'
<1>1. \A c \in Callers : \E n : call'[c] = [call[c] EXCEPT !.timer = n]
  BY DEF Tick
<1>2. uncounted' = uncounted
  BY DEF Tick
<1>3. ASSUME NEW c \in Callers
      PROVE  Shape(c, call'[c]) /\ \A t : Share(c, t)' = Share(c, t)
  <2> DEFINE q == call[c]
             r == call'[c]
  <2>1. q \in CallRecords /\ Shape(c, q)
    BY DEF CallsOK, Shapes
  <2>2. PICK n : r = [q EXCEPT !.timer = n]
    BY <1>1
  <2> HIDE DEF q, r
  <2>3. /\ r.pc = q.pc /\ r.scope = q.scope /\ r.usage = q.usage /\ r.pos = q.pos /\ r.given = q.given
        /\ r.text = q.text /\ r.since = q.since
    BY <2>1, <2>2 DEF CallRecords
  <2>4. Shape(c, r)
    BY <2>1, <2>3 DEF Shape
  <2>5. Counts(r) <=> Counts(q)
    BY <2>3 DEF Counts
  <2>6. ASSUME NEW t
        PROVE  Share(c, t)' = Share(c, t)
    <3>1. Share(c, t) = IF q.pc = "account" /\ Counts(q) /\ q.scope[1] = t THEN {c} \X (1..q.usage) ELSE {}
      BY DEF Share, q
    <3>2. Share(c, t)' = IF r.pc = "account" /\ Counts(r) /\ r.scope[1] = t THEN {c} \X (1..r.usage) ELSE {}
      BY DEF Share, r, Counts
    <3> QED
      BY <2>3, <2>5, <3>1, <3>2
  <2> QED
    BY <2>4, <2>6 DEF r
<1>4. Shapes'
  <2> SUFFICES ASSUME NEW c \in Callers PROVE Shape(c, call'[c])
    BY DEF Shapes, Shape, Hooks, Scopes, None, Looked, ScanTail
  <2> QED
    BY <1>3
<1>5. \A t : Uncounted(t)' = Uncounted(t)
  BY <1>3 DEF Uncounted
<1>6. Tallied'
  BY <1>2, <1>5 DEF Tallied, UsageOnce, Tasks, Scopes
<1> QED
  BY <1>4, <1>6

\* A step that touches no call and no counter.
LEMMA CallsStay ==
  ASSUME Shapes, Tallied, UNCHANGED <<call, uncounted>>
  PROVE  Shapes' /\ Tallied'
<1>1. Shapes'
  <2> SUFFICES ASSUME NEW c \in Callers PROVE Shape(c, call'[c])
    BY DEF Shapes, Shape, Hooks, Scopes, None, Looked, ScanTail
  <2> QED
    BY DEF Shapes
<1>2. \A t : Uncounted(t)' = Uncounted(t)
  BY DEF Uncounted, Share, Counts
<1> QED
  BY <1>1, <1>2 DEF Tallied, UsageOnce, Tasks, Scopes

\* Only a caller's own hooks and the end of a task touch the hints.
LEMMA HintsStay ==
  ASSUME Hinted, UNCHANGED <<histories, pending, due>>
  PROVE  Hinted'
  BY DEF Hinted, Traced

\* Whatever a caller does keeps the hints exact.
LEMMA CallerHints ==
  ASSUME ProxyAssumption, CallsOK, Shapes, Hinted, NEW c \in Callers,
         Start(c) \/ Step(c) \/ Cancel(c)
  PROVE  Hinted'
<1> DEFINE q == call[c]
<1>1. q \in CallRecords /\ Shape(c, q)
  BY DEF CallsOK, Shapes
<1>2. q.pc # "idle" => q.scope \in Scopes
  BY <1>1 DEF Shape
<1>3. q.sig \in Signatures \cup {0}
  BY <1>1 DEF CallRecords
<1>4. CASE Acquire(c)
  <2>1. q.pc # "idle" /\ (Hint(q.scope) \/ UNCHANGED <<histories, pending, due>>)
    BY <1>4 DEF Acquire
  <2> QED
    BY <1>2, <2>1, HintKeeps, HintsStay
<1>5. CASE ChatAnswers(c)
  <2>1. PICK sig \in Signatures \cup {0}, usage \in Usages \cup {None} :
          \/ Detect([q EXCEPT !.sig = sig, !.usage = usage, !.whole = TRUE])
          \/ UNCHANGED <<histories, pending, due>>
    BY <1>5 DEF ChatAnswers
  <2> DEFINE r == [q EXCEPT !.sig = sig, !.usage = usage, !.whole = TRUE]
  <2>2. q.scope \in Scopes
    BY <1>2, <1>5 DEF ChatAnswers
  <2> HIDE DEF q
  <2>3. r.scope = q.scope /\ r.sig = sig
    BY <1>1 DEF CallRecords
  <2>4. Detect(r) \/ UNCHANGED <<histories, pending, due>>
    BY <2>1
  <2> HIDE DEF r
  <2> QED
    BY <2>2, <2>3, <2>4, DetectKeeps, HintsStay
<1>6. CASE ChatEnds(c) \/ StreamHook(c)
  <2>1. q.pc # "idle" /\ (Detect(q) \/ UNCHANGED <<histories, pending, due>>)
    BY <1>6 DEF ChatEnds, StreamHook
  <2> QED
    BY <1>2, <1>3, <2>1, DetectKeeps, HintsStay
<1>7. CASE Start(c) \/ Retry(c) \/ ChatFails(c) \/ Chunk(c) \/ StreamEnds(c) \/ StreamFails(c) \/ Cancel(c)
  <2>1. UNCHANGED <<histories, pending, due>>
    BY <1>7 DEF Start, Retry, ChatFails, Chunk, StreamEnds, StreamFails, Cancel
  <2> QED
    BY <2>1, HintsStay
<1> QED
  BY <1>4, <1>5, <1>6, <1>7 DEF Step

\* The inductive invariant of the hooks.
HInv == IInv /\ Shapes /\ Tallied /\ Hinted

\* It holds before any call.
LEMMA HooksBegin == ASSUME ProxyAssumption, Init, IInv PROVE HInv
<1>1. \A c \in Callers : call[c] = Idle(0)
  BY DEF Init
<1>2. Shapes
  BY <1>1 DEF Shapes, Shape, Idle, Hooks
<1>3. \A t : Uncounted(t) = {}
  BY <1>1 DEF Uncounted, Share, Idle
<1>4. Tallied
  <2>1. uncounted = [t \in Tasks |-> 0]
    BY DEF Init
  <2>2. uncounted \in [Tasks -> Int] /\ \A t \in Tasks : uncounted[t] = 0
    BY <2>1
  <2>3. \A t : IsFiniteSet(Uncounted(t)) /\ Cardinality(Uncounted(t)) = 0
    BY <1>3, FS_EmptySet
  <2> QED
    BY <2>2, <2>3 DEF Tallied, UsageOnce
<1>5. Hinted
  <2>1. histories = <<>> /\ pending = {} /\ due = [s \in Scopes |-> NoRun] /\ MaxScopes \in Nat
    BY DEF Init, ProxyAssumption
  <2>2. histories \in Seq(Entries) /\ Len(histories) = 0 /\ DOMAIN histories = {}
    BY <2>1
  <2>3. Keyed(histories)
    BY <2>2 DEF Keyed
  <2>4. due \in [Scopes -> Runs] /\ \A s \in Scopes : due[s] = NoRun /\ due[s].owed = FALSE
    BY <2>1, NoRunOK
  <2> QED
    BY <2>1, <2>2, <2>3, <2>4 DEF Hinted, Traced
<1> QED
  BY <1>2, <1>4, <1>5 DEF HInv

\* Every step keeps it.
LEMMA HooksKeep == ASSUME ProxyAssumption, HInv, [Next]_vars PROVE HInv'
<1>1. IInv' /\ CallsOK /\ CallsOK'
  <2>1. IInv'
    BY StepKeeps DEF HInv
  <2> QED
    BY <2>1 DEF HInv, IInv
<1>2. Shapes /\ Tallied /\ Hinted
  BY DEF HInv
<1>3. CASE UNCHANGED vars
  BY <1>1, <1>2, <1>3, CallsStay, HintsStay DEF HInv, vars
<1>4. CASE Tick
  <2>1. UNCHANGED <<histories, pending, due>>
    BY <1>4 DEF Tick
  <2> QED
    BY <1>1, <1>2, <1>4, <2>1, TickMoves, HintsStay DEF HInv
<1>5. ASSUME NEW t \in Tasks, CleanupTask(t) PROVE HInv'
  <2>1. UNCHANGED <<call, uncounted>>
    BY <1>5 DEF CleanupTask
  <2> QED
    BY <1>1, <1>2, <1>5, <2>1, CallsStay, CleanupKeeps DEF HInv
<1>6. ASSUME NEW c \in Callers, Start(c) \/ Step(c) \/ Cancel(c) PROVE HInv'
  <2>1. Moves(c) /\ Hinted'
    BY <1>1, <1>2, <1>6, CallerMoves, CallerHints
  <2>2. Shapes' /\ Tallied'
    BY <1>1, <1>2, <2>1, MovesKeep
  <2> QED
    BY <1>1, <2>1, <2>2 DEF HInv
<1> QED
  BY <1>3, <1>4, <1>5, <1>6 DEF Next

\* What the invariant says of the streams.
LEMMA StreamsClean == ASSUME ProxyAssumption, CallsOK, Shapes PROVE StreamClean
<1> SUFFICES ASSUME NEW c \in Callers
             PROVE  LET r == call[c] IN
                    /\ r.pc \in {"request", "backoff"} \cup Hooks => r.given = r.pos
                    /\ r.pc = "request" /\ r.pos >= MinText + Interval =>
                         ~\A n \in (r.pos - Interval)..r.pos : ScanTail(SubSeq(r.text, 1, n))
  BY DEF StreamClean
<1> DEFINE r == call[c]
<1>1. r \in CallRecords /\ Shape(c, r)
  BY DEF CallsOK, Shapes
<1> HIDE DEF r
<1>2. r.pc \in {"request", "backoff"} \cup Hooks => r.given = r.pos
  BY <1>1 DEF Shape, Hooks
<1>3. ASSUME r.pc = "request", r.pos >= MinText + Interval
      PROVE  ~\A n \in (r.pos - Interval)..r.pos : ScanTail(SubSeq(r.text, 1, n))
  <2> DEFINE n == r.pos - r.since
  <2>1. Looked(r.text, n) /\ r.since < Interval /\ r.since <= r.pos
    BY <1>1, <1>3 DEF Shape
  <2>2. r.pos \in Nat /\ r.since \in Nat
    BY <1>1 DEF CallRecords
  <2>3. MinText \in Nat /\ Interval \in Nat
    BY DEF ProxyAssumption
  <2>4. n \in (r.pos - Interval)..r.pos /\ n >= MinText
    <3> DEFINE a == r.pos
               b == r.since
    <3>1. a \in Nat /\ b \in Nat /\ b < Interval /\ b <= a /\ a >= MinText + Interval /\ n = a - b
      BY <1>3, <2>1, <2>2
    <3> HIDE DEF a, b, n
    <3>2. n \in (a - Interval)..a /\ n >= MinText
      BY <2>3, <3>1
    <3> QED
      BY <3>2 DEF a
  <2> HIDE DEF n
  <2>5. ~ScanTail(SubSeq(r.text, 1, n))
    BY <2>1, <2>4 DEF Looked
  <2> QED
    BY <2>4, <2>5
<1> QED
  BY <1>2, <1>3 DEF r

\* The hooks of the shared chain act once on each call and on the right one,
\* whatever the callers, their scopes, the texts and the limits, and however the
\* calls interleave, retry, fail and are cancelled: every token a provider
\* reported is counted once for its task or still to be counted by its call;
\* LoopDetectionMiddleware has a hint for exactly the scopes whose last turns
\* repeated, though it remembers a bounded number of scopes and of turns; and
\* a consumer gets one attempt's deltas, cut off while they repeat.
THEOREM HooksAreExact == Spec => []HooksExact
<1>1. ProxyAssumption
  BY ProxyAssumption
<1>2. Init => HInv
  BY <1>1, QuotaBegins, HooksBegin
<1>3. HInv /\ [Next]_vars => HInv'
  BY <1>1, HooksKeep
<1>4. HInv => HooksExact
  <2> SUFFICES ASSUME HInv PROVE HooksExact
    OBVIOUS
  <2>1. CallsOK /\ Shapes /\ Tallied /\ Hinted
    BY DEF HInv, IInv
  <2>2. HintExact
    <3>1. \A s \in pending : Remembers(histories, s)
      BY <2>1, NoRunOK DEF Hinted, Traced
    <3> QED
      BY <2>1, <3>1 DEF HintExact, Hinted, Traced, Remembers
  <2>3. StreamClean
    BY <1>1, <2>1, StreamsClean
  <2>4. UsageOnce
    BY <2>1 DEF Tallied
  <2> QED
    BY <2>2, <2>3, <2>4 DEF HooksExact
<1> QED
  BY <1>2, <1>3, <1>4, PTL DEF Spec
=============================================================================
