---------------------------- MODULE LLMCallProofs ----------------------------
(***************************************************************************)
(* Proofs about LLMCall: whatever the providers and the callers do, the    *)
(* gate is never oversubscribed and what a call spends is accounted for.   *)
(***************************************************************************)
EXTENDS LLMCall, FiniteSetTheorems, TLAPS

PCs == Timed \cup {"idle", "top", "ended"}
Outcomes == Responses \cup Closing \cup {"empty", "timeout", "cancel", "none"}
Results == {"none", "response", "deadline", "exhausted", "chain_advance", "empty_completion",
            "non_transient", "gate_wait", "cancelled"}

\* Time spans and counts; the provers treat the record below better when its
\* fields' types are names.
Ticks == Int
Tally == Nat

\* Finished events per physical request.
Events(c) == [1..MaxRequests(c) -> Nat]

\* The local state of a call.
CallRecords(c) ==
  [pc : PCs, left : Ticks, timer : Ticks, room : Ticks, budget : Ticks, attempt : Tally,
   phys : Tally, index : Tally, replay : Tally, clamped : BOOLEAN, empties : Tally,
   stalls : Tally, spent : Tally, phase : Tally, leg : Tally, after : Outcomes,
   finished : Events(c), delivered : Tally, source : Tally, futile : Tally, result : Results]

\* Which of the physical requests are open, by where the call is.
OpenRequests(r) ==
  /\ r.pc \in {"idle", "top", "sleep"} => r.index = 0 /\ r.replay = 0
  /\ r.pc \in {"admit", "gate"} => r.phys > 0 /\ r.index = r.phys /\ r.replay = 0
  /\ r.pc \in {"flight", "closing"} =>
       \/ r.phys > 0 /\ r.index = r.phys /\ r.replay = 0
       \/ r.phys > 1 /\ r.index = r.phys - 1 /\ r.replay = r.phys
  /\ r.pc = "replay" => r.phys > 1 /\ r.index = r.phys - 1 /\ r.replay = r.phys

\* Until the call ends every request but the open ones is billed, once; when it
\* has ended every one is, unless it was cancelled.
Billed(r) ==
  /\ \A i \in DOMAIN r.finished :
       IF r.pc # "ended"
       THEN r.finished[i] = IF i <= r.phys /\ i # r.index /\ i # r.replay THEN 1 ELSE 0
       ELSE i <= r.phys => /\ r.finished[i] <= 1
                           /\ r.result # "cancelled" => r.finished[i] = 1
  /\ r.delivered = r.source
  /\ r.delivered # 0 <=> r.result = "response"
  /\ r.pc # "ended" => r.result = "none"

\* The passes of the retry loop that a call has made.
Passes(c, r) == r.attempt + r.empties + (r.leg - 1) * (Args[c].empties + 1)

\* A pass sends at most a request and its replay, and there are so many passes.
Counted(c, r) ==
  /\ r.attempt <= Args[c].retries - 1
  /\ r.empties <= Args[c].empties
  /\ r.leg \in 1..Args[c].legs
  /\ r.phys <= MaxRequests(c)
  /\ r.pc # "ended" =>
       r.phys <= 2 * Passes(c, r) + (IF r.index = 0 THEN 0 ELSE IF r.replay = 0 THEN 1 ELSE 2)

\* A wait ends before the deadline of its call, but for the closing of a stream
\* and the callback of an attempt.
Timely(r) ==
  /\ r.pc \in Timed => r.timer >= 0 \/ (r.timer = Never /\ r.pc = "gate" /\ r.left = Unbounded)
  /\ r.pc \notin {"idle", "ended"} => r.left >= -Overrun(r.pc)
  /\ r.pc \in Timed => r.left >= r.timer - Overrun(r.pc) \/ r.left = Unbounded
  /\ r.pc = "gate" => r.left > r.timer \/ r.left = Unbounded
  /\ r.pc = "flight" => r.room >= r.timer
  /\ r.pc = "replay" => r.room >= r.timer - Overrun(r.pc)
  /\ r.pc \in {"flight", "replay", "closing"} => r.budget > 0

CallInv(c, r) ==
  /\ r \in CallRecords(c)
  /\ OpenRequests(r) /\ Billed(r) /\ Counted(c, r) /\ Timely(r)
  /\ r.pc # "ended" => r.futile = 0

CallsInv == DOMAIN call = Calls /\ \A c \in Calls : CallInv(c, call[c])

\* The calls with a slot of the gate.
Holding == {"flight", "replay", "closing"}
Holders == In(Holding)

\* A lease is of a request its call has given up.
LeasesOK ==
  /\ orphans \in SUBSET (Calls \X Nat) /\ IsFiniteSet(orphans)
  /\ \A lease \in orphans :
       LET r == call[lease[1]] IN
       lease[2] <= r.phys /\ (r.pc \in Timed \ {"sleep"} => lease[2] # r.phys)

IInv ==
  /\ slots \in Nat /\ LeasesOK /\ CallsInv
  /\ slots + Cardinality(Holders) + Cardinality(orphans) = Gate

\* An attempt with one open request: what the handlers of an attempt's end
\* begin with.
Attempt(c, r) ==
  /\ r \in CallRecords(c)
  /\ r.index \in 1..r.phys
  /\ \A i \in 1..MaxRequests(c) : r.finished[i] = IF i <= r.phys /\ i # r.index THEN 1 ELSE 0
  /\ r.delivered = 0 /\ r.source = 0 /\ r.result = "none"
  /\ r.attempt <= Args[c].retries - 1 /\ r.empties <= Args[c].empties
  /\ r.leg \in 1..Args[c].legs
  /\ r.phys <= MaxRequests(c) /\ r.phys <= 2 * Passes(c, r) + 2

\* The same once another pass has been granted.
NextPass(c, r) == Attempt(c, r) /\ r.futile = 0 /\ r.phys <= 2 * Passes(c, r)

\* The attempt is over, and the call with it or not.
Leaves(c, n) ==
  \E q \in CallRecords(c) :
    /\ Becomes(c, q) /\ CallInv(c, q)
    /\ q.pc \in {"sleep", "top", "ended"} /\ q.phys = n

-----------------------------------------------------------------------------
(* What the record transformers do *)

\* One more event of a request.
LEMMA CountOne ==
  ASSUME NEW S, NEW g \in [S -> Nat], NEW i
  PROVE  LET f == [g EXCEPT ![i] = @ + 1] IN
         /\ f \in [S -> Nat]
         /\ \A k \in S : f[k] = IF k = i THEN g[k] + 1 ELSE g[k]
<1> DEFINE f == [g EXCEPT ![i] = @ + 1]
<1>1. f = [k \in S |-> IF k = i THEN g[k] + 1 ELSE g[k]]
  OBVIOUS
<1>2. \A k \in S : g[k] \in Nat /\ g[k] + 1 \in Nat
  OBVIOUS
<1> QED
  BY <1>1, <1>2

\* Billing a request changes its count and nothing else.
LEMMA FinishFields ==
  ASSUME NEW c, NEW r \in CallRecords(c), NEW i \in Tally
  PROVE  LET q == Finish(r, i) IN
         /\ q \in CallRecords(c)
         /\ q.index = r.index /\ q.replay = r.replay
         /\ q.pc = r.pc /\ q.left = r.left /\ q.attempt = r.attempt /\ q.phys = r.phys
         /\ q.empties = r.empties /\ q.leg = r.leg /\ q.spent = r.spent
         /\ q.delivered = r.delivered /\ q.source = r.source /\ q.futile = r.futile
         /\ q.result = r.result
         /\ q.finished \in Events(c)
         /\ \A k \in 1..MaxRequests(c) :
              q.finished[k] = IF k = i THEN r.finished[k] + 1 ELSE r.finished[k]
<1> DEFINE f == [r.finished EXCEPT ![i] = @ + 1]
           q == Finish(r, i)
<1>1. r.finished \in Events(c)
  BY DEF CallRecords
<1>2. /\ f \in Events(c)
      /\ \A k \in 1..MaxRequests(c) : f[k] = IF k = i THEN r.finished[k] + 1 ELSE r.finished[k]
  BY <1>1, CountOne DEF Events
<1>3. q = [r EXCEPT !.finished = f]
  BY DEF Finish, CallRecords
<1> HIDE DEF f, q
<1>4. q \in CallRecords(c) /\ q.finished = f
  BY <1>2, <1>3 DEF CallRecords
<1>5. /\ q.index = r.index /\ q.replay = r.replay
      /\ q.pc = r.pc /\ q.left = r.left /\ q.attempt = r.attempt /\ q.phys = r.phys
      /\ q.empties = r.empties /\ q.leg = r.leg /\ q.spent = r.spent
      /\ q.delivered = r.delivered /\ q.source = r.source /\ q.futile = r.futile
      /\ q.result = r.result
  BY <1>3 DEF CallRecords
<1> QED
  BY <1>2, <1>4, <1>5 DEF q

\* Constants of the fields' types.
LEMMA Constants ==
  /\ 0 \in Ticks /\ 0 \in Tally /\ 1 \in Tally
  /\ "none" \in Outcomes
  /\ \A pc \in {"idle", "top", "admit", "gate", "flight", "replay", "closing", "sleep", "ended"} :
       pc \in PCs
  BY DEF Ticks, Tally, Outcomes, PCs, Timed

\* A record whose attempt is behind it.
LEMMA RestedFields ==
  ASSUME NEW c, NEW r \in CallRecords(c)
  PROVE  LET q == Rested(r) IN
         /\ q \in CallRecords(c)
         /\ q.index = 0 /\ q.replay = 0
         /\ q.pc = r.pc /\ q.left = r.left /\ q.attempt = r.attempt /\ q.phys = r.phys
         /\ q.empties = r.empties /\ q.leg = r.leg /\ q.finished = r.finished
         /\ q.delivered = r.delivered /\ q.source = r.source /\ q.futile = r.futile
         /\ q.result = r.result /\ q.spent = r.spent
<1> DEFINE q == Rested(r)
<1>1. q \in CallRecords(c)
  BY Constants DEF Rested, CallRecords
<1>2. q.index = 0 /\ q.replay = 0
  BY DEF Rested, CallRecords
<1>3. q.pc = r.pc /\ q.left = r.left /\ q.attempt = r.attempt /\ q.phys = r.phys
  BY DEF Rested, CallRecords
<1>4. q.empties = r.empties /\ q.leg = r.leg /\ q.finished = r.finished
  BY DEF Rested, CallRecords
<1>5. q.delivered = r.delivered /\ q.source = r.source /\ q.futile = r.futile
  BY DEF Rested, CallRecords
<1>6. q.result = r.result /\ q.spent = r.spent
  BY DEF Rested, CallRecords
<1> QED
  BY <1>1, <1>2, <1>3, <1>4, <1>5, <1>6

\* A record whose call is over.
LEMMA EndFields ==
  ASSUME NEW c, NEW r \in CallRecords(c), NEW why \in Results
  PROVE  LET q == End(r, why) IN
         /\ q \in CallRecords(c)
         /\ q.pc = "ended" /\ q.result = why
         /\ q.phys = r.phys /\ q.finished = r.finished
         /\ q.delivered = r.delivered /\ q.source = r.source
         /\ q.attempt = 0 /\ q.empties = 0 /\ q.leg = 1
<1> DEFINE p == Rested(r)
           q == End(r, why)
<1>1. p \in CallRecords(c) /\ p.phys = r.phys /\ p.finished = r.finished
      /\ p.delivered = r.delivered /\ p.source = r.source
  BY RestedFields
<1> HIDE DEF p
<1>2. q = [p EXCEPT !.pc = "ended", !.result = why, !.left = 0, !.attempt = 0,
                    !.empties = 0, !.stalls = 0, !.spent = 0, !.phase = 0, !.leg = 1,
                    !.futile = 0]
  BY DEF End, p
<1> HIDE DEF q
<1>3. q \in CallRecords(c)
  BY <1>1, <1>2, Constants DEF CallRecords
<1>4. q.pc = "ended" /\ q.result = why
  BY <1>1, <1>2 DEF CallRecords
<1>5. q.phys = r.phys /\ q.finished = r.finished
  BY <1>1, <1>2 DEF CallRecords
<1>6. q.delivered = r.delivered /\ q.source = r.source
  BY <1>1, <1>2 DEF CallRecords
<1>7. q.attempt = 0 /\ q.empties = 0 /\ q.leg = 1
  BY <1>1, <1>2 DEF CallRecords
<1> QED
  BY <1>3, <1>4, <1>5, <1>6, <1>7 DEF q

\* The arguments of a call.
LEMMA ArgsOK ==
  ASSUME LLMCallAssumption, NEW c \in Calls
  PROVE  /\ Args[c].retries \in Nat \ {0} /\ Args[c].timeout \in Nat \ {0}
         /\ Args[c].empties \in Nat /\ Args[c].legs \in Nat \ {0}
         /\ Args[c].advance \subseteq 1..(Args[c].legs - 1)
         /\ MaxRequests(c) \in Nat
<1>1. /\ Args[c].retries \in Nat \ {0} /\ Args[c].timeout \in Nat \ {0}
      /\ Args[c].empties \in Nat /\ Args[c].legs \in Nat \ {0}
      /\ Args[c].advance \subseteq 1..(Args[c].legs - 1)
  BY DEF LLMCallAssumption
<1>2. (Args[c].empties + 1) * Args[c].legs \in Nat
  BY <1>1
<1> QED
  BY <1>1, <1>2 DEF MaxRequests

\* Passes are counted in numbers.
LEMMA PassesType ==
  ASSUME LLMCallAssumption, NEW c \in Calls, NEW r \in CallRecords(c)
  PROVE  Passes(c, r) \in Int
<1>1. r.attempt \in Int /\ r.empties \in Int /\ r.leg - 1 \in Int
  BY DEF CallRecords, Tally
<1>2. Args[c].empties + 1 \in Int
  BY ArgsOK
<1>3. (r.leg - 1) * (Args[c].empties + 1) \in Int
  BY <1>1, <1>2
<1> QED
  BY <1>1, <1>3 DEF Passes

\* A call that ends with its requests billed.
LEMMA EndInv ==
  ASSUME LLMCallAssumption, NEW c \in Calls, NEW r \in CallRecords(c), NEW why \in Results,
         why # "response", r.delivered = 0, r.source = 0, r.phys <= MaxRequests(c),
         \A i \in 1..MaxRequests(c) : i <= r.phys =>
           r.finished[i] <= 1 /\ (why # "cancelled" => r.finished[i] = 1)
  PROVE  CallInv(c, End(r, why))
<1> DEFINE q == End(r, why)
<1>1. /\ q \in CallRecords(c) /\ q.pc = "ended" /\ q.result = why
      /\ q.phys = r.phys /\ q.finished = r.finished
      /\ q.delivered = 0 /\ q.source = 0
      /\ q.attempt = 0 /\ q.empties = 0 /\ q.leg = 1
  BY EndFields
<1> HIDE DEF q
<1>2. r.finished \in Events(c)
  BY DEF CallRecords
<1>3. OpenRequests(q) /\ Timely(q)
  BY <1>1 DEF OpenRequests, Timely, Timed
<1>4. Billed(q)
  BY <1>1, <1>2 DEF Billed, Events
<1>5. Counted(c, q)
  BY <1>1, ArgsOK DEF Counted
<1> QED
  BY <1>1, <1>3, <1>4, <1>5 DEF CallInv, q

\* Billing the open request of an attempt leaves none unbilled.
LEMMA AllBilled ==
  ASSUME LLMCallAssumption, NEW c \in Calls, NEW r, Attempt(c, r)
  PROVE  LET q == Finish(r, r.index) IN
         /\ q \in CallRecords(c) /\ r.phys \in Nat /\ r.index \in Nat
         /\ \A i \in 1..MaxRequests(c) : q.finished[i] = IF i <= r.phys THEN 1 ELSE 0
<1>0. r \in CallRecords(c) /\ r.index \in Tally
  BY DEF Attempt, CallRecords
<1>1. r.phys \in Nat /\ r.index \in Nat /\ r.index \in 1..r.phys
  BY DEF Attempt, CallRecords, Tally
<1>2. MaxRequests(c) \in Nat
  BY ArgsOK
<1>3. \A i \in 1..MaxRequests(c) : r.finished[i] = IF i <= r.phys /\ i # r.index THEN 1 ELSE 0
  BY DEF Attempt
<1>4. /\ Finish(r, r.index) \in CallRecords(c)
      /\ \A k \in 1..MaxRequests(c) :
           Finish(r, r.index).finished[k] = IF k = r.index THEN r.finished[k] + 1 ELSE r.finished[k]
  BY <1>0, FinishFields
<1> QED
  BY <1>1, <1>2, <1>3, <1>4

\* An attempt that raises ends the call.
LEMMA RaiseInv ==
  ASSUME LLMCallAssumption, NEW c \in Calls, NEW r, Attempt(c, r),
         NEW why \in Results \ {"response"}, Becomes(c, Raise(r, why))
  PROVE  Leaves(c, r.phys)
<1> DEFINE p == Finish(r, r.index)
           q == Raise(r, why)
<1>0. /\ r \in CallRecords(c) /\ r.index \in Nat /\ r.phys \in Nat /\ r.phys <= MaxRequests(c)
      /\ r.delivered = 0 /\ r.source = 0
  BY DEF Attempt, CallRecords, Tally
<1>1. p \in CallRecords(c) /\ p.phys = r.phys /\ p.delivered = 0 /\ p.source = 0
  <2>1. r.index \in Tally
    BY DEF Attempt, CallRecords
  <2> QED
    BY <1>0, <2>1, FinishFields
<1>2. \A i \in 1..MaxRequests(c) : p.finished[i] = IF i <= r.phys THEN 1 ELSE 0
  BY AllBilled
<1> HIDE DEF p
<1>3. q = End(p, why)
  BY DEF Raise, p
<1>4. q \in CallRecords(c) /\ q.pc = "ended" /\ q.phys = r.phys
  BY <1>1, <1>3, EndFields
<1>5. CallInv(c, q)
  BY <1>0, <1>1, <1>2, <1>3, EndInv
<1> QED
  BY <1>4, <1>5 DEF Leaves

\* A call that returns a response returns that of the request it bills as
\* delivered.
LEMMA DeliverInv ==
  ASSUME LLMCallAssumption, NEW c \in Calls, NEW r, Attempt(c, r),
         Becomes(c, Deliver(r, r.index))
  PROVE  Leaves(c, r.phys)
<1> DEFINE p == Finish(r, r.index)
           e == Raise(r, "response")
           q == Deliver(r, r.index)
<1>0. /\ r \in CallRecords(c) /\ r.index \in Nat /\ r.phys \in Nat /\ r.phys <= MaxRequests(c)
      /\ r.index # 0
  BY DEF Attempt, CallRecords, Tally
<1>1. /\ p \in CallRecords(c) /\ p.phys = r.phys
      /\ r.phys \in Nat /\ r.phys <= MaxRequests(c) /\ r.index # 0 /\ r.index \in Tally
  <2>1. r.index \in Tally
    BY DEF Attempt, CallRecords
  <2> QED
    BY <1>0, <2>1, FinishFields
<1>2. \A i \in 1..MaxRequests(c) : p.finished[i] = IF i <= r.phys THEN 1 ELSE 0
  BY AllBilled
<1>3. "response" \in Results
  BY DEF Results
<1> HIDE DEF p
<1>4. /\ e \in CallRecords(c) /\ e.pc = "ended" /\ e.result = "response"
      /\ e.phys = r.phys /\ e.finished = p.finished
      /\ e.attempt = 0 /\ e.empties = 0 /\ e.leg = 1
  BY <1>1, <1>3, EndFields DEF Raise, p
<1> HIDE DEF e
<1>6. q = [e EXCEPT !.delivered = r.index, !.source = r.index]
  BY <1>1 DEF Deliver, e
<1> HIDE DEF q
<1>7. q \in CallRecords(c)
  BY <1>1, <1>4, <1>6 DEF CallRecords
<1>8. /\ q.pc = "ended" /\ q.result = "response" /\ q.phys = r.phys /\ q.finished = p.finished
      /\ q.attempt = 0 /\ q.empties = 0 /\ q.leg = 1
      /\ q.delivered = r.index /\ q.source = r.index
  BY <1>4, <1>6 DEF CallRecords
<1>9. OpenRequests(q) /\ Timely(q)
  BY <1>8 DEF OpenRequests, Timely, Timed
<1>10. Billed(q)
  <2>1. DOMAIN q.finished = 1..MaxRequests(c)
    BY <1>7 DEF CallRecords, Events
  <2> QED
    BY <1>1, <1>2, <1>8, <2>1 DEF Billed
<1>11. Counted(c, q)
  BY <1>1, <1>8, ArgsOK DEF Counted
<1> QED
  BY <1>7, <1>8, <1>9, <1>10, <1>11 DEF CallInv, Leaves, q

\* Min as the code's min() of two numbers.
LEMMA MinOfTwo ==
  ASSUME NEW a \in Int, NEW b \in Int
  PROVE  Min({a, b}) = IF a <= b THEN a ELSE b
  BY DEF Min

\* How far the steps of a call may outlast its budget.
LEMMA Overruns ==
  ASSUME LLMCallAssumption
  PROVE  /\ \A pc \in PCs : Overrun(pc) \in Nat
         /\ Overrun("closing") = Grace
         /\ \A pc \in {"admit", "replay"} : Overrun(pc) >= Obs - 1
         /\ \A pc \in {"top", "gate", "flight", "sleep"} : Overrun(pc) = 0
<1>1. Obs \in Nat /\ Grace \in Nat
  BY DEF LLMCallAssumption
<1>2. Max({0, Obs - 1}) = IF 0 >= Obs - 1 THEN 0 ELSE Obs - 1
  <2>1. \A a, b \in Int : Max({a, b}) = IF a >= b THEN a ELSE b
    BY DEF Max
  <2> QED
    BY <1>1, <2>1
<1>3. Overrun("closing") = Grace
  BY DEF Overrun
<1>4. \A pc \in {"admit", "replay"} : Overrun(pc) = Max({0, Obs - 1})
  BY DEF Overrun
<1>5. \A pc \in PCs \ {"admit", "replay", "closing"} : Overrun(pc) = 0
  BY DEF Overrun
<1>6. \A pc \in {"top", "gate", "flight", "sleep"} : pc \in PCs \ {"admit", "replay", "closing"}
  BY DEF PCs, Timed
<1> QED
  BY <1>1, <1>2, <1>3, <1>4, <1>5, <1>6

\* A pass that is granted bills its attempt and sleeps within the deadline.
LEMMA AgainInv ==
  ASSUME LLMCallAssumption, NEW c \in Calls, NEW r, NextPass(c, r), NEW wait \in Tally,
         wait + Floor <= r.left, Again(c, r, wait)
  PROVE  Leaves(c, r.phys)
<1>1. PICK d \in 0..Obs :
        Becomes(c, [Rested(Finish(r, r.index)) EXCEPT !.pc = "sleep", !.timer = wait + d])
  BY DEF Again
<1> DEFINE b == Finish(r, r.index)
           p == Rested(b)
           t == wait + d
           q == [p EXCEPT !.pc = "sleep", !.timer = t]
<1>2. /\ r \in CallRecords(c) /\ r.index \in Tally
      /\ r.delivered = 0 /\ r.source = 0 /\ r.result = "none" /\ r.futile = 0
  BY DEF NextPass, Attempt, CallRecords
<1>3. /\ r.left \in Int /\ r.phys \in Nat /\ r.attempt \in Nat /\ r.empties \in Nat /\ r.leg \in Nat
      /\ r.attempt <= Args[c].retries - 1 /\ r.empties <= Args[c].empties
      /\ r.leg \in 1..Args[c].legs /\ r.phys <= MaxRequests(c)
      /\ r.phys <= 2 * Passes(c, r)
  BY DEF NextPass, Attempt, CallRecords, Tally, Ticks
<1>4. /\ b \in CallRecords(c)
      /\ b.left = r.left /\ b.phys = r.phys /\ b.attempt = r.attempt /\ b.empties = r.empties
      /\ b.leg = r.leg /\ b.futile = r.futile
      /\ b.delivered = r.delivered /\ b.source = r.source /\ b.result = r.result
  BY <1>2, FinishFields
<1>5. \A i \in 1..MaxRequests(c) : b.finished[i] = IF i <= r.phys THEN 1 ELSE 0
  BY AllBilled DEF NextPass
<1> HIDE DEF b
<1>6. /\ p \in CallRecords(c) /\ p.index = 0 /\ p.replay = 0
      /\ p.left = r.left /\ p.phys = r.phys /\ p.attempt = r.attempt /\ p.empties = r.empties
      /\ p.leg = r.leg /\ p.futile = 0 /\ p.finished = b.finished
      /\ p.delivered = 0 /\ p.source = 0 /\ p.result = "none"
  BY <1>2, <1>4, RestedFields
<1>7. /\ t \in Nat /\ t <= r.left /\ t \in Ticks
  BY <1>3 DEF LLMCallAssumption, Tally, Ticks
<1> HIDE DEF p, t
<1>8. q \in CallRecords(c)
  BY <1>6, <1>7, Constants DEF CallRecords
<1>9. /\ q.pc = "sleep" /\ q.timer = t /\ q.index = 0 /\ q.replay = 0
      /\ q.left = r.left /\ q.phys = r.phys /\ q.attempt = r.attempt /\ q.empties = r.empties
      /\ q.leg = r.leg /\ q.futile = 0 /\ q.finished = b.finished
      /\ q.delivered = 0 /\ q.source = 0 /\ q.result = "none"
  BY <1>6 DEF CallRecords
<1> HIDE DEF q
<1>10. OpenRequests(q)
  BY <1>9 DEF OpenRequests
<1>11. Billed(q)
  <2>1. DOMAIN q.finished = 1..MaxRequests(c) /\ MaxRequests(c) \in Nat
    BY <1>8, ArgsOK DEF CallRecords, Events
  <2>2. \A i \in 1..MaxRequests(c) : i # q.index /\ i # q.replay
    BY <1>9, <2>1
  <2>3. \A i \in DOMAIN q.finished :
          q.finished[i] = IF i <= q.phys /\ i # q.index /\ i # q.replay THEN 1 ELSE 0
    BY <1>5, <1>9, <2>1, <2>2
  <2> QED
    BY <1>9, <2>3 DEF Billed
<1>12. Counted(c, q)
  <2>1. Passes(c, q) = Passes(c, r)
    BY <1>9 DEF Passes
  <2>2. Passes(c, r) \in Int
    BY <1>2, PassesType
  <2> QED
    BY <1>3, <1>9, <2>1, <2>2 DEF Counted
<1>13. Timely(q)
  <2>1. Overrun("sleep") = 0
    BY Overruns
  <2> QED
    BY <1>3, <1>7, <1>9, <2>1 DEF Timely
<1>14. Becomes(c, q)
  BY <1>1 DEF q, p, b, t
<1> QED
  BY <1>8, <1>9, <1>10, <1>11, <1>12, <1>13, <1>14 DEF CallInv, Leaves

\* A backoff is slept, or the deadline ends the call.
LEMMA ResampleInv ==
  ASSUME LLMCallAssumption, NEW c \in Calls, NEW r, NextPass(c, r), NEW wait \in Tally,
         Resample(c, r, wait)
  PROVE  Leaves(c, r.phys)
<1>1. wait \in Nat /\ Floor \in Nat /\ r.left \in Int
  BY DEF NextPass, Attempt, CallRecords, Ticks, Tally, LLMCallAssumption
<1>2. CASE wait + Floor > r.left /\ Becomes(c, Raise(r, "deadline"))
  <2>1. "deadline" \in Results \ {"response"}
    BY DEF Results
  <2> QED
    BY <1>2, <2>1, RaiseInv DEF NextPass
<1>3. CASE wait + Floor <= r.left /\ Again(c, r, wait)
  BY <1>3, AgainInv
<1> QED
  BY <1>1, <1>2, <1>3 DEF Resample

\* What a new pass keeps of the attempt before it.
SameRequests(q, r) ==
  /\ q.index = r.index /\ q.phys = r.phys /\ q.finished = r.finished
  /\ q.delivered = r.delivered /\ q.source = r.source /\ q.result = r.result
  /\ q.futile = r.futile /\ q.left = r.left

\* Another attempt, empty completion or leg pays for another request and its
\* replay.
LEMMA PassGranted ==
  ASSUME LLMCallAssumption, NEW c \in Calls, NEW r, Attempt(c, r), r.futile = 0,
         NEW q \in CallRecords(c), SameRequests(q, r),
         q.attempt <= Args[c].retries - 1, q.empties <= Args[c].empties,
         q.leg \in 1..Args[c].legs, Passes(c, q) >= Passes(c, r) + 1
  PROVE  NextPass(c, q)
<1>1. /\ r.phys \in Nat /\ r.attempt \in Nat /\ r.empties \in Nat /\ r.leg \in Nat
      /\ q.attempt \in Nat /\ q.empties \in Nat /\ q.leg \in Nat
  BY DEF Attempt, CallRecords, Tally
<1>2. Passes(c, r) \in Int /\ Passes(c, q) \in Int
  BY PassesType DEF Attempt
<1>3. q.phys = r.phys /\ r.phys <= 2 * Passes(c, r) + 2
  BY DEF Attempt, SameRequests
<1>4. q.phys <= 2 * Passes(c, q) /\ q.phys <= 2 * Passes(c, q) + 2
  BY <1>1, <1>2, <1>3
<1> QED
  BY <1>4 DEF NextPass, Attempt, SameRequests

\* Another generic attempt, whatever it also counts.
LEMMA AttemptGranted ==
  ASSUME LLMCallAssumption, NEW c \in Calls, NEW r, Attempt(c, r), r.futile = 0,
         ~LastAttempt(c, r), NEW spent \in Tally, NEW phase \in Tally
  PROVE  LET n == r.attempt + 1 IN
         /\ n \in Tally
         /\ NextPass(c, [r EXCEPT !.attempt = n])
         /\ NextPass(c, [r EXCEPT !.spent = spent, !.attempt = n, !.phase = phase])
<1> DEFINE n == r.attempt + 1
<1>1. /\ r \in CallRecords(c) /\ r.attempt \in Nat /\ r.empties \in Nat /\ r.leg \in Nat
      /\ r.attempt <= Args[c].retries - 1 /\ r.attempt # Args[c].retries - 1
      /\ r.empties <= Args[c].empties /\ r.leg \in 1..Args[c].legs
  BY DEF Attempt, CallRecords, Tally, LastAttempt
<1>2. n \in Tally /\ n <= Args[c].retries - 1
  BY <1>1, ArgsOK DEF Tally
<1>3. ASSUME NEW q \in CallRecords(c), SameRequests(q, r), q.attempt = n,
             q.empties = r.empties, q.leg = r.leg
      PROVE  NextPass(c, q)
  <2>1. Passes(c, q) >= Passes(c, r) + 1
    BY <1>1, <1>3, ArgsOK DEF Passes
  <2> QED
    BY <1>1, <1>2, <1>3, <2>1, PassGranted
<1> HIDE DEF n
<1> DEFINE p == [r EXCEPT !.attempt = n]
           q == [r EXCEPT !.spent = spent, !.attempt = n, !.phase = phase]
<1>4. p \in CallRecords(c) /\ q \in CallRecords(c)
  BY <1>1, <1>2 DEF CallRecords
<1>5. SameRequests(p, r) /\ p.attempt = n /\ p.empties = r.empties /\ p.leg = r.leg
  BY <1>1 DEF CallRecords, SameRequests
<1>6. SameRequests(q, r) /\ q.attempt = n /\ q.empties = r.empties /\ q.leg = r.leg
  BY <1>1 DEF CallRecords, SameRequests
<1>7. NextPass(c, p) /\ NextPass(c, q)
  BY <1>3, <1>4, <1>5, <1>6
<1> QED
  BY <1>2, <1>7 DEF n

-----------------------------------------------------------------------------
(* The handlers of an attempt's end *)

\* The retry budget is spent, or another attempt is made.
LEMMA RetryInv ==
  ASSUME LLMCallAssumption, NEW c \in Calls, NEW r, Attempt(c, r), r.futile = 0,
         NEW wait \in Tally, Retry(c, r, wait)
  PROVE  Leaves(c, r.phys)
<1>1. CASE LastAttempt(c, r)
  <2>1. Becomes(c, Raise(r, "exhausted"))
    BY <1>1 DEF Retry
  <2>2. "exhausted" \in Results \ {"response"}
    BY DEF Results
  <2> QED
    BY <2>1, <2>2, RaiseInv
<1>2. CASE ~LastAttempt(c, r)
  <2> DEFINE q == [r EXCEPT !.attempt = @ + 1]
  <2>1. Resample(c, q, wait)
    BY <1>2 DEF Retry
  <2>2. NextPass(c, q)
    BY <1>2, AttemptGranted, Constants
  <2>3. q.phys = r.phys
    BY DEF Attempt, CallRecords
  <2> HIDE DEF q
  <2>4. Leaves(c, q.phys)
    BY <2>1, <2>2, ResampleInv
  <2> QED
    BY <2>3, <2>4
<1> QED
  BY <1>1, <1>2

\* A blank completion uses up the leg's allowance, then the legs.
LEMMA EmptyInv ==
  ASSUME LLMCallAssumption, NEW c \in Calls, NEW r, Attempt(c, r), r.futile = 0,
         RecoverEmptyCompletion(c, r)
  PROVE  Leaves(c, r.phys)
<1>1. /\ r \in CallRecords(c) /\ r.attempt \in Nat /\ r.empties \in Nat /\ r.leg \in Nat
      /\ r.attempt <= Args[c].retries - 1
      /\ r.empties <= Args[c].empties /\ r.leg \in 1..Args[c].legs
  BY DEF Attempt, CallRecords, Tally
<1>2. CASE /\ r.empties < Args[c].empties
           /\ Resample(c, [r EXCEPT !.empties = @ + 1], Backoff)
  <2> DEFINE n == r.empties + 1
             q == [r EXCEPT !.empties = n]
  <2>1. n \in Tally /\ n <= Args[c].empties /\ Backoff \in Tally
    BY <1>1, <1>2, ArgsOK DEF Tally, LLMCallAssumption
  <2>2. q.attempt = r.attempt /\ q.leg = r.leg /\ q.empties = n
    BY <1>1 DEF CallRecords
  <2>3. Passes(c, q) >= Passes(c, r) + 1
    BY <1>1, <2>2, ArgsOK DEF Passes
  <2> HIDE DEF n
  <2>4. q \in CallRecords(c) /\ SameRequests(q, r)
    BY <1>1, <2>1 DEF CallRecords, SameRequests
  <2>5. Resample(c, q, Backoff)
    BY <1>2 DEF n
  <2> HIDE DEF q
  <2>6. NextPass(c, q)
    BY <1>1, <2>1, <2>2, <2>3, <2>4, PassGranted
  <2>7. Leaves(c, q.phys)
    BY <2>1, <2>5, <2>6, ResampleInv
  <2> QED
    BY <2>4, <2>7 DEF SameRequests
<1>3. CASE /\ r.empties >= Args[c].empties
           /\ AdvanceEmptyCompletion(c, r)
           /\ Resample(c, [r EXCEPT !.empties = 0, !.leg = @ + 1], 0)
  <2> DEFINE n == r.leg + 1
             q == [r EXCEPT !.empties = 0, !.leg = n]
  <2>1. n \in Tally /\ n \in 1..Args[c].legs
    BY <1>1, <1>3, ArgsOK DEF Tally, AdvanceEmptyCompletion
  <2>2. q.attempt = r.attempt /\ q.leg = n /\ q.empties = 0
    BY <1>1 DEF CallRecords
  <2>3. Passes(c, q) >= Passes(c, r) + 1
    <3> DEFINE w == Args[c].empties + 1
    <3>1. w \in Nat /\ r.empties = w - 1
      BY <1>1, <1>3, ArgsOK
    <3>2. (r.leg - 1) * w \in Int /\ (n - 1) * w = (r.leg - 1) * w + w
      BY <1>1, <3>1
    <3>3. Passes(c, q) = r.attempt + (n - 1) * w
      BY <1>1, <2>2, ArgsOK DEF Passes
    <3>4. Passes(c, r) = r.attempt + r.empties + (r.leg - 1) * w
      BY <1>1, ArgsOK DEF Passes
    <3> HIDE DEF w
    <3> QED
      BY <1>1, <3>1, <3>2, <3>3, <3>4
  <2> HIDE DEF n
  <2>4. q \in CallRecords(c) /\ SameRequests(q, r)
    BY <1>1, <2>1, Constants DEF CallRecords, SameRequests
  <2>5. Resample(c, q, 0)
    BY <1>3 DEF n
  <2> HIDE DEF q
  <2>6. NextPass(c, q)
    BY <1>1, <2>1, <2>2, <2>3, <2>4, PassGranted, ArgsOK
  <2>7. Leaves(c, q.phys)
    BY <2>5, <2>6, ResampleInv, Constants
  <2> QED
    BY <2>4, <2>7 DEF SameRequests
<1>4. CASE Becomes(c, Raise(r, IF Args[c].chain THEN "chain_advance" ELSE "empty_completion"))
  <2>1. {"chain_advance", "empty_completion"} \subseteq Results \ {"response"}
    BY DEF Results
  <2> QED
    BY <1>4, <2>1, RaiseInv
<1> QED
  BY <1>2, <1>3, <1>4 DEF RecoverEmptyCompletion

\* A runaway response is sampled again while the ladder and the deadline allow
\* it, and delivered otherwise.
LEMMA RunawayInv ==
  ASSUME LLMCallAssumption, NEW c \in Calls, NEW r, Attempt(c, r), r.futile = 0,
         Runaway(c, r, r.index)
  PROVE  Leaves(c, r.phys)
<1>1. /\ r \in CallRecords(c) /\ r.spent \in Nat /\ r.phase \in Nat /\ r.left \in Int
  BY DEF Attempt, CallRecords, Tally, Ticks
<1>2. CASE /\ MayResample(c, r) /\ RunawayBackoff + Floor < r.left
           /\ \E p \in NextPhases(r.phase) :
                Again(c, [r EXCEPT !.spent = @ + 1, !.attempt = @ + 1, !.phase = p], RunawayBackoff)
  <2>1. PICK p \in NextPhases(r.phase) :
          Again(c, [r EXCEPT !.spent = @ + 1, !.attempt = @ + 1, !.phase = p], RunawayBackoff)
    BY <1>2
  <2>2. p \in Tally
    <3>1. \A a, b \in Int : Max({a, b}) = IF a >= b THEN a ELSE b
      BY DEF Max
    <3>2. Max({r.phase + 1, 2}) \in Nat
      BY <1>1, <3>1
    <3> QED
      BY <3>2 DEF NextPhases, Tally
  <2> DEFINE q == [r EXCEPT !.spent = @ + 1, !.attempt = @ + 1, !.phase = p]
  <2>3. r.spent + 1 \in Tally
    BY <1>1 DEF Tally
  <2>4. NextPass(c, q)
    BY <1>2, <2>2, <2>3, AttemptGranted DEF MayResample
  <2>5. q.phys = r.phys /\ q.left = r.left
    BY <1>1 DEF CallRecords
  <2>6. RunawayBackoff \in Tally /\ RunawayBackoff + Floor <= q.left
    BY <1>1, <1>2, <2>5 DEF LLMCallAssumption, Tally
  <2>7. Again(c, q, RunawayBackoff)
    BY <2>1
  <2> HIDE DEF q
  <2>8. Leaves(c, q.phys)
    BY <2>4, <2>6, <2>7, AgainInv
  <2> QED
    BY <2>5, <2>8
<1>3. CASE Becomes(c, Deliver(r, r.index))
  BY <1>3, DeliverInv
<1> QED
  BY <1>2, <1>3 DEF Runaway

\* A stalled stream.
LEMMA StalledInv ==
  ASSUME LLMCallAssumption, NEW c \in Calls, NEW r, Attempt(c, r), r.futile = 0, Stalled(c, r)
  PROVE  Leaves(c, r.phys)
<1>1. CASE Becomes(c, Raise(r, "chain_advance"))
  <2>1. "chain_advance" \in Results \ {"response"}
    BY DEF Results
  <2> QED
    BY <1>1, <2>1, RaiseInv
<1>2. CASE Retry(c, [r EXCEPT !.stalls = r.stalls + 1], Backoff)
  <2> DEFINE n == r.stalls + 1
             q == [r EXCEPT !.stalls = n]
  <2>1. r \in CallRecords(c) /\ n \in Tally /\ Backoff \in Tally
    BY DEF Attempt, CallRecords, Tally, LLMCallAssumption
  <2> HIDE DEF n
  <2>2. q \in CallRecords(c) /\ SameRequests(q, r) /\ q.attempt = r.attempt
        /\ q.empties = r.empties /\ q.leg = r.leg
    BY <2>1 DEF CallRecords, SameRequests
  <2>3. Retry(c, q, Backoff)
    BY <1>2 DEF n
  <2> HIDE DEF q
  <2>4. Passes(c, q) = Passes(c, r)
    BY <2>2 DEF Passes
  <2>5. Attempt(c, q) /\ q.futile = 0
    BY <2>2, <2>4 DEF Attempt, SameRequests
  <2>6. Leaves(c, q.phys)
    BY <2>1, <2>3, <2>5, RetryInv
  <2> QED
    BY <2>2, <2>6 DEF SameRequests
<1> QED
  BY <1>1, <1>2 DEF Stalled

\* A request that ran into its timeout.
LEMMA TimedOutInv ==
  ASSUME LLMCallAssumption, NEW c \in Calls, NEW r, Attempt(c, r), r.futile = 0, TimedOut(c, r)
  PROVE  Leaves(c, r.phys)
<1>1. "deadline" \in Results \ {"response"} /\ Backoff \in Tally
  BY DEF Results, LLMCallAssumption, Tally
<1> QED
  BY <1>1, RaiseInv, RetryInv DEF TimedOut

\* An error of the provider after which another request may be worth its price.
LEMMA ErrorInv ==
  ASSUME LLMCallAssumption, NEW c \in Calls, NEW r, Attempt(c, r), r.futile = 0, r.left >= 0,
         NEW e, HandledError(c, r, e)
  PROVE  Leaves(c, r.phys)
<1>1. /\ {"chain_advance", "non_transient"} \subseteq Results \ {"response"}
      /\ Backoff \in Tally /\ RateBackoff \in Tally
  BY DEF Results, LLMCallAssumption, Tally
<1>2. CASE RecoverEmptyCompletion(c, r)
  BY <1>2, EmptyInv
<1>3. CASE ExpandedOverflow(c, r, e) /\ ContextLength(c, r)
  <2> DEFINE b == Finish(r, r.index)
             p == Rested(b)
             n == p.attempt + 1
             m == p.spent + 1
             q == [p EXCEPT !.pc = "top", !.spent = m, !.attempt = n, !.phase = 2]
  <2>1. /\ r \in CallRecords(c) /\ r.index \in Tally /\ r.spent \in Nat
        /\ r.delivered = 0 /\ r.source = 0 /\ r.result = "none"
    BY DEF Attempt, CallRecords, Tally
  <2>2. /\ b \in CallRecords(c) /\ b.attempt = r.attempt /\ b.spent = r.spent /\ b.phys = r.phys
        /\ b.empties = r.empties /\ b.leg = r.leg /\ b.left = r.left /\ b.futile = 0
        /\ b.delivered = 0 /\ b.source = 0 /\ b.result = "none"
    BY <2>1, FinishFields
  <2>3. \A i \in 1..MaxRequests(c) : b.finished[i] = IF i <= r.phys THEN 1 ELSE 0
    BY AllBilled
  <2> HIDE DEF b
  <2>4. /\ p \in CallRecords(c) /\ p.index = 0 /\ p.replay = 0
        /\ p.attempt = r.attempt /\ p.spent = r.spent /\ p.phys = r.phys
        /\ p.empties = r.empties /\ p.leg = r.leg /\ p.left = r.left /\ p.futile = 0
        /\ p.delivered = 0 /\ p.source = 0 /\ p.result = "none" /\ p.finished = b.finished
    BY <2>2, RestedFields
  <2>5. Becomes(c, q)
    BY <1>3 DEF ContextLength, b
  <2> HIDE DEF p
  <2>6. m \in Tally /\ 2 \in Tally
    BY <2>1, <2>4 DEF Tally
  <2>7. n \in Tally /\ NextPass(c, [r EXCEPT !.attempt = n])
    BY <1>3, <2>4, AttemptGranted, Constants DEF ExpandedOverflow, MayResample
  <2> HIDE DEF n, m
  <2>8. /\ [r EXCEPT !.attempt = n] \in CallRecords(c)
        /\ [r EXCEPT !.attempt = n].attempt = n /\ [r EXCEPT !.attempt = n].empties = r.empties
        /\ [r EXCEPT !.attempt = n].leg = r.leg /\ [r EXCEPT !.attempt = n].phys = r.phys
    BY <2>1, <2>7 DEF CallRecords
  <2>9. /\ n <= Args[c].retries - 1 /\ r.empties <= Args[c].empties /\ r.leg \in 1..Args[c].legs
        /\ r.phys <= MaxRequests(c) /\ r.phys <= 2 * Passes(c, [r EXCEPT !.attempt = n])
    BY <2>7, <2>8 DEF NextPass, Attempt
  <2>10. q \in CallRecords(c)
    BY <2>4, <2>6, <2>7, Constants DEF CallRecords
  <2>11. /\ q.pc = "top" /\ q.index = 0 /\ q.replay = 0
         /\ q.attempt = n /\ q.phys = r.phys
         /\ q.empties = r.empties /\ q.leg = r.leg /\ q.left = r.left /\ q.futile = 0
         /\ q.delivered = 0 /\ q.source = 0 /\ q.result = "none" /\ q.finished = b.finished
    BY <2>4 DEF CallRecords
  <2> HIDE DEF q
  <2>12. OpenRequests(q)
    BY <2>11 DEF OpenRequests
  <2>13. Billed(q)
    <3>1. DOMAIN q.finished = 1..MaxRequests(c) /\ MaxRequests(c) \in Nat
      BY <2>10, ArgsOK DEF CallRecords, Events
    <3>2. \A i \in 1..MaxRequests(c) : i # q.index /\ i # q.replay
      BY <2>11, <3>1
    <3>3. \A i \in DOMAIN q.finished :
            q.finished[i] = IF i <= q.phys /\ i # q.index /\ i # q.replay THEN 1 ELSE 0
      BY <2>3, <2>11, <3>1, <3>2
    <3> QED
      BY <2>11, <3>3 DEF Billed
  <2>14. Counted(c, q)
    <3>1. Passes(c, q) = Passes(c, [r EXCEPT !.attempt = n])
      BY <2>8, <2>11 DEF Passes
    <3>2. q.attempt \in Nat /\ q.empties \in Nat /\ q.leg \in Nat /\ q.phys \in Nat
      BY <2>10 DEF CallRecords, Tally
    <3>3. Passes(c, q) \in Int
      BY <2>10, PassesType
    <3> QED
      BY <2>9, <2>11, <3>1, <3>2, <3>3 DEF Counted
  <2>15. Timely(q)
    <3>1. Overrun("top") = 0 /\ q.left \in Int
      BY <2>10, Overruns DEF CallRecords, Ticks
    <3> QED
      BY <2>11, <3>1 DEF Timely, Timed
  <2> QED
    BY <2>5, <2>10, <2>11, <2>12, <2>13, <2>14, <2>15 DEF CallInv, Leaves
<1>4. CASE RaisedError(c, r, e)
  BY <1>1, <1>4, RaiseInv, RetryInv DEF RaisedError
<1> QED
  BY <1>2, <1>3, <1>4 DEF HandledError

\* A refusal no second request can change is not retried.
LEMMA HopelessEnds ==
  ASSUME NEW c, NEW e, Hopeless(e)
  PROVE  /\ ~IsEmptyCompletion(e) /\ ~IsContextLengthError(e)
         /\ FallbackSignal(c, e) \/ NonTransient(e)
<1>1. /\ "overload" \notin Stringify(e) /\ "empty" \notin Stringify(e)
      /\ "truncated" \notin Stringify(e) /\ "network" \notin Stringify(e)
      /\ "context" \notin Stringify(e)
  BY DEF Hopeless
<1>2. ~ResampleMayRecover(e)
  BY <1>1 DEF ResampleMayRecover, IsOverloadedError, IsEmptyCompletion, IsTruncatedStream
<1>3. e.signals \subseteq Stringify(e)
  BY DEF Stringify
<1>4. CASE e.signals \cap {"credit", "safety", "model", "auth"} # {}
  <2>1. IsRetriableWithFallback(e)
    BY <1>3, <1>4 DEF IsRetriableWithFallback, IsCreditExhausted, IsSafetyFilter,
                      IsModelUnavailable, IsAuthFailure
  <2> QED
    BY <1>1, <1>2, <2>1 DEF FallbackSignal, IsEmptyCompletion, IsContextLengthError
<1>5. CASE e.status \in {400, 401, 403, 404}
  <2>1. ~(e.status = 400 /\ IsTransientNetwork(e))
    BY <1>1 DEF IsTransientNetwork
  <2> QED
    BY <1>1, <1>5, <2>1 DEF NonTransient, IsEmptyCompletion, IsContextLengthError
<1>6. CASE e.status = 402
  <2>1. "credit" \in Stringify(e)
    BY <1>6 DEF Stringify, StatusSignals, Signals
  <2> QED
    BY <1>1, <1>2, <2>1 DEF FallbackSignal, IsRetriableWithFallback, IsCreditExhausted,
                            IsEmptyCompletion, IsContextLengthError
<1> QED
  BY <1>4, <1>5, <1>6 DEF Hopeless

\* RequestFails, outside a replay.
LEMMA FailureInv ==
  ASSUME LLMCallAssumption, NEW c \in Calls, NEW r, Attempt(c, r), r.futile = 0, r.left >= 0,
         NEW e, HandledError(c, [r EXCEPT !.futile = @ + (IF Hopeless(e) THEN 1 ELSE 0)], e)
  PROVE  Leaves(c, r.phys)
<1> DEFINE n == r.futile + (IF Hopeless(e) THEN 1 ELSE 0)
           q == [r EXCEPT !.futile = n]
<1>1. r \in CallRecords(c) /\ n \in Tally /\ (~Hopeless(e) => n = 0)
  BY DEF Attempt, CallRecords, Tally
<1> HIDE DEF n
<1>2. /\ q \in CallRecords(c) /\ q.attempt = r.attempt /\ q.empties = r.empties
      /\ q.leg = r.leg /\ q.phys = r.phys /\ q.index = r.index /\ q.finished = r.finished
      /\ q.delivered = r.delivered /\ q.source = r.source /\ q.result = r.result
      /\ q.futile = n /\ q.left = r.left
  BY <1>1 DEF CallRecords
<1>3. HandledError(c, q, e)
  BY DEF n
<1> HIDE DEF q
<1>4. Passes(c, q) = Passes(c, r)
  BY <1>2 DEF Passes
<1>5. Attempt(c, q)
  BY <1>2, <1>4 DEF Attempt
<1>6. CASE Hopeless(e)
  <2>1. RaisedError(c, q, e)
    BY <1>3, <1>6, HopelessEnds DEF HandledError, ExpandedOverflow
  <2>2. Becomes(c, Raise(q, "chain_advance")) \/ Becomes(c, Raise(q, "non_transient"))
    <3>1. NonTransient(e) => e.status # 429
      BY DEF NonTransient
    <3> QED
      BY <1>6, <2>1, <3>1, HopelessEnds DEF RaisedError
  <2>3. {"chain_advance", "non_transient"} \subseteq Results \ {"response"}
    BY DEF Results
  <2>4. Leaves(c, q.phys)
    BY <1>5, <2>2, <2>3, RaiseInv
  <2> QED
    BY <1>2, <2>4
<1>7. CASE ~Hopeless(e)
  <2>1. Leaves(c, q.phys)
    BY <1>1, <1>2, <1>3, <1>5, <1>7, ErrorInv
  <2> QED
    BY <1>2, <2>1
<1> QED
  BY <1>6, <1>7

\* Whatever else ends an attempt.
LEMMA HandledInv ==
  ASSUME LLMCallAssumption, NEW c \in Calls, NEW r, Attempt(c, r), r.futile = 0,
         NEW o, Handled(c, r, o, r.index)
  PROVE  Leaves(c, r.phys)
  BY DeliverInv, RunawayInv, EmptyInv, StalledInv, TimedOutInv DEF Handled, RunawayEarly

-----------------------------------------------------------------------------
(* From the invariant to an attempt *)

\* A request in the air that is no replay is an attempt.
LEMMA InFlight ==
  ASSUME LLMCallAssumption, NEW c \in Calls, NEW r, CallInv(c, r),
         r.pc # "ended", r.index # 0, r.replay = 0
  PROVE  Attempt(c, r) /\ r.futile = 0
<1>1. /\ r \in CallRecords(c) /\ r.pc \in PCs /\ OpenRequests(r) /\ Billed(r) /\ Counted(c, r)
      /\ r.futile = 0
  BY DEF CallInv, CallRecords
<1>0. r.phys \in Int
  BY <1>1 DEF CallRecords, Tally
<1>2. DOMAIN r.finished = 1..MaxRequests(c) /\ MaxRequests(c) \in Nat
  BY <1>1, ArgsOK DEF CallRecords, Events
<1>3. r.index = r.phys /\ r.phys > 0
  <2>1. r.pc \in {"admit", "gate", "flight", "closing", "replay"}
    BY <1>1 DEF OpenRequests, PCs, Timed
  <2>2. CASE r.pc \in {"admit", "gate", "flight", "closing"}
    BY <1>0, <1>1, <2>2 DEF OpenRequests
  <2>3. CASE r.pc = "replay"
    BY <1>0, <1>1, <2>3 DEF OpenRequests
  <2> QED
    BY <2>1, <2>2, <2>3
<1>4. Passes(c, r) \in Int
  BY <1>1, PassesType
<1>5. r.delivered = 0 /\ r.source = 0 /\ r.result = "none"
  BY <1>1 DEF Billed
<1>6. \A i \in 1..MaxRequests(c) : r.finished[i] = IF i <= r.phys /\ i # r.index THEN 1 ELSE 0
  <2>1. \A i \in 1..MaxRequests(c) :
          r.finished[i] = IF i <= r.phys /\ i # r.index /\ i # r.replay THEN 1 ELSE 0
    BY <1>1, <1>2 DEF Billed
  <2>2. \A i \in 1..MaxRequests(c) : i # r.replay
    OBVIOUS
  <2> QED
    BY <2>1, <2>2
<1>7. r.phys <= 2 * Passes(c, r) + 2
  <2>1. r.phys <= 2 * Passes(c, r) + 1
    BY <1>1 DEF Counted
  <2> HIDE DEF Passes
  <2> QED
    BY <1>0, <1>4, <2>1
<1>8. /\ r.attempt <= Args[c].retries - 1 /\ r.empties <= Args[c].empties
      /\ r.leg \in 1..Args[c].legs /\ r.phys <= MaxRequests(c)
  BY <1>1 DEF Counted
<1>9. r.index \in 1..r.phys
  BY <1>0, <1>3
<1> QED
  BY <1>1, <1>5, <1>6, <1>7, <1>8, <1>9 DEF Attempt

\* A replay in the air: the streamed request and the replay are both open.
LEMMA InReplay ==
  ASSUME LLMCallAssumption, NEW c \in Calls, NEW r, CallInv(c, r), r.pc # "ended", r.replay # 0
  PROVE  /\ r \in CallRecords(c) /\ r.index \in Tally /\ r.replay \in Tally
         /\ r.phys \in Nat /\ r.index = r.phys - 1 /\ r.index \in 1..r.phys /\ r.replay = r.phys
         /\ \A i \in 1..MaxRequests(c) : r.finished[i] = IF i < r.index THEN 1 ELSE 0
         /\ r.delivered = 0 /\ r.source = 0 /\ r.result = "none" /\ r.futile = 0
         /\ r.attempt <= Args[c].retries - 1 /\ r.empties <= Args[c].empties
         /\ r.leg \in 1..Args[c].legs
         /\ r.phys <= MaxRequests(c) /\ r.phys <= 2 * Passes(c, r) + 2
<1>1. /\ r \in CallRecords(c) /\ r.pc \in PCs /\ OpenRequests(r) /\ Billed(r) /\ Counted(c, r)
      /\ r.futile = 0
  BY DEF CallInv, CallRecords
<1>2. /\ r.phys \in Nat /\ r.index \in Tally /\ r.replay \in Tally
      /\ DOMAIN r.finished = 1..MaxRequests(c) /\ MaxRequests(c) \in Nat
  BY <1>1, ArgsOK DEF CallRecords, Tally, Events
<1>3. r.index = r.phys - 1 /\ r.phys > 1 /\ r.replay = r.phys
  BY <1>1, <1>2 DEF OpenRequests, PCs, Timed
<1>4. r.delivered = 0 /\ r.source = 0 /\ r.result = "none"
  BY <1>1 DEF Billed
<1>5. \A i \in 1..MaxRequests(c) :
        r.finished[i] = IF i <= r.phys /\ i # r.index /\ i # r.replay THEN 1 ELSE 0
  BY <1>1, <1>2 DEF Billed
<1>6. \A i \in 1..MaxRequests(c) : r.finished[i] = IF i < r.index THEN 1 ELSE 0
  <2> SUFFICES ASSUME NEW i \in 1..MaxRequests(c)
               PROVE  i < r.index <=> i <= r.phys /\ i # r.index /\ i # r.replay
    BY <1>5
  <2>1. i \in Int /\ r.phys \in Int
    BY <1>2
  <2> QED
    BY <1>3, <2>1
<1>7. r.phys <= 2 * Passes(c, r) + 2
  <2>1. Passes(c, r) \in Int
    BY <1>1, PassesType
  <2>2. r.index # 0
    BY <1>2, <1>3
  <2> QED
    BY <1>1, <2>1, <2>2 DEF Counted
<1>8. /\ r.attempt <= Args[c].retries - 1 /\ r.empties <= Args[c].empties
      /\ r.leg \in 1..Args[c].legs /\ r.phys <= MaxRequests(c)
  BY <1>1 DEF Counted
<1>9. r.index \in 1..r.phys
  BY <1>2, <1>3
<1> QED
  BY <1>1, <1>2, <1>3, <1>4, <1>6, <1>7, <1>8, <1>9

\* A replay that answers takes the place of the streamed request, which is
\* billed; a replay that does not is billed and the streamed response kept.
LEMMA ReplayEnds ==
  ASSUME LLMCallAssumption, NEW c \in Calls, NEW r, CallInv(c, r), r.pc # "ended", r.replay # 0
  PROVE  /\ Attempt(c, Recovered(r)) /\ Recovered(r).futile = 0
         /\ Recovered(r).index = r.replay /\ Recovered(r).phys = r.phys
         /\ Attempt(c, Finish(r, r.replay))
         /\ Finish(r, r.replay).index = r.index /\ Finish(r, r.replay).phys = r.phys
<1> DEFINE p == Finish(r, r.index)
           q == Recovered(r)
           s == Finish(r, r.replay)
<1>1. /\ r \in CallRecords(c) /\ r.index \in Tally /\ r.replay \in Tally
      /\ r.phys \in Nat /\ r.index = r.phys - 1 /\ r.index \in 1..r.phys /\ r.replay = r.phys
      /\ r.delivered = 0 /\ r.source = 0 /\ r.result = "none" /\ r.futile = 0
      /\ r.attempt <= Args[c].retries - 1 /\ r.empties <= Args[c].empties
      /\ r.leg \in 1..Args[c].legs
      /\ r.phys <= MaxRequests(c) /\ r.phys <= 2 * Passes(c, r) + 2
  BY InReplay
<1>2. \A i \in 1..MaxRequests(c) : r.finished[i] = IF i < r.index THEN 1 ELSE 0
  BY InReplay
<1>3. MaxRequests(c) \in Nat
  BY ArgsOK
<1>4. /\ p \in CallRecords(c) /\ p.phys = r.phys /\ p.attempt = r.attempt
      /\ p.empties = r.empties /\ p.leg = r.leg /\ p.futile = 0
      /\ p.delivered = 0 /\ p.source = 0 /\ p.result = "none"
      /\ \A k \in 1..MaxRequests(c) :
           p.finished[k] = IF k = r.index THEN r.finished[k] + 1 ELSE r.finished[k]
  BY <1>1, FinishFields
<1>5. /\ s \in CallRecords(c) /\ s.phys = r.phys /\ s.attempt = r.attempt /\ s.index = r.index
      /\ s.empties = r.empties /\ s.leg = r.leg
      /\ s.delivered = 0 /\ s.source = 0 /\ s.result = "none"
      /\ \A k \in 1..MaxRequests(c) :
           s.finished[k] = IF k = r.replay THEN r.finished[k] + 1 ELSE r.finished[k]
  BY <1>1, FinishFields
<1> HIDE DEF p, s
<1>6. q = [p EXCEPT !.index = r.replay, !.replay = 0]
  BY DEF Recovered, p
<1> HIDE DEF q
<1>7. /\ q \in CallRecords(c) /\ q.phys = r.phys /\ q.attempt = r.attempt /\ q.index = r.replay
      /\ q.empties = r.empties /\ q.leg = r.leg /\ q.futile = 0
      /\ q.delivered = 0 /\ q.source = 0 /\ q.result = "none" /\ q.finished = p.finished
  <2>1. p \in CallRecords(c) /\ r.replay \in Tally
    BY <1>1, <1>4
  <2>2. q \in CallRecords(c)
    BY <1>6, <2>1, Constants DEF CallRecords
  <2>3. /\ q.phys = p.phys /\ q.attempt = p.attempt /\ q.index = r.replay
        /\ q.empties = p.empties /\ q.leg = p.leg /\ q.futile = p.futile
        /\ q.delivered = p.delivered /\ q.source = p.source /\ q.result = p.result
        /\ q.finished = p.finished
    BY <1>6, <2>1 DEF CallRecords
  <2> QED
    BY <1>4, <2>2, <2>3
<1>8. \A i \in 1..MaxRequests(c) : q.finished[i] = IF i <= r.phys /\ i # r.replay THEN 1 ELSE 0
  BY <1>1, <1>2, <1>3, <1>4, <1>7
<1>9. \A i \in 1..MaxRequests(c) : s.finished[i] = IF i <= r.phys /\ i # r.index THEN 1 ELSE 0
  BY <1>1, <1>2, <1>3, <1>5
<1>10. Passes(c, q) = Passes(c, r) /\ Passes(c, s) = Passes(c, r)
  BY <1>5, <1>7 DEF Passes
<1>11. r.replay \in 1..r.phys
  BY <1>1
<1>12. Attempt(c, q)
  BY <1>1, <1>7, <1>8, <1>10, <1>11 DEF Attempt
<1>13. Attempt(c, s)
  BY <1>1, <1>5, <1>9, <1>10 DEF Attempt
<1> QED
  BY <1>5, <1>7, <1>12, <1>13 DEF q, s

\* The streamed response is kept after all.
LEMMA KeepInv ==
  ASSUME LLMCallAssumption, NEW c \in Calls, NEW r, CallInv(c, r), r.pc # "ended", r.index # 0,
         Becomes(c, KeepStreamed(r))
  PROVE  Leaves(c, r.phys)
<1>1. CASE r.replay = 0
  <2>1. Attempt(c, r) /\ Becomes(c, Deliver(r, r.index))
    BY <1>1, InFlight DEF KeepStreamed
  <2> QED
    BY <2>1, DeliverInv
<1>2. CASE r.replay # 0
  <2> DEFINE s == Finish(r, r.replay)
  <2>1. Attempt(c, s) /\ s.index = r.index /\ s.phys = r.phys
    BY <1>2, ReplayEnds
  <2>2. Becomes(c, Deliver(s, s.index))
    BY <1>2, <2>1 DEF KeepStreamed
  <2> HIDE DEF s
  <2>3. Leaves(c, s.phys)
    BY <2>1, <2>2, DeliverInv
  <2> QED
    BY <2>1, <2>3
<1> QED
  BY <1>1, <1>2

\* A caller that cancels leaves its open requests unbilled.
LEMMA CancelInv ==
  ASSUME LLMCallAssumption, NEW c \in Calls, NEW r, CallInv(c, r), r.pc # "ended",
         Becomes(c, End(r, "cancelled"))
  PROVE  Leaves(c, r.phys)
<1>1. r \in CallRecords(c) /\ Billed(r) /\ Counted(c, r)
  BY DEF CallInv
<1>2. r.delivered = 0 /\ r.source = 0 /\ r.phys <= MaxRequests(c)
  BY <1>1 DEF Billed, Counted
<1>3. DOMAIN r.finished = 1..MaxRequests(c)
  BY <1>1 DEF CallRecords, Events
<1>4. \A i \in 1..MaxRequests(c) : r.finished[i] <= 1
  BY <1>1, <1>3 DEF Billed
<1>5. "cancelled" \in Results
  BY DEF Results
<1>6. CallInv(c, End(r, "cancelled"))
  BY <1>1, <1>2, <1>4, <1>5, EndInv
<1>7. LET q == End(r, "cancelled") IN q \in CallRecords(c) /\ q.pc = "ended" /\ q.phys = r.phys
  BY <1>1, <1>5, EndFields
<1> QED
  BY <1>6, <1>7 DEF Leaves

\* The end of the request a call was running.
LEMMA SettledInv ==
  ASSUME LLMCallAssumption, NEW c \in Calls, NEW r, CallInv(c, r), r.pc \in {"flight", "closing"},
         NEW o, Settled(c, r, o)
  PROVE  Leaves(c, r.phys)
<1>1. r.pc # "ended" /\ r.index # 0
  <2>1. r.phys \in Nat /\ OpenRequests(r)
    BY DEF CallInv, CallRecords, Tally
  <2> QED
    BY <2>1 DEF OpenRequests
<1>2. CASE Becomes(c, End(r, "cancelled"))
  BY <1>1, <1>2, CancelInv
<1>3. CASE r.replay = 0 /\ Handled(c, r, o, r.index)
  <2>1. Attempt(c, r) /\ r.futile = 0
    BY <1>1, <1>3, InFlight
  <2> QED
    BY <1>3, <2>1, HandledInv
<1>4. CASE r.replay # 0 /\ Handled(c, Recovered(r), o, r.replay)
  <2> DEFINE q == Recovered(r)
  <2>1. Attempt(c, q) /\ q.futile = 0 /\ q.index = r.replay /\ q.phys = r.phys
    BY <1>1, <1>4, ReplayEnds
  <2>2. Handled(c, q, o, q.index)
    BY <1>4, <2>1
  <2> HIDE DEF q
  <2>3. Leaves(c, q.phys)
    BY <2>1, <2>2, HandledInv
  <2> QED
    BY <2>1, <2>3
<1>5. CASE Becomes(c, KeepStreamed(r))
  BY <1>1, <1>5, KeepInv
<1> QED
  BY <1>2, <1>3, <1>4, <1>5 DEF Settled

-----------------------------------------------------------------------------
(* The gate *)

\* A step of one call keeps the invariant of the others.
LEMMA OneCall ==
  ASSUME CallsInv, NEW c \in Calls, NEW q, Becomes(c, q), CallInv(c, q)
  PROVE  /\ CallsInv'
         /\ call'[c] = q /\ \A d \in Calls \ {c} : call'[d] = call[d]
<1>1. call'[c] = q /\ DOMAIN call' = Calls /\ \A d \in Calls \ {c} : call'[d] = call[d]
  BY DEF CallsInv, Becomes
<1>2. \A d \in Calls : CallInv(d, call'[d])
  BY <1>1 DEF CallsInv
<1> QED
  BY <1>1, <1>2 DEF CallsInv

\* Where a call has a request of its own.
Busy == Timed \ {"sleep"}

\* A call's record and its next one, as far as the gate is concerned: its
\* requests are numbered upwards, and it is busy with a new one or the same.
Follows(c, q) ==
  /\ Becomes(c, q) /\ CallInv(c, q)
  /\ q.phys >= call[c].phys
  /\ q.pc \in Busy => call[c].pc \in Busy \/ q.phys > call[c].phys

\* Types of what the gate's invariant is about.
LEMMA GateTypes ==
  ASSUME LLMCallAssumption, IInv
  PROVE  /\ IsFiniteSet(Holders) /\ Cardinality(Holders) \in Nat
         /\ IsFiniteSet(orphans) /\ Cardinality(orphans) \in Nat
         /\ Gate \in Nat /\ slots \in Nat
         /\ \A c \in Calls : CallInv(c, call[c]) /\ call[c].phys \in Nat
<1>1. IsFiniteSet(Calls) /\ Holders \subseteq Calls
  BY DEF LLMCallAssumption, Holders, In
<1>2. IsFiniteSet(Holders)
  BY <1>1, FS_Subset
<1>3. IsFiniteSet(orphans)
  BY DEF IInv, LeasesOK
<1>4. \A c \in Calls : CallInv(c, call[c]) /\ call[c].phys \in Nat
  BY DEF IInv, CallsInv, CallInv, CallRecords, Tally
<1> QED
  BY <1>2, <1>3, <1>4, FS_CardinalityType DEF LLMCallAssumption, IInv

\* The leases that stay are still of requests given up.
LEMMA LeasesKept ==
  ASSUME LLMCallAssumption, IInv, NEW c \in Calls, NEW q, Follows(c, q), orphans' \subseteq orphans
  PROVE  LeasesOK'
<1>1. orphans' \in SUBSET (Calls \X Nat) /\ IsFiniteSet(orphans')
  BY FS_Subset DEF IInv, LeasesOK
<1>2. call'[c] = q /\ \A d \in Calls \ {c} : call'[d] = call[d]
  BY OneCall DEF IInv, Follows
<1>3. q.phys \in Nat /\ call[c].phys \in Nat
  BY GateTypes DEF Follows, CallInv, CallRecords, Tally
<1>4. ASSUME NEW lease \in orphans'
      PROVE  /\ lease[2] <= call'[lease[1]].phys
             /\ call'[lease[1]].pc \in Busy => lease[2] # call'[lease[1]].phys
  <2>1. /\ lease \in orphans /\ lease[1] \in Calls /\ lease[2] \in Nat
        /\ lease[2] <= call[lease[1]].phys
        /\ call[lease[1]].pc \in Busy => lease[2] # call[lease[1]].phys
    BY <1>4 DEF IInv, LeasesOK, Busy
  <2>2. CASE lease[1] # c
    <3>1. call'[lease[1]] = call[lease[1]]
      BY <1>2, <2>1, <2>2
    <3> QED
      BY <2>1, <3>1
  <2>3. CASE lease[1] = c
    <3>1. call'[lease[1]] = q
      BY <1>2, <2>3
    <3>2. /\ q.phys >= call[c].phys
          /\ q.pc \in Busy => call[c].pc \in Busy \/ q.phys > call[c].phys
      BY DEF Follows
    <3>3. /\ lease[2] <= call[c].phys
          /\ call[c].pc \in Busy => lease[2] # call[c].phys
      BY <2>1, <2>3
    <3>4. lease[2] <= q.phys /\ (q.pc \in Busy => lease[2] # q.phys)
      BY <1>3, <2>1, <3>2, <3>3
    <3> QED
      BY <3>1, <3>4
  <2> QED
    BY <2>2, <2>3
<1> QED
  BY <1>1, <1>4 DEF LeasesOK, Busy

\* How the holders change with one call's place.
LEMMA HoldersChange ==
  ASSUME LLMCallAssumption, IInv, NEW c \in Calls, NEW q, Becomes(c, q), CallInv(c, q)
  PROVE  /\ (call[c].pc \in Holding <=> q.pc \in Holding) => Holders' = Holders
         /\ call[c].pc \notin Holding /\ q.pc \in Holding =>
              Cardinality(Holders') = Cardinality(Holders) + 1
         /\ call[c].pc \in Holding /\ q.pc \notin Holding =>
              Cardinality(Holders') = Cardinality(Holders) - 1
<1>1. call'[c] = q /\ \A d \in Calls \ {c} : call'[d] = call[d]
  BY OneCall DEF IInv
<1>2. /\ Holders = {d \in Calls : call[d].pc \in Holding}
      /\ Holders' = {d \in Calls : call'[d].pc \in Holding}
  BY DEF Holders, In
<1>3. IsFiniteSet(Holders) /\ Cardinality(Holders) \in Nat
  BY GateTypes
<1>4. (call[c].pc \in Holding <=> q.pc \in Holding) => Holders' = Holders
  BY <1>1, <1>2
<1>5. ASSUME call[c].pc \notin Holding, q.pc \in Holding
      PROVE  Cardinality(Holders') = Cardinality(Holders) + 1
  <2>1. c \notin Holders /\ Holders' = Holders \cup {c}
    BY <1>1, <1>2, <1>5
  <2> QED
    BY <1>3, <2>1, FS_AddElement
<1>6. ASSUME call[c].pc \in Holding, q.pc \notin Holding
      PROVE  Cardinality(Holders') = Cardinality(Holders) - 1
  <2>1. c \in Holders /\ Holders' = Holders \ {c}
    BY <1>1, <1>2, <1>6
  <2> QED
    BY <1>3, <2>1, FS_RemoveElement
<1> QED
  BY <1>4, <1>5, <1>6

\* A step of a call that has nothing to do with its slot.
LEMMA KeepsSlot ==
  ASSUME LLMCallAssumption, IInv, NEW c \in Calls, NEW q, Follows(c, q),
         call[c].pc \in Holding <=> q.pc \in Holding, UNCHANGED <<slots, orphans>>
  PROVE  IInv'
<1>1. Holders' = Holders /\ CallsInv'
  BY HoldersChange, OneCall DEF Follows, IInv
<1>2. LeasesOK'
  BY LeasesKept
<1> QED
  BY <1>1, <1>2 DEF IInv

\* A step of a call that takes a slot.
LEMMA TakesSlot ==
  ASSUME LLMCallAssumption, IInv, NEW c \in Calls, NEW q, Follows(c, q),
         call[c].pc \notin Holding, q.pc \in Holding,
         slots > 0, slots' = slots - 1, UNCHANGED orphans
  PROVE  IInv'
<1>1. Cardinality(Holders') = Cardinality(Holders) + 1 /\ CallsInv'
  BY HoldersChange, OneCall DEF Follows, IInv
<1>2. LeasesOK'
  BY LeasesKept
<1>3. slots' \in Nat /\ slots' + Cardinality(Holders') + Cardinality(orphans') = Gate
  BY <1>1, GateTypes DEF IInv
<1> QED
  BY <1>1, <1>2, <1>3 DEF IInv

\* A step of a call that returns its slot.
LEMMA GivesSlot ==
  ASSUME LLMCallAssumption, IInv, NEW c \in Calls, NEW q, Follows(c, q),
         call[c].pc \in Holding, q.pc \notin Holding,
         slots' = slots + 1, UNCHANGED orphans
  PROVE  IInv'
<1>1. Cardinality(Holders') = Cardinality(Holders) - 1 /\ CallsInv'
  BY HoldersChange, OneCall DEF Follows, IInv
<1>2. LeasesOK'
  BY LeasesKept
<1>3. slots' \in Nat /\ slots' + Cardinality(Holders') + Cardinality(orphans') = Gate
  BY <1>1, GateTypes DEF IInv
<1> QED
  BY <1>1, <1>2, <1>3 DEF IInv

\* A step of a call that leaves its request behind, and the slot with it.
LEMMA LeavesSlot ==
  ASSUME LLMCallAssumption, IInv, NEW c \in Calls, NEW q, Follows(c, q),
         call[c].pc \in Holding, q.pc \notin Busy, q.phys = call[c].phys,
         Abandon(c)
  PROVE  IInv'
<1> DEFINE lease == <<c, call[c].phys>>
<1>0. Holding \subseteq Busy
  BY DEF Holding, Busy, Timed
<1>1. Cardinality(Holders') = Cardinality(Holders) - 1 /\ CallsInv'
  BY <1>0, HoldersChange, OneCall DEF Follows, IInv
<1>2. orphans' = orphans \cup {lease} /\ slots' = slots
  BY DEF Abandon
<1>3. lease \notin orphans
  BY <1>0 DEF IInv, LeasesOK, Busy
<1>4. Cardinality(orphans') = Cardinality(orphans) + 1 /\ IsFiniteSet(orphans')
  BY <1>2, <1>3, GateTypes, FS_AddElement
<1>5. LeasesOK'
  <2>1. call[c].phys \in Nat /\ orphans' \in SUBSET (Calls \X Nat)
    BY <1>2, GateTypes DEF IInv, LeasesOK
  <2>2. call'[c] = q /\ \A d \in Calls \ {c} : call'[d] = call[d]
    BY OneCall DEF IInv, Follows
  <2>3. ASSUME NEW l \in orphans'
        PROVE  /\ l[2] <= call'[l[1]].phys
               /\ call'[l[1]].pc \in Busy => l[2] # call'[l[1]].phys
    <3>1. CASE l = lease
      BY <2>1, <2>2, <3>1
    <3>2. CASE l \in orphans
      <4>1. /\ l[1] \in Calls
            /\ l[2] <= call[l[1]].phys
            /\ call[l[1]].pc \in Busy => l[2] # call[l[1]].phys
        BY <3>2 DEF IInv, LeasesOK, Busy
      <4> QED
        BY <2>2, <4>1
    <3> QED
      BY <1>2, <2>3, <3>1, <3>2
  <2> QED
    BY <1>4, <2>1, <2>3 DEF LeasesOK, Busy
<1>6. slots' \in Nat /\ slots' + Cardinality(Holders') + Cardinality(orphans') = Gate
  BY <1>1, <1>2, <1>4, GateTypes DEF IInv
<1> QED
  BY <1>1, <1>5, <1>6 DEF IInv

\* An attempt that is over needs no request.
LEMMA Left ==
  ASSUME LLMCallAssumption, IInv, NEW c \in Calls, Leaves(c, call[c].phys)
  PROVE  \E q : Follows(c, q) /\ q.pc \notin Busy /\ q.pc \notin Holding /\ q.phys = call[c].phys
<1>1. PICK q \in CallRecords(c) :
        /\ Becomes(c, q) /\ CallInv(c, q)
        /\ q.pc \in {"sleep", "top", "ended"} /\ q.phys = call[c].phys
  BY DEF Leaves
<1>2. q.pc \notin Busy /\ q.pc \notin Holding
  BY <1>1 DEF Busy, Holding, Timed
<1>3. call[c].phys \in Nat
  BY GateTypes
<1>4. Follows(c, q)
  BY <1>1, <1>2, <1>3 DEF Follows
<1> QED
  BY <1>1, <1>2, <1>4

\* What the end of an attempt does to the slot it held, or not.
LEMMA EndOfAttempt ==
  ASSUME LLMCallAssumption, IInv, NEW c \in Calls, Leaves(c, call[c].phys),
         \/ call[c].pc \in Holding /\ Release
         \/ call[c].pc \in Holding /\ Abandon(c)
         \/ call[c].pc \notin Holding /\ Keep
  PROVE  IInv'
<1>1. PICK q : Follows(c, q) /\ q.pc \notin Busy /\ q.pc \notin Holding /\ q.phys = call[c].phys
  BY Left
<1>2. CASE call[c].pc \in Holding /\ Release
  BY <1>1, <1>2, GivesSlot DEF Release
<1>3. CASE call[c].pc \in Holding /\ Abandon(c)
  BY <1>1, <1>3, LeavesSlot
<1>4. CASE call[c].pc \notin Holding /\ Keep
  BY <1>1, <1>4, KeepsSlot DEF Keep
<1> QED
  BY <1>2, <1>3, <1>4

-----------------------------------------------------------------------------
(* The steps between two requests *)

\* What billing and counting depend on.
SameBooks(q, r) ==
  /\ q.index = r.index /\ q.replay = r.replay /\ q.phys = r.phys /\ q.finished = r.finished
  /\ q.delivered = r.delivered /\ q.source = r.source /\ q.result = r.result
  /\ q.attempt = r.attempt /\ q.empties = r.empties /\ q.leg = r.leg /\ q.futile = r.futile

\* A step that only moves the call or its clocks.
LEMMA BooksKept ==
  ASSUME NEW c, NEW r, CallInv(c, r), NEW q \in CallRecords(c), SameBooks(q, r),
         r.pc # "ended", q.pc # "ended", OpenRequests(q), Timely(q)
  PROVE  CallInv(c, q)
<1>1. Billed(q)
  BY DEF CallInv, Billed, SameBooks
<1>2. Passes(c, q) = Passes(c, r)
  BY DEF Passes, SameBooks
<1>3. Counted(c, q)
  BY <1>2 DEF CallInv, Counted, SameBooks
<1> QED
  BY <1>1, <1>3 DEF CallInv, SameBooks

\* There is always a number left for another request and its replay.
LEMMA RoomForRequests ==
  ASSUME LLMCallAssumption, NEW c \in Calls, NEW r \in CallRecords(c), Counted(c, r)
  PROVE  2 * Passes(c, r) + 2 <= MaxRequests(c)
<1> DEFINE w == Args[c].empties + 1
           l == Args[c].legs
<1>1. w \in Nat /\ l \in Nat /\ Args[c].retries \in Nat
  BY ArgsOK
<1>2. /\ r.attempt \in Nat /\ r.empties \in Nat /\ r.leg \in Nat
      /\ r.attempt <= Args[c].retries - 1 /\ r.empties <= w - 1 /\ r.leg \in 1..l
  BY ArgsOK DEF CallRecords, Tally, Counted
<1>3. (r.leg - 1) * w <= (l - 1) * w /\ (r.leg - 1) * w \in Int /\ (l - 1) * w \in Int
  BY <1>1, <1>2
<1>4. w * l = (l - 1) * w + w
  BY <1>1
<1>5. Passes(c, r) = r.attempt + r.empties + (r.leg - 1) * w
  BY DEF Passes
<1>6. MaxRequests(c) = 2 * (Args[c].retries - 1 + w * l)
  BY DEF MaxRequests
<1> HIDE DEF w, l
<1> QED
  BY <1>1, <1>2, <1>3, <1>4, <1>5, <1>6

\* Such a step as the gate sees it.
LEMMA Moves ==
  ASSUME LLMCallAssumption, IInv, NEW c \in Calls, NEW q \in CallRecords(c), Becomes(c, q),
         SameBooks(q, call[c]), call[c].pc # "ended", q.pc # "ended",
         OpenRequests(q), Timely(q), q.pc \in Busy => call[c].pc \in Busy
  PROVE  Follows(c, q)
<1>1. CallInv(c, call[c]) /\ call[c].phys \in Nat
  BY GateTypes
<1>2. CallInv(c, q)
  BY <1>1, BooksKept
<1> QED
  BY <1>1, <1>2 DEF Follows, SameBooks

\* A call begins with the deadline it was given.
LEMMA StartKeeps ==
  ASSUME LLMCallAssumption, IInv, NEW c \in Calls, Start(c)
  PROVE  IInv'
<1> DEFINE r == call[c]
           q == [r EXCEPT !.pc = "top", !.left = Args[c].deadline]
<1>1. r \in CallRecords(c) /\ OpenRequests(r) /\ r.pc = "idle"
  BY GateTypes DEF CallInv, Start
<1>2. Args[c].deadline \in Ticks /\ Args[c].deadline >= 0
  <2>1. Args[c].deadline \in 0..Unbounded
    BY DEF LLMCallAssumption
  <2>2. Unbounded \in Int
    BY DEF Unbounded
  <2> QED
    BY <2>1, <2>2 DEF Ticks
<1>3. Becomes(c, q) /\ UNCHANGED <<slots, orphans>>
  BY DEF Start
<1> HIDE DEF r
<1>4. q \in CallRecords(c)
  BY <1>1, <1>2, Constants DEF CallRecords
<1>5. q.pc = "top" /\ q.left = Args[c].deadline /\ SameBooks(q, r)
  BY <1>1 DEF CallRecords, SameBooks
<1> HIDE DEF q
<1>6. OpenRequests(q)
  BY <1>1, <1>5 DEF OpenRequests, SameBooks
<1>7. Timely(q)
  BY <1>2, <1>5, Overruns DEF Timely, Timed, Ticks
<1>8. q.pc \notin Busy /\ q.pc \notin Holding /\ r.pc \notin Holding
  BY <1>1, <1>5 DEF Busy, Timed, Holding
<1>9. Follows(c, q)
  BY <1>1, <1>3, <1>4, <1>5, <1>6, <1>7, <1>8, Moves DEF r
<1> QED
  BY <1>3, <1>8, <1>9, KeepsSlot DEF r

\* A backoff that is over.
LEMMA WakeKeeps ==
  ASSUME LLMCallAssumption, IInv, NEW c \in Calls, Wake(c)
  PROVE  IInv'
<1> DEFINE r == call[c]
           q == [r EXCEPT !.pc = "top"]
<1>1. r \in CallRecords(c) /\ OpenRequests(r) /\ Timely(r) /\ r.pc = "sleep"
  BY GateTypes DEF CallInv, Wake
<1>2. Becomes(c, q) /\ UNCHANGED <<slots, orphans>>
  BY DEF Wake
<1> HIDE DEF r
<1>3. q \in CallRecords(c)
  BY <1>1, Constants DEF CallRecords
<1>4. q.pc = "top" /\ q.left = r.left /\ SameBooks(q, r)
  BY <1>1 DEF CallRecords, SameBooks
<1> HIDE DEF q
<1>5. OpenRequests(q)
  BY <1>1, <1>4 DEF OpenRequests, SameBooks
<1>6. Timely(q)
  BY <1>1, <1>4, Overruns DEF Timely, Timed
<1>7. q.pc \notin Busy /\ q.pc \notin Holding /\ r.pc \notin Holding
  BY <1>1, <1>4 DEF Busy, Timed, Holding
<1>8. Follows(c, q)
  BY <1>1, <1>2, <1>3, <1>4, <1>5, <1>6, <1>7, Moves DEF r
<1> QED
  BY <1>2, <1>7, <1>8, KeepsSlot DEF r

\* Between two requests every request is billed.
LEMMA AtTop ==
  ASSUME LLMCallAssumption, NEW c \in Calls, NEW r, CallInv(c, r), r.pc = "top"
  PROVE  /\ r \in CallRecords(c) /\ r.phys \in Nat /\ r.index = 0 /\ r.replay = 0
         /\ \A i \in 1..MaxRequests(c) : r.finished[i] = IF i <= r.phys THEN 1 ELSE 0
         /\ r.delivered = 0 /\ r.source = 0 /\ r.result = "none" /\ r.futile = 0
         /\ Counted(c, r) /\ r.phys <= 2 * Passes(c, r) /\ Passes(c, r) \in Int
         /\ MaxRequests(c) \in Nat
<1>1. /\ r \in CallRecords(c) /\ r.index = 0 /\ r.replay = 0 /\ Billed(r) /\ Counted(c, r)
      /\ r.futile = 0
  BY DEF CallInv, OpenRequests
<1>2. r.phys \in Nat /\ DOMAIN r.finished = 1..MaxRequests(c) /\ MaxRequests(c) \in Nat
  BY <1>1, ArgsOK DEF CallRecords, Tally, Events
<1>3. Passes(c, r) \in Int
  BY <1>1, PassesType
<1>4. r.delivered = 0 /\ r.source = 0 /\ r.result = "none"
  BY <1>1 DEF Billed
<1>5. \A i \in 1..MaxRequests(c) :
        r.finished[i] = IF i <= r.phys /\ i # r.index /\ i # r.replay THEN 1 ELSE 0
  BY <1>1, <1>2 DEF Billed
<1>6. \A i \in 1..MaxRequests(c) : r.finished[i] = IF i <= r.phys THEN 1 ELSE 0
  BY <1>1, <1>5
<1>7. r.phys <= 2 * Passes(c, r)
  BY <1>1, <1>2, <1>3 DEF Counted
<1> QED
  BY <1>1, <1>2, <1>3, <1>4, <1>6, <1>7

\* The head of the loop opens a new request or ends the call.
LEMMA TopKeeps ==
  ASSUME LLMCallAssumption, IInv, NEW c \in Calls, Top(c)
  PROVE  IInv'
<1> DEFINE r == call[c]
           n == r.phys + 1
           q == [r EXCEPT !.pc = "admit", !.timer = Obs, !.phys = n, !.index = n]
<1>1. CallInv(c, r) /\ Timely(r) /\ r.pc = "top" /\ UNCHANGED <<slots, orphans>>
  BY GateTypes DEF CallInv, Top
<1>2. /\ r \in CallRecords(c) /\ r.phys \in Nat /\ r.index = 0 /\ r.replay = 0
      /\ r.delivered = 0 /\ r.source = 0 /\ r.result = "none" /\ r.futile = 0
      /\ Counted(c, r) /\ r.phys <= 2 * Passes(c, r) /\ Passes(c, r) \in Int
      /\ MaxRequests(c) \in Nat
  BY <1>1, AtTop
<1>3. \A i \in 1..MaxRequests(c) : r.finished[i] = IF i <= r.phys THEN 1 ELSE 0
  BY <1>1, AtTop
<1>4. r.pc \notin Holding /\ r.pc \notin Busy
  BY <1>1 DEF Holding, Busy, Timed
<1>5. CASE Refused(c, r) /\ Becomes(c, End(r, "deadline"))
  <2>1. "deadline" \in Results \ {"response"}
    BY DEF Results
  <2>2. r.phys <= MaxRequests(c)
    BY <1>2 DEF Counted
  <2>3. CallInv(c, End(r, "deadline"))
    BY <1>2, <1>3, <2>1, <2>2, EndInv
  <2>4. LET e == End(r, "deadline") IN e \in CallRecords(c) /\ e.pc = "ended" /\ e.phys = r.phys
    BY <1>2, <2>1, EndFields
  <2>5. Leaves(c, r.phys)
    BY <1>5, <2>3, <2>4 DEF Leaves
  <2> QED
    BY <1>1, <1>4, <2>5, EndOfAttempt DEF Keep
<1>6. CASE ~Refused(c, r) /\ Becomes(c, q)
  <2> HIDE DEF r
  <2>1. n \in Tally /\ Obs \in Ticks /\ Obs \in Nat /\ Obs <= Floor
    BY <1>2 DEF LLMCallAssumption, Tally, Ticks
  <2> HIDE DEF n
  <2>2. q \in CallRecords(c)
    BY <1>2, <2>1, Constants DEF CallRecords
  <2>3. /\ q.pc = "admit" /\ q.timer = Obs /\ q.phys = n /\ q.index = n /\ q.replay = r.replay
        /\ q.left = r.left /\ q.finished = r.finished /\ q.delivered = r.delivered
        /\ q.source = r.source /\ q.result = r.result /\ q.futile = r.futile
        /\ q.attempt = r.attempt /\ q.empties = r.empties /\ q.leg = r.leg
    BY <1>2 DEF CallRecords
  <2> HIDE DEF q
  <2>4. OpenRequests(q)
    BY <1>2, <2>3 DEF OpenRequests, n
  <2>5. Billed(q)
    <3>1. DOMAIN q.finished = 1..MaxRequests(c)
      BY <2>2 DEF CallRecords, Events
    <3>2. \A i \in 1..MaxRequests(c) :
            q.finished[i] = IF i <= q.phys /\ i # q.index /\ i # q.replay THEN 1 ELSE 0
      <4> SUFFICES ASSUME NEW i \in 1..MaxRequests(c)
                   PROVE  i <= r.phys <=> i <= n /\ i # n /\ i # 0
        BY <1>2, <1>3, <2>3
      <4>1. i \in Int /\ i > 0 /\ r.phys \in Int /\ n = r.phys + 1
        BY <1>2 DEF n
      <4> QED
        BY <4>1
    <3> QED
      BY <1>2, <2>3, <3>1, <3>2 DEF Billed
  <2>6. Counted(c, q)
    <3>1. Passes(c, q) = Passes(c, r)
      BY <2>3 DEF Passes
    <3>2. 2 * Passes(c, r) + 2 <= MaxRequests(c)
      BY <1>2, RoomForRequests
    <3>3. n <= MaxRequests(c) /\ n <= 2 * Passes(c, r) + 1
      BY <1>2, <3>2 DEF n
    <3>4. r.attempt <= Args[c].retries - 1 /\ r.empties <= Args[c].empties /\ r.leg \in 1..Args[c].legs
      BY <1>2 DEF Counted
    <3>5. n # 0
      BY <1>2 DEF n
    <3> QED
      BY <1>2, <2>3, <3>1, <3>3, <3>4, <3>5 DEF Counted
  <2>7. Timely(q)
    <3>1. r.left \in Int /\ Floor \in Nat \ {0} /\ Args[c].timeout \in Nat \ {0} /\ r.left >= 0
      BY <1>1, <1>2, ArgsOK, Overruns DEF CallRecords, Ticks, LLMCallAssumption, Timely
    <3>2. r.left >= 1
      BY <1>6, <3>1 DEF Refused
    <3>3. r.left >= Obs - Overrun("admit") /\ r.left >= -Overrun("admit")
          /\ Overrun("admit") \in Nat
      <4>1. Overrun("admit") \in Nat /\ Overrun("admit") >= Obs - 1
        BY Overruns, Constants
      <4> QED
        BY <2>1, <3>1, <3>2, <4>1
    <3> QED
      BY <2>1, <2>3, <3>3 DEF Timely, Timed
  <2>8. CallInv(c, q)
    BY <1>2, <2>2, <2>3, <2>4, <2>5, <2>6, <2>7 DEF CallInv
  <2>9. Follows(c, q) /\ q.pc \notin Holding
    BY <1>2, <1>6, <2>3, <2>8 DEF Follows, Holding, n, r
  <2> QED
    BY <1>1, <1>4, <2>9, KeepsSlot DEF r
<1> QED
  BY <1>5, <1>6 DEF Top


\* What the gate's admission leads to: a request with a budget of its own.
LEMMA PostGateFollows ==
  ASSUME LLMCallAssumption, IInv, NEW c \in Calls, call[c].pc \in {"admit", "gate"},
         call[c].left > 0, Becomes(c, PostGate(c, call[c]))
  PROVE  Follows(c, PostGate(c, call[c])) /\ PostGate(c, call[c]).pc \in Holding
<1> DEFINE r == call[c]
           t == Effective(c, r)
           b == r.left < Args[c].timeout
           q == PostGate(c, r)
<1>1. r \in CallRecords(c) /\ OpenRequests(r)
  BY GateTypes DEF CallInv
<1>2. r.left \in Int /\ Args[c].timeout \in Int /\ Args[c].timeout > 0 /\ r.phys \in Nat
  BY <1>1, ArgsOK DEF CallRecords, Ticks, Tally
<1>3. t \in Ticks /\ t > 0 /\ t <= r.left
  <2>1. t = IF Args[c].timeout <= r.left THEN Args[c].timeout ELSE r.left
    BY <1>2, MinOfTwo DEF Effective
  <2> QED
    BY <1>2, <2>1 DEF Ticks
<1> DEFINE p == [r EXCEPT !.pc = "flight", !.timer = t, !.room = t, !.budget = t, !.clamped = b]
<1>4. q = p
  BY DEF PostGate
<1>5. b \in BOOLEAN
  OBVIOUS
<1>6. call[c].pc \in {"admit", "gate"} /\ call[c].pc \in Busy
  BY DEF Busy, Timed
<1> HIDE DEF r, t, b
<1>7. p \in CallRecords(c)
  BY <1>1, <1>3, <1>5, Constants DEF CallRecords
<1>8. /\ p.pc = "flight" /\ p.timer = t /\ p.room = t /\ p.budget = t /\ p.left = r.left
      /\ SameBooks(p, r)
  BY <1>1 DEF CallRecords, SameBooks
<1> HIDE DEF p
<1>9. OpenRequests(p)
  BY <1>1, <1>2, <1>6, <1>8 DEF OpenRequests, SameBooks, r
<1>10. Timely(p)
  BY <1>2, <1>3, <1>8, Overruns DEF Timely, Ticks
<1> HIDE DEF q
<1>11. Becomes(c, q)
  BY DEF q, r
<1>12. Follows(c, p)
  BY <1>4, <1>6, <1>7, <1>8, <1>9, <1>10, <1>11, Moves DEF r
<1> QED
  BY <1>4, <1>8, <1>12 DEF Holding, q, r

\* Where a call waits for the gate its one request is an attempt.
LEMMA BeforeGate ==
  ASSUME LLMCallAssumption, IInv, NEW c \in Calls, call[c].pc \in {"admit", "gate"}
  PROVE  /\ Attempt(c, call[c]) /\ call[c].pc \notin Holding /\ call[c].pc \in Busy
         /\ call[c].left \in Int /\ call[c].timer \in Int /\ Floor \in Nat \ {0}
         /\ GateWait \in Nat /\ Obs \in Nat /\ Timely(call[c])
<1> DEFINE r == call[c]
<1>1. CallInv(c, r) /\ r \in CallRecords(c) /\ OpenRequests(r) /\ r.phys \in Nat /\ Timely(r)
  BY GateTypes DEF CallInv
<1>2. r.index # 0 /\ r.replay = 0 /\ r.pc # "ended"
  BY <1>1 DEF OpenRequests
<1>3. Attempt(c, r)
  BY <1>1, <1>2, InFlight
<1>4. r.left \in Int /\ r.timer \in Int
  BY <1>1 DEF CallRecords, Ticks
<1>5. Floor \in Nat \ {0} /\ GateWait \in Nat /\ Obs \in Nat
  BY DEF LLMCallAssumption
<1> QED
  BY <1>1, <1>3, <1>4, <1>5 DEF Holding, Busy, Timed

\* Admission: refused by the deadline, granted at once, or queued.
LEMMA AdmitKeeps ==
  ASSUME LLMCallAssumption, IInv, NEW c \in Calls, Admit(c)
  PROVE  IInv'
<1> DEFINE r == call[c]
           bounded == WaitsForDeadline(r)
           t == IF bounded THEN DeadlineWait(r) ELSE IF GateWait > 0 THEN GateWait ELSE Never
           q == [r EXCEPT !.pc = "gate", !.timer = t]
<1>1. r.pc = "admit" /\ UNCHANGED orphans
  BY DEF Admit
<1>2. /\ Attempt(c, r) /\ r.pc \notin Holding /\ r.pc \in Busy /\ r.left \in Int
      /\ Floor \in Nat \ {0} /\ GateWait \in Nat /\ Obs \in Nat /\ Timely(r)
  BY <1>1, BeforeGate
<1>3. CASE Becomes(c, Raise(r, "deadline")) /\ UNCHANGED <<slots, queue>>
  <2>1. "deadline" \in Results \ {"response"}
    BY DEF Results
  <2>2. Leaves(c, r.phys)
    BY <1>2, <1>3, <2>1, RaiseInv
  <2> QED
    BY <1>1, <1>2, <1>3, <2>2, EndOfAttempt DEF Keep
<1>4. ASSUME ~(bounded /\ DeadlineWait(r) <= 0)
      PROVE  /\ r.left > 0 /\ t \in Ticks /\ (r.left > t \/ r.left = Unbounded)
             /\ t >= 0 \/ (t = Never /\ r.left = Unbounded)
  <2>1. Unbounded = 1000 /\ Never = -1 /\ DeadlineWait(r) = r.left - Floor
    BY DEF Unbounded, Never, DeadlineWait
  <2>2. bounded <=> r.left # Unbounded /\ (GateWait = 0 \/ DeadlineWait(r) <= GateWait)
    BY DEF WaitsForDeadline
  <2> DEFINE l == r.left
             w == DeadlineWait(r)
  <2>3. /\ l \in Int /\ Floor \in Int /\ Floor > 0 /\ GateWait \in Int /\ GateWait >= 0
        /\ w = l - Floor /\ (bounded <=> l # 1000 /\ (GateWait = 0 \/ w <= GateWait))
        /\ ~(bounded /\ w <= 0) /\ Unbounded = 1000 /\ Never = -1
    BY <1>2, <1>4, <2>1, <2>2
  <2>4. t = IF bounded THEN w ELSE IF GateWait > 0 THEN GateWait ELSE Never
    OBVIOUS
  <2> HIDE DEF l, w, bounded, t
  <2>5. CASE bounded
    <3>1. t = w
      BY <2>4, <2>5
    <3> QED
      BY <2>3, <2>5, <3>1 DEF Ticks, l
  <2>6. CASE ~bounded
    <3>1. t = IF GateWait > 0 THEN GateWait ELSE -1
      BY <2>3, <2>4, <2>6
    <3> QED
      BY <2>3, <2>6, <3>1 DEF Ticks, l
  <2> QED
    BY <2>5, <2>6
<1>5. CASE /\ ~(bounded /\ DeadlineWait(r) <= 0) /\ slots > 0 /\ slots' = slots - 1
           /\ Becomes(c, PostGate(c, r))
  <2>1. r.left > 0
    BY <1>4, <1>5
  <2>2. Follows(c, PostGate(c, r)) /\ PostGate(c, r).pc \in Holding
    BY <1>1, <1>5, <2>1, PostGateFollows
  <2> QED
    BY <1>1, <1>2, <1>5, <2>2, TakesSlot
<1>6. CASE ~(bounded /\ DeadlineWait(r) <= 0) /\ Becomes(c, q) /\ UNCHANGED slots
  <2>1. /\ r.left > 0 /\ t \in Ticks /\ (r.left > t \/ r.left = Unbounded)
        /\ t >= 0 \/ (t = Never /\ r.left = Unbounded)
    BY <1>4, <1>6
  <2>2. r \in CallRecords(c) /\ OpenRequests(r)
    BY GateTypes DEF CallInv
  <2> HIDE DEF r, t
  <2>3. q \in CallRecords(c)
    BY <2>1, <2>2, Constants DEF CallRecords
  <2>4. q.pc = "gate" /\ q.timer = t /\ q.left = r.left /\ SameBooks(q, r)
    BY <2>2 DEF CallRecords, SameBooks
  <2> HIDE DEF q
  <2>5. OpenRequests(q)
    BY <1>1, <2>2, <2>4 DEF OpenRequests, SameBooks
  <2>6. Timely(q)
    BY <1>2, <2>1, <2>4, Overruns DEF Timely, Ticks
  <2>7. q.pc \notin Holding
    BY <2>4 DEF Holding
  <2>8. Follows(c, q)
    BY <1>1, <1>2, <1>6, <2>3, <2>4, <2>5, <2>6, Moves DEF r
  <2> QED
    BY <1>1, <1>2, <1>6, <2>7, <2>8, KeepsSlot DEF r
<1> QED
  BY <1>3, <1>5, <1>6 DEF Admit

\* A permit that reaches a waiter.
LEMMA GrantedKeeps ==
  ASSUME LLMCallAssumption, IInv, NEW c \in Calls, Granted(c)
  PROVE  IInv'
<1>1. call[c].pc = "gate" /\ slots > 0 /\ slots' = slots - 1 /\ UNCHANGED orphans
      /\ Becomes(c, PostGate(c, call[c]))
  BY DEF Granted
<1>2. /\ call[c].pc \notin Holding /\ call[c].left \in Int /\ call[c].timer \in Int
      /\ Timely(call[c])
  BY <1>1, BeforeGate
<1>3. call[c].left > 0
  <2>1. /\ call[c].timer >= 0 \/ call[c].left = Unbounded
        /\ call[c].left > call[c].timer \/ call[c].left = Unbounded
    BY <1>1, <1>2 DEF Timely, Timed
  <2> QED
    BY <1>2, <2>1 DEF Unbounded
<1>4. Follows(c, PostGate(c, call[c])) /\ PostGate(c, call[c]).pc \in Holding
  BY <1>1, <1>3, PostGateFollows
<1> QED
  BY <1>1, <1>2, <1>4, TakesSlot

\* A waiter whose admission budget is over.
LEMMA GateTimeoutKeeps ==
  ASSUME LLMCallAssumption, IInv, NEW c \in Calls, GateTimeout(c)
  PROVE  IInv'
<1> DEFINE why == IF call[c].left = Floor THEN "deadline" ELSE "gate_wait"
<1>1. call[c].pc = "gate" /\ UNCHANGED <<slots, orphans>> /\ Becomes(c, Raise(call[c], why))
  BY DEF GateTimeout
<1>2. why \in Results \ {"response"}
  BY DEF Results
<1> HIDE DEF why
<1>3. Attempt(c, call[c]) /\ call[c].pc \notin Holding
  BY <1>1, BeforeGate
<1>4. Leaves(c, call[c].phys)
  BY <1>1, <1>2, <1>3, RaiseInv
<1> QED
  BY <1>1, <1>3, <1>4, EndOfAttempt DEF Keep


-----------------------------------------------------------------------------
(* The steps of a call that holds a slot *)

\* What the invariant says of a call with a slot.
LEMMA WithSlot ==
  ASSUME LLMCallAssumption, IInv, NEW c \in Calls, call[c].pc \in Holding
  PROVE  LET r == call[c] IN
         /\ CallInv(c, r) /\ r \in CallRecords(c) /\ OpenRequests(r) /\ Counted(c, r) /\ Timely(r)
         /\ r.phys \in Nat /\ r.index # 0 /\ r.pc # "ended" /\ r.pc \in Busy
         /\ r.left \in Int /\ r.timer \in Int /\ r.room \in Int /\ r.budget \in Int /\ r.budget > 0
<1> DEFINE r == call[c]
<1>1. /\ CallInv(c, r) /\ r \in CallRecords(c) /\ OpenRequests(r) /\ Counted(c, r) /\ Timely(r)
      /\ r.phys \in Nat
  BY GateTypes DEF CallInv
<1>2. r.index # 0 /\ r.pc # "ended" /\ r.pc \in Busy
  BY <1>1 DEF OpenRequests, Holding, Busy, Timed
<1>3. r.left \in Int /\ r.timer \in Int /\ r.room \in Int /\ r.budget \in Int
  BY <1>1 DEF CallRecords, Ticks
<1>4. r.budget > 0
  BY <1>1 DEF Timely, Holding
<1> QED
  BY <1>1, <1>2, <1>3, <1>4

\* The next entry of the provider chain serves: more passes than before are
\* accounted for.
LEMMA FallThroughKeeps ==
  ASSUME LLMCallAssumption, IInv, NEW c \in Calls, FallThrough(c)
  PROVE  IInv'
<1> DEFINE r == call[c]
           n == r.leg + 1
           q == [r EXCEPT !.leg = n]
<1>1. r.pc = "flight" /\ r.leg < Args[c].legs /\ Becomes(c, q) /\ UNCHANGED <<slots, orphans>>
  BY DEF FallThrough
<1>2. r.pc \in Holding
  BY <1>1 DEF Holding
<1>3. /\ CallInv(c, r) /\ r \in CallRecords(c) /\ OpenRequests(r) /\ Counted(c, r) /\ Timely(r)
      /\ r.phys \in Nat
  BY <1>2, WithSlot
<1>4. r.leg \in Nat /\ r.leg >= 1 /\ Args[c].legs \in Nat /\ n \in Tally
  BY <1>3, ArgsOK DEF Counted, CallRecords, Tally
<1> HIDE DEF r, n
<1>5. q \in CallRecords(c)
  BY <1>3, <1>4 DEF CallRecords
<1>6. /\ q.pc = r.pc /\ q.left = r.left /\ q.timer = r.timer /\ q.room = r.room
      /\ q.budget = r.budget /\ q.index = r.index /\ q.replay = r.replay /\ q.phys = r.phys
      /\ q.finished = r.finished /\ q.delivered = r.delivered /\ q.source = r.source
      /\ q.result = r.result /\ q.attempt = r.attempt /\ q.empties = r.empties
      /\ q.futile = r.futile /\ q.leg = n
  BY <1>3 DEF CallRecords
<1> HIDE DEF q
<1>7. OpenRequests(q) /\ Timely(q)
  BY <1>3, <1>6 DEF OpenRequests, Timely
<1>8. Billed(q)
  BY <1>3, <1>6 DEF CallInv, Billed
<1>9. Counted(c, q)
  <2>1. Passes(c, r) \in Int /\ Passes(c, q) \in Int
    BY <1>3, <1>5, PassesType
  <2>2. Passes(c, q) >= Passes(c, r)
    <3> DEFINE w == Args[c].empties + 1
    <3>1. w \in Nat
      BY ArgsOK
    <3>2. Passes(c, r) = r.attempt + r.empties + (r.leg - 1) * w
      BY DEF Passes
    <3>3. Passes(c, q) = r.attempt + r.empties + (n - 1) * w
      BY <1>6 DEF Passes
    <3>4. r.attempt \in Nat /\ r.empties \in Nat
      BY <1>3 DEF CallRecords, Tally
    <3> HIDE DEF w
    <3>5. (n - 1) * w = (r.leg - 1) * w + w /\ (r.leg - 1) * w \in Int
      <4>1. \A m, v \in Int : m * v = (m - 1) * v + v /\ (m - 1) * v \in Int
        OBVIOUS
      <4>2. n - 1 = r.leg /\ r.leg \in Int /\ w \in Int
        BY <1>4, <3>1 DEF n
      <4> QED
        BY <4>1, <4>2
    <3> QED
      BY <3>1, <3>2, <3>3, <3>4, <3>5
  <2>3. n \in 1..Args[c].legs
    BY <1>1, <1>4 DEF n
  <2>4. \/ r.index = 0 /\ r.phys <= 2 * Passes(c, r)
        \/ r.index # 0 /\ r.replay = 0 /\ r.phys <= 2 * Passes(c, r) + 1
        \/ r.index # 0 /\ r.replay # 0 /\ r.phys <= 2 * Passes(c, r) + 2
    BY <1>1, <1>3, <2>1 DEF Counted
  <2>5. \/ r.index = 0 /\ r.phys <= 2 * Passes(c, q)
        \/ r.index # 0 /\ r.replay = 0 /\ r.phys <= 2 * Passes(c, q) + 1
        \/ r.index # 0 /\ r.replay # 0 /\ r.phys <= 2 * Passes(c, q) + 2
    BY <1>3, <2>1, <2>2, <2>4
  <2>6. /\ r.attempt <= Args[c].retries - 1 /\ r.empties <= Args[c].empties
        /\ r.phys <= MaxRequests(c)
    BY <1>3 DEF Counted
  <2> QED
    BY <1>3, <1>6, <2>1, <2>3, <2>5, <2>6 DEF Counted
<1>10. CallInv(c, q)
  BY <1>3, <1>5, <1>6, <1>7, <1>8, <1>9 DEF CallInv
<1>11. Follows(c, q)
  BY <1>1, <1>3, <1>6, <1>10 DEF Follows, r
<1> QED
  BY <1>1, <1>6, <1>11, KeepsSlot DEF r

\* A request that ends by itself.
LEMMA RequestEndsKeeps ==
  ASSUME LLMCallAssumption, IInv, NEW c \in Calls, RequestEnds(c)
  PROVE  IInv'
<1>1. call[c].pc = "flight" /\ Release /\ \E o : Settled(c, call[c], o)
  BY DEF RequestEnds
<1>2. call[c].pc \in Holding
  BY <1>1 DEF Holding
<1>3. CallInv(c, call[c])
  BY <1>2, WithSlot
<1>4. Leaves(c, call[c].phys)
  BY <1>1, <1>3, SettledInv
<1> QED
  BY <1>1, <1>2, <1>4, EndOfAttempt

\* A provider that raises.
LEMMA RequestFailsKeeps ==
  ASSUME LLMCallAssumption, IInv, NEW c \in Calls, RequestFails(c)
  PROVE  IInv'
<1> DEFINE r == call[c]
<1>1. r.pc = "flight" /\ Release
  BY DEF RequestFails
<1>2. r.pc \in Holding
  BY <1>1 DEF Holding
<1>3. CallInv(c, r) /\ r.index # 0 /\ r.pc # "ended" /\ Timely(r)
  BY <1>2, WithSlot
<1>4. CASE r.replay # 0
  <2>1. Becomes(c, KeepStreamed(r))
    BY <1>4 DEF RequestFails
  <2>2. Leaves(c, r.phys)
    BY <1>3, <2>1, KeepInv
  <2> QED
    BY <1>1, <1>2, <2>2, EndOfAttempt
<1>5. CASE r.replay = 0
  <2>1. PICK e : HandledError(c, [r EXCEPT !.futile = @ + (IF Hopeless(e) THEN 1 ELSE 0)], e)
    BY <1>5 DEF RequestFails
  <2>2. Attempt(c, r) /\ r.futile = 0
    BY <1>3, <1>5, InFlight
  <2>3. r.left >= 0
    BY <1>1, <1>3, Overruns DEF Timely
  <2>4. Leaves(c, r.phys)
    BY <2>1, <2>2, <2>3, FailureInv
  <2> QED
    BY <1>1, <1>2, <2>4, EndOfAttempt
<1> QED
  BY <1>4, <1>5

\* A replay is only sent with time left, within the slot's budget.
LEMMA ReplayBudget ==
  ASSUME LLMCallAssumption, IInv, NEW c \in Calls, call[c].pc \in Holding, ~NoReplay(c, call[c])
  PROVE  LET t == RecoveryTimeout(c, call[c]) IN
         t \in Ticks /\ t >= 1 /\ t <= call[c].left /\ t <= call[c].room
<1> DEFINE r == call[c]
           u == Effective(c, r)
           t == RecoveryTimeout(c, r)
<1>1. r.left \in Int /\ r.room \in Int /\ r.budget \in Int /\ r.budget > 0
  BY WithSlot
<1>2. Args[c].timeout \in Int /\ RecoveryMin \in Int /\ RecoveryMin >= 1
  BY ArgsOK DEF LLMCallAssumption
<1> HIDE DEF r
<1>3. u = IF Args[c].timeout <= r.left THEN Args[c].timeout ELSE r.left
  BY <1>1, <1>2, MinOfTwo DEF Effective
<1>4. u \in Int /\ u <= r.left
  BY <1>1, <1>2, <1>3
<1>5. t = IF u <= r.room THEN u ELSE r.room
  <2> HIDE DEF u
  <2>1. Min({u, r.room}) = IF u <= r.room THEN u ELSE r.room
    BY <1>1, <1>4, MinOfTwo
  <2> QED
    BY <2>1 DEF RecoveryTimeout, u
<1> HIDE DEF u
<1>6. ~(t < RecoveryMin /\ 2 * t < r.budget)
  BY DEF NoReplay, r
<1> HIDE DEF t
<1>7. t \in Int /\ t >= 1 /\ t <= r.left /\ t <= r.room
  BY <1>1, <1>2, <1>4, <1>5, <1>6
<1> QED
  BY <1>7 DEF Ticks, t, r

\* An invalid streamed tool call: kept, or replayed under a number of its own.
LEMMA InvalidStreamedKeeps ==
  ASSUME LLMCallAssumption, IInv, NEW c \in Calls, InvalidStreamed(c)
  PROVE  IInv'
<1> DEFINE r == call[c]
           n == r.phys + 1
           q == [r EXCEPT !.pc = "replay", !.timer = Obs, !.phys = n, !.replay = n]
<1>1. r.pc = "flight" /\ r.replay = 0
  BY DEF InvalidStreamed
<1>2. r.pc \in Holding
  BY <1>1 DEF Holding
<1>3. /\ CallInv(c, r) /\ r \in CallRecords(c) /\ OpenRequests(r) /\ Counted(c, r) /\ Timely(r)
      /\ r.phys \in Nat /\ r.index # 0 /\ r.pc # "ended" /\ r.pc \in Busy
      /\ r.left \in Int /\ r.room \in Int /\ r.budget > 0
  BY <1>2, WithSlot
<1>4. CASE Becomes(c, KeepStreamed(r)) /\ Release
  <2>1. Leaves(c, r.phys)
    BY <1>3, <1>4, KeepInv
  <2> QED
    BY <1>2, <1>4, <2>1, EndOfAttempt
<1>5. CASE ~NoReplay(c, r) /\ Becomes(c, q) /\ Keep
  <2>1. r.left >= 1 /\ r.room >= 1
    <3>1. LET t == RecoveryTimeout(c, r) IN t \in Ticks /\ t >= 1 /\ t <= r.left /\ t <= r.room
      BY <1>2, <1>5, ReplayBudget
    <3> QED
      BY <1>3, <3>1 DEF Ticks
  <2>2. Attempt(c, r) /\ r.futile = 0
    BY <1>1, <1>3, InFlight
  <2> HIDE DEF r
  <2>3. n \in Tally /\ Obs \in Ticks /\ Obs \in Nat
    BY <1>3 DEF LLMCallAssumption, Tally, Ticks
  <2> HIDE DEF n
  <2>4. q \in CallRecords(c)
    BY <1>3, <2>3, Constants DEF CallRecords
  <2>5. /\ q.pc = "replay" /\ q.timer = Obs /\ q.phys = n /\ q.replay = n /\ q.index = r.index
        /\ q.left = r.left /\ q.room = r.room /\ q.budget = r.budget
        /\ q.finished = r.finished /\ q.delivered = r.delivered
        /\ q.source = r.source /\ q.result = r.result /\ q.futile = r.futile
        /\ q.attempt = r.attempt /\ q.empties = r.empties /\ q.leg = r.leg
    BY <1>3 DEF CallRecords
  <2> HIDE DEF q
  <2>6. r.index = r.phys /\ r.phys > 0
    BY <1>1, <1>3 DEF OpenRequests
  <2>7. OpenRequests(q)
    BY <1>3, <2>5, <2>6 DEF OpenRequests, n
  <2>8. Billed(q)
    <3>1. DOMAIN q.finished = 1..MaxRequests(c) /\ MaxRequests(c) \in Nat
      BY <2>4, ArgsOK DEF CallRecords, Events
    <3>2. \A i \in 1..MaxRequests(c) : r.finished[i] = IF i <= r.phys /\ i # r.index THEN 1 ELSE 0
      BY <2>2 DEF Attempt
    <3>3. \A i \in 1..MaxRequests(c) :
            q.finished[i] = IF i <= q.phys /\ i # q.index /\ i # q.replay THEN 1 ELSE 0
      <4> SUFFICES ASSUME NEW i \in 1..MaxRequests(c)
                   PROVE  i <= r.phys /\ i # r.index <=> i <= n /\ i # r.index /\ i # n
        BY <2>5, <3>2
      <4>1. i \in Int /\ r.phys \in Int /\ n = r.phys + 1
        BY <1>3 DEF n
      <4> QED
        BY <4>1
    <3>4. r.delivered = 0 /\ r.source = 0 /\ r.result = "none"
      BY <2>2 DEF Attempt
    <3> QED
      BY <2>5, <3>1, <3>3, <3>4 DEF Billed
  <2>9. Counted(c, q)
    <3>1. Passes(c, q) = Passes(c, r) /\ Passes(c, r) \in Int /\ MaxRequests(c) \in Nat
      BY <1>3, <2>5, PassesType, ArgsOK DEF Passes
    <3>2. 2 * Passes(c, r) + 2 <= MaxRequests(c)
      BY <1>3, RoomForRequests
    <3>3. r.phys <= 2 * Passes(c, r) + 1
      BY <1>1, <1>3, <3>1 DEF Counted
    <3>4. n <= MaxRequests(c) /\ n <= 2 * Passes(c, r) + 2 /\ n # 0
      BY <1>3, <3>1, <3>2, <3>3 DEF n
    <3>5. r.attempt <= Args[c].retries - 1 /\ r.empties <= Args[c].empties /\ r.leg \in 1..Args[c].legs
      BY <1>3 DEF Counted
    <3> QED
      BY <1>3, <2>5, <3>1, <3>4, <3>5 DEF Counted
  <2>10. Timely(q)
    <3>1. Overrun("replay") \in Nat /\ Overrun("replay") >= Obs - 1
      BY Overruns, Constants
    <3>2. /\ r.left >= Obs - Overrun("replay") /\ r.left >= -Overrun("replay")
          /\ r.room >= Obs - Overrun("replay")
      BY <1>3, <2>1, <2>3, <3>1
    <3> QED
      BY <1>3, <2>3, <2>5, <3>2 DEF Timely
  <2>11. CallInv(c, q)
    BY <2>2, <2>4, <2>5, <2>7, <2>8, <2>9, <2>10 DEF CallInv
  <2>12. Follows(c, q) /\ q.pc \in Holding
    BY <1>3, <1>5, <2>5, <2>11 DEF Follows, Holding, n, r
  <2> QED
    BY <1>2, <1>5, <2>12, KeepsSlot DEF r, Keep
<1> QED
  BY <1>4, <1>5 DEF InvalidStreamed


\* The replay's turn: kept after all, or sent within the slot's budget.
LEMMA ReplayStartKeeps ==
  ASSUME LLMCallAssumption, IInv, NEW c \in Calls, ReplayStart(c)
  PROVE  IInv'
<1> DEFINE r == call[c]
           t == RecoveryTimeout(c, r)
           q == [r EXCEPT !.pc = "flight", !.timer = t]
<1>1. r.pc = "replay" /\ r.pc \in Holding
  BY DEF ReplayStart, Holding
<1>2. /\ CallInv(c, r) /\ r \in CallRecords(c) /\ OpenRequests(r)
      /\ r.phys \in Nat /\ r.index # 0 /\ r.pc # "ended" /\ r.pc \in Busy
      /\ r.left \in Int /\ r.room \in Int /\ r.budget > 0
  BY <1>1, WithSlot
<1>3. CASE Becomes(c, KeepStreamed(r)) /\ Release
  <2>1. Leaves(c, r.phys)
    BY <1>2, <1>3, KeepInv
  <2> QED
    BY <1>1, <1>3, <2>1, EndOfAttempt
<1>4. CASE ~NoReplay(c, r) /\ Becomes(c, q) /\ Keep
  <2>1. t \in Ticks /\ t >= 1 /\ t <= r.left /\ t <= r.room
    BY <1>1, <1>4, ReplayBudget
  <2> HIDE DEF r, t
  <2>2. q \in CallRecords(c)
    BY <1>2, <2>1, Constants DEF CallRecords
  <2>3. /\ q.pc = "flight" /\ q.timer = t /\ q.left = r.left /\ q.room = r.room
        /\ q.budget = r.budget /\ SameBooks(q, r)
    BY <1>2 DEF CallRecords, SameBooks
  <2> HIDE DEF q
  <2>4. OpenRequests(q)
    BY <1>1, <1>2, <2>3 DEF OpenRequests, SameBooks
  <2>5. Timely(q)
    BY <1>2, <2>1, <2>3, Overruns DEF Timely, Ticks
  <2>6. Follows(c, q) /\ q.pc \in Holding
    BY <1>2, <1>4, <2>2, <2>3, <2>4, <2>5, Moves DEF r, Holding
  <2> QED
    BY <1>1, <1>4, <2>6, KeepsSlot DEF r, Keep
<1> QED
  BY <1>3, <1>4 DEF ReplayStart

\* A stream that is given up keeps its slot while it is closed.
LEMMA CloseStreamKeeps ==
  ASSUME LLMCallAssumption, IInv, NEW c \in Calls, call[c].pc = "flight",
         NEW o \in Outcomes, CloseStream(c, o)
  PROVE  IInv'
<1> DEFINE r == call[c]
           q == [r EXCEPT !.pc = "closing", !.timer = Grace, !.after = o]
<1>1. r.pc \in Holding /\ Becomes(c, q) /\ Keep
  BY DEF CloseStream, Holding
<1>2. /\ CallInv(c, r) /\ r \in CallRecords(c) /\ OpenRequests(r) /\ Timely(r)
      /\ r.pc # "ended" /\ r.pc \in Busy /\ r.left \in Int /\ r.budget > 0
  BY <1>1, WithSlot
<1>3. Grace \in Ticks /\ Grace \in Nat
  BY DEF LLMCallAssumption, Ticks
<1>4. r.left >= 0
  BY <1>2, Overruns DEF Timely
<1>5. r.pc = "flight"
  OBVIOUS
<1> HIDE DEF r
<1>6. q \in CallRecords(c)
  BY <1>2, <1>3, Constants DEF CallRecords
<1>7. /\ q.pc = "closing" /\ q.timer = Grace /\ q.left = r.left /\ q.budget = r.budget
      /\ SameBooks(q, r)
  BY <1>2 DEF CallRecords, SameBooks
<1> HIDE DEF q
<1>8. OpenRequests(q)
  BY <1>2, <1>5, <1>7 DEF OpenRequests, SameBooks
<1>9. Timely(q)
  BY <1>2, <1>3, <1>4, <1>7, Overruns DEF Timely
<1>10. Follows(c, q) /\ q.pc \in Holding
  BY <1>1, <1>2, <1>6, <1>7, <1>8, <1>9, Moves DEF r, Holding
<1> QED
  BY <1>1, <1>10, KeepsSlot DEF r, Keep

\* A stream its watchdogs stop.
LEMMA WatchdogKeeps ==
  ASSUME LLMCallAssumption, IInv, NEW c \in Calls, WatchdogFires(c)
  PROVE  IInv'
<1>1. PICK o \in Closing : call[c].pc = "flight" /\ CloseStream(c, o)
  BY DEF WatchdogFires
<1>2. o \in Outcomes
  BY DEF Outcomes
<1> QED
  BY <1>1, <1>2, CloseStreamKeeps

\* A request whose timer ends: its stream is closed, or it is left behind.
LEMMA TimesOutKeeps ==
  ASSUME LLMCallAssumption, IInv, NEW c \in Calls, TimesOut(c)
  PROVE  IInv'
<1>1. call[c].pc = "flight" /\ call[c].pc \in Holding /\ "timeout" \in Outcomes
  BY DEF TimesOut, Holding, Outcomes
<1>2. CASE CloseStream(c, "timeout")
  BY <1>1, <1>2, CloseStreamKeeps
<1>3. CASE Settled(c, call[c], "timeout") /\ Abandon(c)
  <2>1. CallInv(c, call[c])
    BY <1>1, WithSlot
  <2>2. Leaves(c, call[c].phys)
    BY <1>1, <1>3, <2>1, SettledInv
  <2> QED
    BY <1>1, <1>3, <2>2, EndOfAttempt
<1> QED
  BY <1>2, <1>3 DEF TimesOut

\* A stream that is closed, or left behind at the end of its grace.
LEMMA CloseEndsKeeps ==
  ASSUME LLMCallAssumption, IInv, NEW c \in Calls, CloseEnds(c)
  PROVE  IInv'
<1>1. /\ call[c].pc = "closing" /\ call[c].pc \in Holding
      /\ Settled(c, call[c], call[c].after) /\ (Release \/ Abandon(c))
  BY DEF CloseEnds, Holding
<1>2. CallInv(c, call[c])
  BY <1>1, WithSlot
<1>3. Leaves(c, call[c].phys)
  BY <1>1, <1>2, SettledInv
<1> QED
  BY <1>1, <1>3, EndOfAttempt

\* A caller that cancels at a suspension point.
LEMMA CancelKeeps ==
  ASSUME LLMCallAssumption, IInv, NEW c \in Calls, Cancel(c)
  PROVE  IInv'
<1> DEFINE r == call[c]
           gone == Becomes(c, End(r, "cancelled"))
<1>1. CallInv(c, r)
  BY GateTypes
<1>2. CASE r.pc = "flight" /\ CloseStream(c, "cancel")
  BY <1>2, CloseStreamKeeps DEF Outcomes
<1>3. CASE r.pc # "ended" /\ gone /\ \/ r.pc \in Holding /\ Release
                                     \/ r.pc \in Holding /\ Abandon(c)
                                     \/ r.pc \notin Holding /\ Keep
  <2>1. Leaves(c, r.phys)
    BY <1>1, <1>3, CancelInv
  <2> QED
    BY <1>3, <2>1, EndOfAttempt
<1> QED
  BY <1>2, <1>3 DEF Cancel, Holding

-----------------------------------------------------------------------------
(* The steps of all calls and of none *)

\* An abandoned request that settles returns its slot.
LEMMA SettleKeeps ==
  ASSUME LLMCallAssumption, IInv, NEW c \in Calls, Settle(c)
  PROVE  IInv'
<1>1. PICK lease \in orphans : orphans' = orphans \ {lease}
  BY DEF Settle
<1>2. slots' = slots + 1 /\ call' = call
  BY DEF Settle
<1>3. IsFiniteSet(orphans') /\ Cardinality(orphans') = Cardinality(orphans) - 1
  BY <1>1, GateTypes, FS_RemoveElement
<1>4. Holders' = Holders /\ CallsInv'
  BY <1>2 DEF Holders, In, IInv, CallsInv
<1>5. LeasesOK'
  BY <1>1, <1>2, <1>3 DEF IInv, LeasesOK
<1>6. slots' \in Nat /\ slots' + Cardinality(Holders') + Cardinality(orphans') = Gate
  BY <1>2, <1>3, <1>4, GateTypes DEF IInv
<1> QED
  BY <1>4, <1>5, <1>6 DEF IInv

\* A tick of the clock passes no timer over.
LEMMA LaterInv ==
  ASSUME LLMCallAssumption, NEW c \in Calls, NEW r, CallInv(c, r),
         r.pc # "top", r.pc \in Timed => r.timer # 0
  PROVE  CallInv(c, Later(r)) /\ Later(r).pc = r.pc /\ Later(r).phys = r.phys
<1> DEFINE q == Later(r)
<1>1. r \in CallRecords(c) /\ OpenRequests(r) /\ Timely(r)
  BY DEF CallInv
<1>2. CASE r.pc \notin Timed
  BY <1>2 DEF Later
<1>3. CASE r.pc \in Timed
  <2> DEFINE x == IF r.timer = Never THEN Never ELSE r.timer - 1
             y == IF r.left = Unbounded THEN Unbounded ELSE r.left - 1
             z == IF r.pc \in {"flight", "replay", "closing"} THEN r.room - 1 ELSE 0
             p == [r EXCEPT !.timer = x, !.left = y, !.room = z]
  <2>1. q = p
    BY <1>1, <1>3 DEF Later, CallRecords
  <2>2. r.timer \in Int /\ r.left \in Int /\ r.room \in Int /\ r.budget \in Int /\ r.pc \in PCs
    BY <1>1 DEF CallRecords, Ticks
  <2>3. x \in Ticks /\ y \in Ticks /\ z \in Ticks
    BY <2>2 DEF Ticks, Never, Unbounded
  <2> HIDE DEF x, y, z
  <2>4. p \in CallRecords(c)
    BY <1>1, <2>3 DEF CallRecords
  <2>5. /\ p.pc = r.pc /\ p.timer = x /\ p.left = y /\ p.room = z /\ p.budget = r.budget
        /\ SameBooks(p, r)
    BY <1>1 DEF CallRecords, SameBooks
  <2> HIDE DEF p
  <2>6. OpenRequests(p)
    BY <1>1, <2>5 DEF OpenRequests, SameBooks
  <2>7. Timely(p)
    <3> DEFINE v == Overrun(r.pc)
    <3>1. v \in Nat /\ Unbounded = 1000 /\ Never = -1
      BY <2>2, Overruns DEF Unbounded, Never
    <3>2. /\ r.timer >= 0 \/ (r.timer = Never /\ r.pc = "gate" /\ r.left = Unbounded)
          /\ r.left >= -v
          /\ r.left >= r.timer - v \/ r.left = Unbounded
          /\ r.pc = "gate" => r.left > r.timer \/ r.left = Unbounded
          /\ r.pc = "flight" => r.room >= r.timer
          /\ r.pc = "replay" => r.room >= r.timer - v
          /\ r.pc \in {"flight", "replay", "closing"} => r.budget > 0
      BY <1>1, <1>3 DEF Timely, Timed
    <3> HIDE DEF v
    <3>3. /\ x >= 0 \/ (x = Never /\ r.pc = "gate" /\ y = Unbounded)
          /\ y >= -v
          /\ y >= x - v \/ y = Unbounded
          /\ r.pc = "gate" => y > x \/ y = Unbounded
      <4>1. CASE r.left = Unbounded
        BY <1>3, <2>2, <3>1, <3>2, <4>1 DEF x, y
      <4>2. CASE r.left # Unbounded
        <5>1. r.timer >= 1 /\ x = r.timer - 1 /\ y = r.left - 1
          BY <1>3, <2>2, <3>1, <3>2, <4>2 DEF x, y
        <5> QED
          BY <2>2, <3>1, <3>2, <4>2, <5>1
      <4> QED
        BY <4>1, <4>2
    <3>4. /\ r.pc = "flight" => z >= x
          /\ r.pc = "replay" => z >= x - v
      <4>1. SUFFICES ASSUME r.pc \in {"flight", "replay"}
                     PROVE  r.timer >= 1 /\ x = r.timer - 1 /\ z = r.room - 1
        BY <2>2, <3>1, <3>2
      <4> QED
        BY <1>3, <2>2, <3>1, <3>2, <4>1 DEF x, z
    <3> QED
      BY <1>3, <2>5, <3>2, <3>3, <3>4 DEF Timely, v
  <2>8. r.pc # "ended"
    BY <1>3 DEF Timed
  <2>9. CallInv(c, p)
    BY <2>4, <2>5, <2>6, <2>7, <2>8, BooksKept
  <2>10. p.phys = r.phys
    BY <2>5 DEF SameBooks
  <2> QED
    BY <2>1, <2>5, <2>9, <2>10
<1> QED
  BY <1>2, <1>3

\* Time passes for every call at once.
LEMMA TickKeeps ==
  ASSUME LLMCallAssumption, IInv, Tick
  PROVE  IInv'
<1>1. UNCHANGED <<slots, orphans>> /\ call' = [c \in Calls |-> Later(call[c])]
  BY DEF Tick
<1>2. ASSUME NEW c \in Calls
      PROVE  CallInv(c, call'[c]) /\ call'[c].pc = call[c].pc /\ call'[c].phys = call[c].phys
  <2>1. CallInv(c, call[c])
    BY GateTypes
  <2>2. call[c].pc # "top" /\ (call[c].pc \in Timed => call[c].timer # 0)
    BY DEF Tick, Urgent
  <2>3. CallInv(c, Later(call[c])) /\ Later(call[c]).pc = call[c].pc
        /\ Later(call[c]).phys = call[c].phys
    BY <2>1, <2>2, LaterInv
  <2> QED
    BY <1>1, <2>3
<1>3. CallsInv'
  BY <1>1, <1>2 DEF CallsInv
<1>4. Holders' = Holders
  BY <1>2 DEF Holders, In
<1>5. LeasesOK'
  <2>1. \A lease \in orphans : lease[1] \in Calls
    BY DEF IInv, LeasesOK
  <2> QED
    BY <1>1, <1>2, <2>1 DEF IInv, LeasesOK
<1> QED
  BY <1>1, <1>3, <1>4, <1>5 DEF IInv

-----------------------------------------------------------------------------
(* The invariant and what it implies *)

\* A call that has not begun.
LEMMA InitOK ==
  ASSUME LLMCallAssumption, Init
  PROVE  IInv
<1>1. ASSUME NEW c \in Calls
      PROVE  CallInv(c, call[c]) /\ call[c].pc = "idle"
  <2> DEFINE f == [i \in 1..MaxRequests(c) |-> 0]
             r == Fresh(c)
  <2>1. call[c] = r
    BY DEF Init
  <2>2. f \in Events(c) /\ \A i \in 1..MaxRequests(c) : f[i] = 0
    BY DEF Events
  <2>3. DOMAIN f = 1..MaxRequests(c) /\ MaxRequests(c) \in Nat
    BY ArgsOK
  <2>4. "none" \in Results
    BY DEF Results
  <2> HIDE DEF f
  <2>5. r \in CallRecords(c)
    BY <2>2, <2>4, Constants DEF Fresh, CallRecords, f
  <2>6. /\ r.pc = "idle" /\ r.index = 0 /\ r.replay = 0 /\ r.phys = 0 /\ r.finished = f
        /\ r.delivered = 0 /\ r.source = 0 /\ r.result = "none" /\ r.futile = 0
        /\ r.attempt = 0 /\ r.empties = 0 /\ r.leg = 1
    BY DEF Fresh, f
  <2> HIDE DEF r
  <2>7. OpenRequests(r) /\ Timely(r)
    BY <2>6 DEF OpenRequests, Timely, Timed
  <2>8. Billed(r)
    BY <2>2, <2>3, <2>6 DEF Billed
  <2>9. Counted(c, r)
    <3>1. Args[c].empties \in Nat /\ Args[c].legs \in Nat \ {0} /\ Args[c].retries \in Nat \ {0}
      BY ArgsOK
    <3>2. Passes(c, r) = 0
      BY <2>6, <3>1 DEF Passes
    <3>3. 0 <= Args[c].retries - 1 /\ 0 <= Args[c].empties /\ 1 \in 1..Args[c].legs
      BY <3>1
    <3>4. 0 <= MaxRequests(c)
      BY <2>3
    <3> QED
      BY <2>6, <3>2, <3>3, <3>4 DEF Counted
  <2> QED
    BY <2>1, <2>5, <2>6, <2>7, <2>8, <2>9 DEF CallInv
<1>2. DOMAIN call = Calls /\ slots = Gate /\ orphans = {}
  BY DEF Init
<1>3. Holders = {}
  BY <1>1 DEF Holders, In, Holding
<1>4. LeasesOK
  BY <1>2, FS_EmptySet DEF LeasesOK
<1>5. Cardinality(Holders) = 0 /\ Cardinality(orphans) = 0 /\ Gate \in Nat
  BY <1>2, <1>3, FS_EmptySet DEF LLMCallAssumption
<1> QED
  BY <1>1, <1>2, <1>4, <1>5 DEF IInv, CallsInv

\* Every step keeps the invariant.
LEMMA StepKeeps ==
  ASSUME LLMCallAssumption, IInv, [Next]_vars
  PROVE  IInv'
<1>1. CASE Tick
  BY <1>1, TickKeeps
<1>2. ASSUME NEW c \in Calls,
             \/ Step(c) \/ Start(c) \/ FallThrough(c) \/ RequestEnds(c) \/ RequestFails(c)
             \/ InvalidStreamed(c) \/ WatchdogFires(c) \/ Cancel(c) \/ Settle(c)
      PROVE  IInv'
  <2>1. CASE Step(c)
    BY <2>1, TopKeeps, AdmitKeeps, GrantedKeeps, GateTimeoutKeeps, ReplayStartKeeps,
       TimesOutKeeps, CloseEndsKeeps, WakeKeeps DEF Step
  <2> QED
    BY <1>2, <2>1, StartKeeps, FallThroughKeeps, RequestEndsKeeps, RequestFailsKeeps,
       InvalidStreamedKeeps, WatchdogKeeps, CancelKeeps, SettleKeeps
<1>3. CASE UNCHANGED vars
  <2>1. slots' = slots /\ call' = call /\ orphans' = orphans
    BY <1>3 DEF vars
  <2> QED
    BY <2>1 DEF IInv, LeasesOK, CallsInv, Holders, In
<1> QED
  BY <1>1, <1>2, <1>3 DEF Next

\* The invariant holds in every run.
THEOREM Invariance == Spec => []IInv
<1>1. Init => IInv
  BY LLMCallAssumption, InitOK
<1>2. IInv /\ [Next]_vars => IInv'
  BY LLMCallAssumption, StepKeeps
<1> QED
  BY <1>1, <1>2, PTL DEF Spec

\* llm_gate.py: however requests are timed out, cancelled and abandoned, the
\* requests in the air never exceed the gate's permits, and none is lost.
THEOREM GateNeverExceeded == Spec => []GateBounded
<1>1. IInv => GateBounded
  <2> SUFFICES ASSUME IInv PROVE GateBounded
    OBVIOUS
  <2> DEFINE S == In({"flight", "closing"})
  <2>1. S \subseteq Holders /\ Holders = In({"flight", "replay", "closing"})
    BY DEF In, Holders, Holding
  <2>2. /\ IsFiniteSet(Holders) /\ Cardinality(Holders) \in Nat
        /\ Cardinality(orphans) \in Nat /\ Gate \in Nat /\ slots \in Nat
    BY LLMCallAssumption, GateTypes
  <2>3. Cardinality(S) <= Cardinality(Holders) /\ Cardinality(S) \in Nat
    BY <2>1, <2>2, FS_Subset, FS_CardinalityType
  <2>4. slots + Cardinality(Holders) + Cardinality(orphans) = Gate
    BY DEF IInv
  <2> HIDE DEF S
  <2>5. Cardinality(S) + Cardinality(orphans) <= Gate
    BY <2>2, <2>3, <2>4
  <2> QED
    BY <2>1, <2>4, <2>5 DEF GateBounded, S
<1> QED
  BY <1>1, Invariance, PTL

\* llm_call.py: a call bills every request it sends exactly once, returns the
\* response of the one it closed as delivered, sends no more than its attempts
\* and allowances account for, within its deadline, and none after a refusal
\* that no second request can change.
THEOREM SpendIsAccounted == Spec => []SpendAccounted
<1>1. IInv => SpendAccounted
  <2> SUFFICES ASSUME IInv, NEW c \in Calls
               PROVE  /\ \A i \in 1..call[c].phys : call[c].finished[i] <= 1
                      /\ call[c].pc = "ended" /\ call[c].result # "cancelled" =>
                           \A i \in 1..call[c].phys : call[c].finished[i] = 1
                      /\ call[c].delivered = call[c].source
                      /\ call[c].delivered # 0 <=> call[c].result = "response"
                      /\ Active(c) => call[c].left >= -Overrun(call[c].pc)
                      /\ call[c].pc \in {"flight", "replay"} => call[c].room >= -Overrun(call[c].pc)
                      /\ Active(c) => call[c].futile = 0
                      /\ call[c].phys \in 0..MaxRequests(c)
    BY DEF SpendAccounted, AttemptsBilled, WithinBudget, NoFutileRetry
  <2> DEFINE r == call[c]
  <2>1. /\ r \in CallRecords(c) /\ Billed(r) /\ Counted(c, r) /\ Timely(r) /\ r.phys \in Nat
        /\ r.pc # "ended" => r.futile = 0
    BY LLMCallAssumption, GateTypes DEF CallInv
  <2>2. /\ r.phys \in 0..MaxRequests(c) /\ MaxRequests(c) \in Nat
        /\ DOMAIN r.finished = 1..MaxRequests(c)
    BY <2>1, LLMCallAssumption, ArgsOK DEF Counted, CallRecords, Events
  <2>3. /\ \A i \in 1..r.phys : i \in DOMAIN r.finished /\ i <= r.phys
    BY <2>1, <2>2
  <2>4. /\ \A i \in 1..r.phys : r.finished[i] <= 1
        /\ r.pc = "ended" /\ r.result # "cancelled" => \A i \in 1..r.phys : r.finished[i] = 1
        /\ r.delivered = r.source
        /\ r.delivered # 0 <=> r.result = "response"
    BY <2>1, <2>3 DEF Billed
  <2>5. /\ Active(c) => r.left >= -Overrun(r.pc)
        /\ Active(c) => r.futile = 0
    BY <2>1 DEF Timely, Active
  <2>6. r.pc \in {"flight", "replay"} => r.room >= -Overrun(r.pc)
    <3>1. r.room \in Int /\ r.timer \in Int /\ r.pc \in PCs
      BY <2>1 DEF CallRecords, Ticks
    <3>2. Overrun(r.pc) \in Nat
      BY <3>1, LLMCallAssumption, Overruns
    <3>3. CASE r.pc = "flight"
      BY <2>1, <3>1, <3>2, <3>3 DEF Timely, Timed
    <3>4. CASE r.pc = "replay"
      BY <2>1, <3>1, <3>2, <3>4 DEF Timely, Timed
    <3> QED
      BY <3>3, <3>4
  <2> QED
    BY <2>2, <2>4, <2>5, <2>6
<1> QED
  BY <1>1, Invariance, PTL

=============================================================================
