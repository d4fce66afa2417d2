--------------------------- MODULE AgentBusProofs ---------------------------
(***************************************************************************)
(* Proofs about AgentBus: whatever suspends, fails, is cancelled or is     *)
(* torn down, a result is published once, a terminal status stays, and a   *)
(* reservation has somebody who will release it.                           *)
(***************************************************************************)
EXTENDS AgentBus, FiniteSetTheorems, TLAPS

Statuses == {"none", "queued"} \cup Busy \cup Terminal
Results == {"none", "ok", "failed", "aborted"}
Finishing == {"emit", "trim", "drain", "handoff"}
Points == {"none", "new", "gate", "loop", "done"} \cup Finishing
Owners == Jobs \cup {NoJob, Host, Waiter}

JobTypes ==
  /\ counter \in 0..MaxJobs
  /\ status \in [Jobs -> Statuses]
  /\ published \in [Jobs -> Results]
  /\ session \in [Jobs -> Sessions \cup {NoSession}]
  /\ pc \in [Jobs -> Points]
  /\ cancelling \in [Jobs -> BOOLEAN]
  /\ active \in [Jobs -> {"none", "reserved", "acquired"}]
  /\ dispatch \in [Jobs -> [by : Owners, at : {"none", "emitting", "reaping"}]]
  /\ aborting \subseteq Jobs

SessionTypes ==
  /\ current \in [Sessions -> Jobs \cup {NoJob}]
  /\ pending_tasks \in [Sessions -> Seq(Jobs)]
  /\ pending_results \in [Sessions -> Seq(Jobs)]
  /\ delivered \in [Jobs -> Nat]
  /\ rescued \subseteq Jobs

\* The frames of the calls; a frame that names its first item has one.
Frames ==
  /\ sweep \in [at : {"idle", "run", "await"}, todo : SUBSET Jobs, jobs : SUBSET Jobs]
  /\ sweep.at = "await" => sweep.todo # {}
  /\ clean \in [at : {"idle", "run", "await", "drop"}, todo : SUBSET Sessions, jobs : SUBSET Jobs]
  /\ clean.at \in {"await", "drop"} => clean.todo # {}
  /\ \A i, k \in clean.jobs : i = k
  /\ wait \in [at : {"idle", "wait", "drain1", "drain2", "handoff1", "handoff2"},
               todo : SUBSET Sessions, jobs : SUBSET Jobs]

\* How a job's entry, its task and its reservation go together: the entry is
\* terminal exactly when it has a result, the two agree, and a job with a result
\* holds its reservation only until its finally block.
LifeOK(st, pb, p, ac) ==
  /\ p = "none" => st \in {"none", "queued", "aborted"}
  /\ p \in {"new", "gate"} => st = "submitted"
  /\ p = "loop" => st = "running"
  /\ p \in Finishing => st \in Terminal
  /\ p = "done" => st \in Terminal \cup {"submitted"}
  /\ pb # "none" => st = StatusOf(pb)
  /\ st \in Terminal => pb # "none"
  /\ ac # "none" /\ pb # "none" => p = "emit"
  /\ st = "none" => ac = "none"

Lives ==
  /\ \A j \in Jobs : LifeOK(status[j], published[j], pc[j], active[j])
  /\ \A j \in Jobs : j > counter => status[j] = "none" /\ session[j] = NoSession
  /\ \A j \in Jobs : pc[j] \in Finishing => session[j] # NoSession

\* A queue holds jobs of its session that wait for their first dispatch, once.
Distinct(q) == \A i, k \in DOMAIN q : q[i] = q[k] => i = k
Parked(s, j) == session[j] = s /\ pc[j] = "none" /\ status[j] = "queued"
Queues ==
  \A s \in Sessions :
    /\ Distinct(pending_tasks[s])
    /\ \A i \in DOMAIN pending_tasks[s] : Parked(s, pending_tasks[s][i])

\* Whether a result is pending, and how often it was made available.
InQueue(q, j) == \E i \in DOMAIN q : q[i] = j
Pending(j) == session[j] # NoSession /\ InQueue(pending_results[session[j]], j)
Handed(j) ==
  delivered[j] + (IF j \in rescued THEN 1 ELSE 0) + (IF Pending(j) THEN 1 ELSE 0)

\* Nothing of a job before its loop has ended, one thing from then on; a
\* current job whose task is done ended without its finally block.
Publication ==
  /\ \A s \in Sessions :
       /\ Distinct(pending_results[s])
       /\ \A i \in DOMAIN pending_results[s] : session[pending_results[s][i]] = s
  /\ \A j \in Jobs :
       /\ Handed(j) <= 1
       /\ pc[j] \in {"none", "new", "gate", "loop"} \/ session[j] = NoSession => Handed(j) = 0
       /\ pc[j] \in Finishing => Handed(j) = 1

Currents ==
  \A s \in Sessions : current[s] # NoJob =>
    /\ session[current[s]] = s
    /\ pc[current[s]] \notin {"none", "trim", "drain", "handoff"}
    /\ pc[current[s]] = "done" => Handed(current[s]) = 0

\* A coroutine that dispatched another job is at the hand-over, or has ended.
Dispatches ==
  \A j \in Jobs : dispatch[j].at # "none" =>
    /\ pc[j] # "none"
    /\ dispatch[j].by \in Jobs => pc[dispatch[j].by] \in {"handoff", "done"}

\* Somebody waits for the end of the job's task and will settle it.
Awaited(j) ==
  \/ j \in aborting
  \/ dispatch[j].at = "reaping"
  \/ sweep.at = "await" /\ Min(sweep.todo) = j
  \/ clean.at = "await" /\ j \in clean.jobs

Reservations ==
  \A j \in Jobs :
    /\ cancelling[j] => pc[j] # "none"
    /\ cancelling[j] /\ pc[j] \in {"new", "gate"} => Awaited(j)
    /\ active[j] # "none" =>
         /\ pc[j] = "done" => Awaited(j)
         /\ pc[j] = "none" => \E s \in Sessions : InQueue(pending_tasks[s], j)

\* What a sweep has found is terminal or still to do; what is to do has a task.
Swept ==
  /\ \A j \in sweep.jobs : IsTerminal(j) \/ j \in sweep.todo
  /\ \A j \in sweep.todo : pc[j] # "none"

IInv ==
  /\ JobTypes /\ SessionTypes /\ Frames
  /\ Lives /\ Queues /\ Publication /\ Currents /\ Dispatches /\ Reservations /\ Swept

-----------------------------------------------------------------------------
(* The operators the bus is built from *)

\* A set of numbers that is not empty has a least element, which Min chooses.
LEMMA LeastIsMin ==
  ASSUME NEW S, S \subseteq Nat, S # {}
  PROVE  Min(S) \in S /\ \A x \in S : Min(S) <= x
<1>1. \E m \in S : \A x \in S : ~(<<x, m>> \in OpToRel(<, Nat))
  BY NatLessThanWellFounded, WFMin
<1>2. \A x, y \in Nat : <<y, x>> \in OpToRel(<, Nat) <=> y < x
  BY DEF OpToRel
<1>3. \E m \in S : \A x \in S : m <= x
  <2>1. PICK m \in S : \A x \in S : ~(<<x, m>> \in OpToRel(<, Nat))
    BY <1>1
  <2>2. \A x \in S : m \in Nat /\ x \in Nat /\ ~(x < m)
    BY <1>2, <2>1
  <2> QED
    BY <2>2
<1> QED
  BY <1>3 DEF Min

\* Nothing in a queue is aborted, so draining finds its first job.
LEMMA NothingToDrop ==
  ASSUME NEW q \in Seq(Jobs), \A i \in DOMAIN q : status[q[i]] = "queued"
  PROVE  DropAborted(q) = q
<1> DEFINE kept == {i \in DOMAIN q : status[q[i]] # "aborted"}
<1>1. kept = 1..Len(q) /\ Len(q) \in Nat
  OBVIOUS
<1>2. CASE Len(q) = 0
  BY <1>1, <1>2 DEF DropAborted
<1>3. CASE Len(q) > 0
  <2>1. Min(kept) = 1
    <3>1. kept \subseteq Nat /\ 1 \in kept
      BY <1>1, <1>3
    <3>2. Min(kept) \in kept /\ Min(kept) <= 1
      BY <3>1, LeastIsMin
    <3> QED
      BY <1>1, <3>2
  <2>2. SubSeq(q, 1, Len(q)) = q
    OBVIOUS
  <2>3. kept # {}
    BY <1>1, <1>3
  <2> HIDE DEF kept
  <2> QED
    BY <2>1, <2>2, <2>3 DEF DropAborted, kept
<1> QED
  BY <1>1, <1>2, <1>3

\* Purging keeps the other jobs and puts none in twice.
LEMMA PurgeKeeps ==
  ASSUME NEW q \in Seq(Jobs), Distinct(q), NEW S
  PROVE  /\ Purged(q, S) \in Seq(Jobs) /\ Distinct(Purged(q, S))
         /\ \A n \in DOMAIN Purged(q, S) :
              Purged(q, S)[n] \notin S /\ InQueue(q, Purged(q, S)[n])
         /\ \A j : InQueue(q, j) /\ j \notin S => InQueue(Purged(q, S), j)
<1> DEFINE kept == {i \in DOMAIN q : q[i] \notin S}
           upto(i) == {k \in kept : k <= i}
           rank(i) == Cardinality(upto(i))
           ranks == [i \in kept |-> rank(i)]
           size == Cardinality(kept)
           at(n) == CHOOSE i \in kept : rank(i) = n
<1>1. kept \subseteq 1..Len(q) /\ IsFiniteSet(kept)
  <2>1. IsFiniteSet(1..Len(q))
    BY FS_Interval
  <2> QED
    BY <2>1, FS_Subset
<1>2. size \in Nat
  BY <1>1, FS_CardinalityType
<1>3. \A i \in kept : rank(i) \in 1..size
  <2> SUFFICES ASSUME NEW i \in kept PROVE rank(i) \in 1..size
    OBVIOUS
  <2>1. upto(i) \subseteq kept /\ i \in upto(i)
    BY <1>1
  <2>2. IsFiniteSet(upto(i)) /\ rank(i) \in Nat /\ rank(i) <= size
    BY <1>1, <2>1, FS_Subset, FS_CardinalityType
  <2>3. rank(i) # 0
    BY <2>1, <2>2, FS_EmptySet
  <2> HIDE DEF rank, size
  <2> QED
    BY <1>2, <2>2, <2>3
<1>4. \A i, k \in kept : i < k => rank(i) < rank(k)
  <2> SUFFICES ASSUME NEW i \in kept, NEW k \in kept, i < k PROVE rank(i) < rank(k)
    OBVIOUS
  <2>1. upto(i) \subseteq upto(k) /\ k \in upto(k) /\ k \notin upto(i)
    BY <1>1
  <2>2. IsFiniteSet(upto(k))
    <3>1. upto(k) \subseteq kept
      OBVIOUS
    <3> QED
      BY <1>1, <3>1, FS_Subset
  <2>3. IsFiniteSet(upto(i)) /\ rank(i) \in Nat /\ rank(k) \in Nat /\ rank(i) <= rank(k)
    BY <2>1, <2>2, FS_Subset, FS_CardinalityType
  <2>4. rank(i) # rank(k)
    BY <2>1, <2>2, FS_Subset
  <2> HIDE DEF rank
  <2> QED
    BY <2>3, <2>4
<1>5. \A i, k \in kept : rank(i) = rank(k) => i = k
  <2> SUFFICES ASSUME NEW i \in kept, NEW k \in kept, rank(i) = rank(k), i # k PROVE FALSE
    OBVIOUS
  <2>1. i < k \/ k < i
    BY <1>1
  <2>2. rank(i) \in Nat /\ rank(k) \in Nat
    <3> HIDE DEF rank, kept, size
    <3> QED
      BY <1>2, <1>3
  <2> HIDE DEF rank, kept
  <2> QED
    BY <1>4, <2>1, <2>2
<1>6. \A n \in 1..size : \E i \in kept : rank(i) = n
  <2>1. ranks \in Injection(kept, 1..size)
    <3> HIDE DEF rank, kept, size
    <3> QED
      BY <1>3, <1>5 DEF Injection, IsInjective
  <2>2. Cardinality(1..size) = size /\ IsFiniteSet(1..size)
    <3> HIDE DEF size
    <3> QED
      BY <1>2, FS_Interval
  <2>3. ranks \in Surjection(kept, 1..size)
    <3> HIDE DEF ranks
    <3> QED
      BY <2>1, <2>2, FS_Injection
  <2> HIDE DEF rank, kept, size
  <2> QED
    BY <2>3 DEF Surjection
<1>7. \A n \in 1..size : at(n) \in kept /\ rank(at(n)) = n
  <2> HIDE DEF rank, kept, size
  <2> QED
    BY <1>6
<1>8. Purged(q, S) = [n \in 1..size |-> q[at(n)]]
  BY DEF Purged
<1>9. \A i \in kept : i \in DOMAIN q /\ q[i] \in Jobs /\ q[i] \notin S
  OBVIOUS
<1>10. Purged(q, S) \in Seq(Jobs) /\ DOMAIN Purged(q, S) = 1..size
  <2>1. \A n \in 1..size : q[at(n)] \in Jobs
    <3> HIDE DEF at, kept, size
    <3> QED
      BY <1>7, <1>9
  <2> HIDE DEF at, kept, size
  <2> QED
    BY <1>2, <1>8, <2>1
<1>11. \A n \in 1..size : Purged(q, S)[n] = q[at(n)]
  <2> HIDE DEF at, size
  <2> QED
    BY <1>8
<1>12. \A j : InQueue(q, j) /\ j \notin S => InQueue(Purged(q, S), j)
  <2> SUFFICES ASSUME NEW j, InQueue(q, j), j \notin S PROVE InQueue(Purged(q, S), j)
    OBVIOUS
  <2>1. PICK i \in DOMAIN q : q[i] = j
    BY DEF InQueue
  <2>2. i \in kept
    BY <2>1
  <2>3. rank(i) \in 1..size /\ at(rank(i)) = i
    <3> HIDE DEF rank, kept, size
    <3> QED
      BY <2>2, <1>3, <1>5
  <2> HIDE DEF at, kept, size, rank
  <2> QED
    BY <1>10, <1>11, <2>1, <2>3 DEF InQueue
<1>13. Distinct(Purged(q, S))
  <2> HIDE DEF at, kept, size, rank
  <2> QED
    BY <1>7, <1>9, <1>10, <1>11 DEF Distinct
<1> HIDE DEF at, kept, size, rank
<1> QED
  BY <1>7, <1>9, <1>10, <1>11, <1>12, <1>13 DEF InQueue

\* A job that joins a queue is in it, beside the others.
LEMMA AppendHas ==
  ASSUME NEW q \in Seq(Jobs), NEW j \in Jobs
  PROVE  \A i : InQueue(Append(q, j), i) <=> InQueue(q, i) \/ i = j
<1>1. /\ DOMAIN Append(q, j) = 1..(Len(q) + 1) /\ Append(q, j)[Len(q) + 1] = j
      /\ \A k \in 1..Len(q) : Append(q, j)[k] = q[k]
      /\ DOMAIN q = 1..Len(q) /\ Len(q) \in Nat
  OBVIOUS
<1>2. Len(q) + 1 \in DOMAIN Append(q, j) /\ \A k \in DOMAIN q : k \in DOMAIN Append(q, j)
  BY <1>1
<1>3. \A k \in DOMAIN Append(q, j) : k \in DOMAIN q \/ k = Len(q) + 1
  BY <1>1
<1> QED
  BY <1>1, <1>2, <1>3 DEF InQueue

\* A job that leaves a queue from its front leaves the others in it.
LEMMA TailTakes ==
  ASSUME NEW q \in Seq(Jobs), q # <<>>, Distinct(q)
  PROVE  /\ Head(q) \in Jobs /\ InQueue(q, Head(q)) /\ Tail(q) \in Seq(Jobs) /\ Distinct(Tail(q))
         /\ \A j : InQueue(Tail(q), j) <=> InQueue(q, j) /\ j # Head(q)
<1>1. /\ Len(q) > 0 /\ Len(q) \in Nat /\ DOMAIN q = 1..Len(q) /\ Head(q) = q[1] /\ Tail(q) \in Seq(Jobs)
      /\ DOMAIN Tail(q) = 1..(Len(q) - 1) /\ \A i \in DOMAIN Tail(q) : Tail(q)[i] = q[i + 1]
  OBVIOUS
<1>2. Distinct(Tail(q)) /\ InQueue(q, Head(q)) /\ Head(q) \in Jobs
  BY <1>1 DEF Distinct, InQueue
<1>3. \A j : InQueue(Tail(q), j) => InQueue(q, j)
  BY <1>1 DEF InQueue
<1>4. ~InQueue(Tail(q), Head(q))
  BY <1>1 DEF InQueue, Distinct
<1>5. \A j : InQueue(q, j) /\ j # Head(q) => InQueue(Tail(q), j)
  <2> SUFFICES ASSUME NEW j, InQueue(q, j), j # Head(q) PROVE InQueue(Tail(q), j)
    OBVIOUS
  <2>1. PICK i \in DOMAIN q : q[i] = j
    BY DEF InQueue
  <2>2. i - 1 \in DOMAIN Tail(q) /\ Tail(q)[i - 1] = j
    BY <1>1, <2>1
  <2> QED
    BY <2>2 DEF InQueue
<1> QED
  BY <1>1, <1>2, <1>3, <1>4, <1>5

\* release() takes the reservation away, whatever became of its slot.
LEMMA ReleaseTakes ==
  ASSUME JobTypes, NEW j, G!Release(j)
  PROVE  active' = [i \in Jobs |-> IF i = j THEN "none" ELSE active[i]]
BY DEF G!Release, JobTypes

\* So it is for jobs that hold no slot.
LEMMA UnstartedTakes ==
  ASSUME NEW S, ReleaseUnstarted(S)
  PROVE  active' = [i \in Jobs |-> IF i \in S THEN "none" ELSE active[i]]
BY DEF ReleaseUnstarted

-----------------------------------------------------------------------------
(* What a part of the invariant needs to be kept *)

Early == {"none", "new", "gate", "loop"}
Steady == \A j \in Jobs : IsTerminal(j) => status'[j] = status[j]
Keeps == IInv' /\ Steady

\* A queue whose jobs are left alone.
LEMMA QueuesStay ==
  ASSUME SessionTypes, Queues, pending_tasks' = pending_tasks,
         \A j \in Jobs : pc[j] = "none" /\ status[j] = "queued" =>
           pc'[j] = "none" /\ status'[j] = "queued" /\ session'[j] = session[j]
  PROVE  Queues'
BY DEF SessionTypes, Queues, Parked, Distinct

\* What is handed to the coordinator does not depend on the tasks.
LEMMA HandedStays ==
  ASSUME UNCHANGED <<pending_results, session, delivered, rescued>>, NEW j
  PROVE  Handed(j)' = Handed(j)
BY DEF Handed, Pending, InQueue

\* Results stay as they are while no job passes the end of its loop.
LEMMA PublicationStays ==
  ASSUME SessionTypes, Publication,
         UNCHANGED <<pending_results, session, delivered, rescued>>,
         \A j \in Jobs : /\ pc'[j] \in Early => pc[j] \in Early
                         /\ pc'[j] \in Finishing => pc[j] \in Finishing
  PROVE  Publication'
<1>1. \A j \in Jobs : Handed(j)' = Handed(j)
  BY HandedStays
<1>2. \A j \in Jobs : /\ Handed(j)' <= 1
                      /\ pc'[j] \in Early \/ session'[j] = NoSession => Handed(j)' = 0
                      /\ pc'[j] \in Finishing => Handed(j)' = 1
  BY <1>1 DEF Publication, Early
<1>3. \A s \in Sessions :
        /\ Distinct(pending_results[s])'
        /\ \A i \in DOMAIN pending_results'[s] : session'[pending_results'[s][i]] = s
  BY DEF Publication, Distinct
<1> QED
  BY <1>2, <1>3 DEF Publication, Early

\* A current job may end, before its loop or through its finally block.
LEMMA CurrentsStay ==
  ASSUME SessionTypes, JobTypes, Publication, Currents,
         UNCHANGED <<session, pending_results, delivered, rescued>>,
         \A s \in Sessions : current'[s] \in {current[s], NoJob},
         \A j \in Jobs :
           /\ pc'[j] = "none" => pc[j] = "none"
           /\ pc'[j] \in {"trim", "drain", "handoff"} =>
                pc[j] \in {"trim", "drain", "handoff"} \/ current'[session[j]] # j
           /\ pc'[j] = "done" => pc[j] # "emit"
  PROVE  Currents'
<1> SUFFICES ASSUME NEW s \in Sessions, current'[s] # NoJob
             PROVE  /\ session'[current'[s]] = s
                    /\ pc'[current'[s]] \notin {"none", "trim", "drain", "handoff"}
                    /\ pc'[current'[s]] = "done" => Handed(current[s])' = 0
  BY DEF Currents
<1>1. current'[s] = current[s] /\ current[s] \in Jobs
  BY DEF SessionTypes
<1>2. Handed(current[s])' = Handed(current[s])
  BY HandedStays
<1>3. /\ session[current[s]] = s
      /\ pc[current[s]] \notin {"none", "trim", "drain", "handoff"}
      /\ pc[current[s]] = "done" => Handed(current[s]) = 0
  BY <1>1 DEF Currents
<1>4. pc[current[s]] \in Early => Handed(current[s]) = 0
  BY <1>1 DEF Publication, Early
<1>5. pc[current[s]] \in Points
  BY <1>1 DEF JobTypes
<1> QED
  BY <1>1, <1>2, <1>3, <1>4, <1>5 DEF Points, Finishing, Early

\* Currents, session by session.
LEMMA CurrentsHold ==
  ASSUME SessionTypes',
         \A t \in Sessions, c \in Jobs : current'[t] = c =>
           /\ session'[c] = t
           /\ pc'[c] \notin {"none", "trim", "drain", "handoff"}
           /\ pc'[c] = "done" => Handed(c)' = 0
  PROVE  Currents'
<1> SUFFICES ASSUME NEW t \in Sessions, current'[t] # NoJob
             PROVE  /\ session'[current'[t]] = t
                    /\ pc'[current'[t]] \notin {"none", "trim", "drain", "handoff"}
                    /\ pc'[current'[t]] = "done" => Handed(current[t])' = 0
  BY DEF Currents
<1>1. PICK c \in Jobs : c = current'[t]
  BY DEF SessionTypes
<1>2. Handed(current[t])' = Handed(c)'
  BY <1>1 DEF Handed, Pending
<1> QED
  BY <1>1, <1>2

\* The same, of a session whose current job is known.
LEMMA OfCurrent ==
  ASSUME Currents, NEW t \in Sessions, NEW c \in Jobs, current[t] = c
  PROVE  /\ session[c] = t
         /\ pc[c] \notin {"none", "trim", "drain", "handoff"}
         /\ pc[c] = "done" => Handed(c) = 0
BY DEF Currents, NoJob, Jobs

\* A hand-over ends only when its coroutine does.
LEMMA DispatchesStay ==
  ASSUME JobTypes, Dispatches, dispatch' = dispatch,
         \A j \in Jobs : /\ pc'[j] = "none" => pc[j] = "none"
                         /\ pc[j] \in {"handoff", "done"} => pc'[j] \in {"handoff", "done"}
  PROVE  Dispatches'
BY DEF Dispatches, JobTypes

\* No cancellation and no reservation is added, and those who await go on.
LEMMA ReservationsStay ==
  ASSUME Reservations,
         \A j \in Jobs : Awaited(j) => Awaited(j)' \/ active'[j] = "none",
         \A j \in Jobs : cancelling'[j] /\ pc'[j] \in {"new", "gate"} =>
                           cancelling[j] /\ pc[j] \in {"new", "gate"} /\ (Awaited(j) => Awaited(j)'),
         \A j \in Jobs : cancelling'[j] /\ pc'[j] = "none" => cancelling[j] /\ pc[j] = "none",
         \A j \in Jobs : active'[j] # "none" =>
                           /\ active[j] # "none"
                           /\ pc'[j] = "done" => pc[j] = "done"
                           /\ pc'[j] = "none" => pc[j] = "none",
         \A j \in Jobs, s \in Sessions :
           InQueue(pending_tasks[s], j) /\ active'[j] # "none" => InQueue(pending_tasks'[s], j)
  PROVE  Reservations'
<1> SUFFICES ASSUME NEW j \in Jobs
             PROVE  /\ cancelling'[j] => pc'[j] # "none"
                    /\ cancelling'[j] /\ pc'[j] \in {"new", "gate"} => Awaited(j)'
                    /\ active'[j] # "none" =>
                         /\ pc'[j] = "done" => Awaited(j)'
                         /\ pc'[j] = "none" => \E s \in Sessions : InQueue(pending_tasks'[s], j)
  BY DEF Reservations, InQueue
<1>1. /\ cancelling[j] => pc[j] # "none"
      /\ cancelling[j] /\ pc[j] \in {"new", "gate"} => Awaited(j)
      /\ active[j] # "none" =>
           /\ pc[j] = "done" => Awaited(j)
           /\ pc[j] = "none" => \E s \in Sessions : InQueue(pending_tasks[s], j)
  BY DEF Reservations
<1> QED
  BY <1>1

\* Who awaits goes on awaiting.
LEMMA AwaitedStays ==
  ASSUME UNCHANGED <<aborting, dispatch, sweep, clean>>, NEW j
  PROVE  Awaited(j)' = Awaited(j)
BY DEF Awaited, Min

\* A sweep's jobs do not come back.
LEMMA SweptStays ==
  ASSUME Frames, Swept, sweep' = sweep, Steady, \A j \in Jobs : pc'[j] = "none" => pc[j] = "none"
  PROVE  Swept'
BY DEF Frames, Swept, Steady, IsTerminal

\* Marking jobs that have no running task settles them and rewrites no end.
LEMMA MarkedLives ==
  ASSUME JobTypes, Lives, NEW S, S \subseteq Jobs,
         \A j \in S : pc[j] \in {"none", "done"} /\ status[j] # "none",
         status' = MarkedStatus(S), published' = MarkedResult(S),
         active' = [i \in Jobs |-> IF i \in S THEN "none" ELSE active[i]]
  PROVE  /\ \A j \in Jobs : LifeOK(status'[j], published'[j], pc[j], active'[j])
         /\ \A j \in Jobs : status[j] = "none" => status'[j] = "none"
         /\ status' \in [Jobs -> Statuses] /\ published' \in [Jobs -> Results]
         /\ active' \in [Jobs -> {"none", "reserved", "acquired"}] /\ Steady
<1>1. \A j \in Jobs :
        /\ status'[j] = (IF j \in S /\ ~IsTerminal(j) THEN "aborted" ELSE status[j])
        /\ published'[j] = (IF j \in S /\ ~IsTerminal(j) /\ published[j] = "none"
                            THEN "aborted" ELSE published[j])
        /\ active'[j] = (IF j \in S THEN "none" ELSE active[j])
  BY DEF MarkedStatus, MarkedResult
<1>2. /\ status' \in [Jobs -> Statuses] /\ published' \in [Jobs -> Results]
      /\ active' \in [Jobs -> {"none", "reserved", "acquired"}]
  BY DEF MarkedStatus, MarkedResult, JobTypes, Statuses, Results, Terminal
<1>3. Steady
  BY <1>1 DEF Steady
<1>4. \A j \in Jobs : LifeOK(status'[j], published'[j], pc[j], active'[j])
  <2> SUFFICES ASSUME NEW j \in Jobs PROVE LifeOK(status'[j], published'[j], pc[j], active'[j])
    OBVIOUS
  <2>1. LifeOK(status[j], published[j], pc[j], active[j])
    BY DEF Lives
  <2>2. published[j] \in Results
    BY DEF JobTypes
  <2>3. CASE j \notin S
    BY <1>1, <2>1, <2>3
  <2>4. CASE j \in S /\ IsTerminal(j)
    BY <1>1, <2>1, <2>4 DEF LifeOK
  <2>5. CASE j \in S /\ ~IsTerminal(j)
    <3>1. published[j] = "none"
      BY <2>1, <2>2, <2>5 DEF LifeOK, IsTerminal, StatusOf, Terminal, Results
    <3>2. status'[j] = "aborted" /\ published'[j] = "aborted" /\ active'[j] = "none"
      BY <1>1, <2>5, <3>1
    <3> QED
      BY <2>1, <2>5, <3>2 DEF LifeOK, StatusOf, Terminal, Finishing
  <2> QED
    BY <2>3, <2>4, <2>5
<1>5. \A j \in Jobs : status[j] = "none" => status'[j] = "none"
  BY <1>1
<1> QED
  BY <1>2, <1>3, <1>4, <1>5

\* The same, where nothing else happens to the tasks.
LEMMA MarkedOK ==
  ASSUME JobTypes, Lives, NEW S, S \subseteq Jobs,
         \A j \in S : pc[j] \in {"none", "done"} /\ status[j] # "none",
         status' = MarkedStatus(S), published' = MarkedResult(S),
         active' = [i \in Jobs |-> IF i \in S THEN "none" ELSE active[i]],
         UNCHANGED <<counter, session, pc>>
  PROVE  /\ Lives' /\ Steady
         /\ status' \in [Jobs -> Statuses] /\ published' \in [Jobs -> Results]
         /\ active' \in [Jobs -> {"none", "reserved", "acquired"}]
<1>1. /\ \A j \in Jobs : LifeOK(status'[j], published'[j], pc[j], active'[j])
      /\ \A j \in Jobs : status[j] = "none" => status'[j] = "none"
      /\ status' \in [Jobs -> Statuses] /\ published' \in [Jobs -> Results]
      /\ active' \in [Jobs -> {"none", "reserved", "acquired"}] /\ Steady
  BY MarkedLives
<1>2. \A j \in Jobs : j > counter' => status'[j] = "none" /\ session'[j] = NoSession
  BY <1>1 DEF Lives
<1>3. \A j \in Jobs : pc'[j] \in Finishing => session'[j] # NoSession
  BY DEF Lives
<1> QED
  BY <1>1, <1>2, <1>3 DEF Lives

\* A queue may lose jobs; those it keeps are left alone.
LEMMA QueuesShrink ==
  ASSUME SessionTypes, Queues,
         \A s \in Sessions : /\ Distinct(pending_tasks'[s])
                             /\ \A i \in DOMAIN pending_tasks'[s] :
                                  InQueue(pending_tasks[s], pending_tasks'[s][i]),
         \A s \in Sessions : \A i \in DOMAIN pending_tasks'[s] :
           \E j \in Jobs : /\ j = pending_tasks'[s][i]
                           /\ pc'[j] = pc[j] /\ status'[j] = status[j] /\ session'[j] = session[j]
  PROVE  Queues'
<1>1. \A s \in Sessions : \A i \in DOMAIN pending_tasks'[s] :
        /\ session'[pending_tasks'[s][i]] = s
        /\ pc'[pending_tasks'[s][i]] = "none"
        /\ status'[pending_tasks'[s][i]] = "queued"
  <2> SUFFICES ASSUME NEW s \in Sessions, NEW i \in DOMAIN pending_tasks'[s]
               PROVE  /\ session'[pending_tasks'[s][i]] = s
                      /\ pc'[pending_tasks'[s][i]] = "none"
                      /\ status'[pending_tasks'[s][i]] = "queued"
    OBVIOUS
  <2>1. PICK k \in DOMAIN pending_tasks[s] : pending_tasks[s][k] = pending_tasks'[s][i]
    BY DEF InQueue
  <2>2. Parked(s, pending_tasks[s][k])
    BY DEF Queues
  <2> QED
    BY <2>1, <2>2 DEF Parked
<1>2. \A s \in Sessions : Distinct(pending_tasks[s])'
  BY DEF Distinct
<1> QED
  BY <1>1, <1>2 DEF Queues, Parked

\* Results change hands, and nothing else happens.
LEMMA HandedMoves ==
  ASSUME SessionTypes, Publication, Currents, UNCHANGED <<pc, session, current>>,
         \A j \in Jobs : Handed(j)' = Handed(j),
         \A s \in Sessions :
           /\ Distinct(pending_results'[s])
           /\ \A i \in DOMAIN pending_results'[s] : session[pending_results'[s][i]] = s
  PROVE  Publication' /\ Currents'
<1>1. Publication'
  <2>1. \A j \in Jobs :
          /\ Handed(j)' <= 1
          /\ pc'[j] \in Early \/ session'[j] = NoSession => Handed(j)' = 0
          /\ pc'[j] \in Finishing => Handed(j)' = 1
    BY DEF Publication, Early
  <2>2. \A s \in Sessions :
           /\ Distinct(pending_results[s])'
           /\ \A i \in DOMAIN pending_results'[s] : session'[pending_results'[s][i]] = s
    BY DEF Distinct
  <2> QED
    BY <2>1, <2>2 DEF Publication, Early
<1>2. Currents'
  <2>1. \A s \in Sessions : current[s] # NoJob => current[s] \in Jobs
    BY DEF SessionTypes
  <2> QED
    BY <2>1 DEF Currents
<1> QED
  BY <1>1, <1>2

\* Steps of the callers' own frames.
LEMMA Unmoved ==
  ASSUME IInv, Frames', sweep' = sweep,
         UNCHANGED <<counter, status, published, session, pc, cancelling, active, dispatch, aborting>>,
         UNCHANGED <<current, pending_tasks, pending_results, delivered, rescued>>,
         \A j \in Jobs : Awaited(j) => Awaited(j)'
  PROVE  Keeps
<1>1. JobTypes' /\ SessionTypes' /\ Lives' /\ Steady
  BY DEF IInv, JobTypes, SessionTypes, Lives, Steady, LifeOK
<1>2. Queues'
  BY QueuesStay DEF IInv
<1>3. Publication'
  BY PublicationStays DEF IInv
<1>4. Currents'
  BY CurrentsStay DEF IInv
<1>5. Dispatches'
  BY DispatchesStay DEF IInv
<1>6. Reservations'
  BY ReservationsStay DEF IInv
<1>7. Swept'
  BY <1>1, SweptStays DEF IInv
<1> QED
  BY <1>1, <1>2, <1>3, <1>4, <1>5, <1>6, <1>7 DEF IInv, Keeps

-----------------------------------------------------------------------------
(* The coordinator and the host *)

\* What a result's owner holds once the head of its queue is popped.
LEMMA PopMoves ==
  ASSUME BusAssumption, SessionTypes, JobTypes, Publication, Ready # {}, PopReadyResult,
         UNCHANGED <<session, rescued>>
  PROVE  /\ pending_results' \in [Sessions -> Seq(Jobs)] /\ delivered' \in [Jobs -> Nat]
         /\ \A j \in Jobs : Handed(j)' = Handed(j)
         /\ \A s \in Sessions :
              /\ Distinct(pending_results'[s])
              /\ \A i \in DOMAIN pending_results'[s] : session[pending_results'[s][i]] = s
<1> DEFINE r == Min(Ready)
           q == pending_results[r]
<1>1. r \in Sessions /\ q # <<>>
  <2>1. Ready \subseteq Nat
    BY DEF BusAssumption, Ready
  <2> QED
    BY <2>1, LeastIsMin DEF Ready
<1>2. q \in Seq(Jobs) /\ Distinct(q) /\ \A i \in DOMAIN q : session[q[i]] = r
  BY <1>1 DEF SessionTypes, Publication
<1>3. /\ Head(q) \in Jobs /\ InQueue(q, Head(q)) /\ Tail(q) \in Seq(Jobs) /\ Distinct(Tail(q))
      /\ \A j : InQueue(Tail(q), j) <=> InQueue(q, j) /\ j # Head(q)
  <2> HIDE DEF q
  <2> QED
    BY <1>1, <1>2, TailTakes
<1>4. /\ delivered' = [delivered EXCEPT ![Head(q)] = @ + 1]
      /\ pending_results' = [pending_results EXCEPT ![r] = Tail(q)]
  BY DEF PopReadyResult
<1> HIDE DEF r, q
<1>5. session[Head(q)] = r /\ \A i \in DOMAIN Tail(q) : session[Tail(q)[i]] = r
  <2>1. \A j : InQueue(q, j) => session[j] = r
    BY <1>2 DEF InQueue
  <2>2. \A i \in DOMAIN Tail(q) : InQueue(Tail(q), Tail(q)[i])
    BY DEF InQueue
  <2> QED
    BY <1>3, <2>1, <2>2
<1>7. /\ pending_results' \in [Sessions -> Seq(Jobs)] /\ delivered' \in [Jobs -> Nat]
      /\ \A s \in Sessions : pending_results'[s] = IF s = r THEN Tail(q) ELSE pending_results[s]
      /\ \A j \in Jobs : delivered'[j] = IF j = Head(q) THEN delivered[j] + 1 ELSE delivered[j]
  BY <1>1, <1>3, <1>4, <1>5 DEF SessionTypes
<1>8. \A j \in Jobs : Handed(j)' = Handed(j)
  <2> SUFFICES ASSUME NEW j \in Jobs PROVE Handed(j)' = Handed(j)
    OBVIOUS
  <2>1. session[j] \in Sessions \cup {NoSession} /\ delivered[j] \in Nat
    BY DEF JobTypes, SessionTypes
  <2>2. CASE j = Head(q)
    <3>1. InQueue(q, j)
      BY <1>3, <2>2
    <3>2. Pending(j) /\ ~Pending(j)'
      BY <1>1, <1>3, <1>5, <1>7, <2>2, <3>1 DEF Pending, q, BusAssumption, NoSession
    <3> QED
      BY <1>7, <2>1, <2>2, <3>2 DEF Handed
  <2>3. CASE j # Head(q)
    <3>1. Pending(j)' <=> Pending(j)
      BY <1>3, <1>7, <2>1, <2>3 DEF Pending, q, BusAssumption, NoSession
    <3> QED
      BY <1>7, <2>1, <2>3, <3>1 DEF Handed
  <2> QED
    BY <2>2, <2>3
<1>9. \A s \in Sessions :
        /\ Distinct(pending_results'[s])
        /\ \A i \in DOMAIN pending_results'[s] : session[pending_results'[s][i]] = s
  BY <1>3, <1>5, <1>7 DEF Publication
<1> QED
  BY <1>7, <1>8, <1>9

\* cleanup_task takes all results of a session at once.
LEMMA RescueMoves ==
  ASSUME BusAssumption, SessionTypes, JobTypes, Publication, NEW s \in Sessions, Rescue(s),
         UNCHANGED <<session, delivered>>
  PROVE  /\ pending_results' \in [Sessions -> Seq(Jobs)] /\ rescued' \subseteq Jobs
         /\ \A j \in Jobs : Handed(j)' = Handed(j)
         /\ \A t \in Sessions :
              /\ Distinct(pending_results'[t])
              /\ \A i \in DOMAIN pending_results'[t] : session[pending_results'[t][i]] = t
<1> DEFINE q == pending_results[s]
<1>1. q \in Seq(Jobs) /\ \A i \in DOMAIN q : session[q[i]] = s
  BY DEF SessionTypes, Publication
<1>2. \A j : j \in ToSet(q) <=> InQueue(q, j)
  BY DEF ToSet, InQueue
<1> HIDE DEF q
<1>3. /\ rescued' = rescued \cup ToSet(q)
      /\ pending_results' = [pending_results EXCEPT ![s] = <<>>]
  BY DEF Rescue, q
<1>4. /\ pending_results' \in [Sessions -> Seq(Jobs)]
      /\ \A t \in Sessions : pending_results'[t] = IF t = s THEN <<>> ELSE pending_results[t]
  BY <1>3 DEF SessionTypes
<1>5. rescued' \subseteq Jobs
  BY <1>1, <1>2, <1>3 DEF SessionTypes, InQueue
<1>6. \A j \in Jobs : Handed(j)' = Handed(j)
  <2> SUFFICES ASSUME NEW j \in Jobs PROVE Handed(j)' = Handed(j)
    OBVIOUS
  <2>1. session[j] \in Sessions \cup {NoSession} /\ delivered[j] \in Nat /\ Handed(j) <= 1
    BY DEF JobTypes, SessionTypes, Publication
  <2>2. CASE InQueue(q, j)
    <3>1. session[j] = s
      BY <1>1, <2>2 DEF InQueue
    <3>2. Pending(j) /\ ~Pending(j)'
      BY <1>4, <2>2, <3>1 DEF Pending, InQueue, q, BusAssumption, NoSession
    <3>3. j \notin rescued
      BY <2>1, <3>2 DEF Handed
    <3>4. j \in rescued'
      BY <1>2, <1>3, <2>2
    <3> QED
      BY <2>1, <3>2, <3>3, <3>4 DEF Handed
  <2>3. CASE ~InQueue(q, j)
    <3>1. j \in rescued' <=> j \in rescued
      BY <1>2, <1>3, <2>3
    <3>2. Pending(j)' <=> Pending(j)
      BY <1>4, <2>1, <2>3 DEF Pending, InQueue, q, BusAssumption, NoSession
    <3> QED
      BY <3>1, <3>2 DEF Handed
  <2> QED
    BY <2>2, <2>3
<1>7. \A t \in Sessions :
        /\ Distinct(pending_results'[t])
        /\ \A i \in DOMAIN pending_results'[t] : session[pending_results'[t][i]] = t
  BY <1>4 DEF Publication, Distinct
<1> QED
  BY <1>4, <1>5, <1>6, <1>7

\* A step that only moves results.
LEMMA MovesKeep ==
  ASSUME IInv, Frames', SessionTypes', sweep' = sweep,
         UNCHANGED <<counter, status, published, session, pc, cancelling, active, dispatch, aborting>>,
         UNCHANGED <<current, pending_tasks>>,
         \A j \in Jobs : Awaited(j) => Awaited(j)',
         \A j \in Jobs : Handed(j)' = Handed(j),
         \A s \in Sessions :
           /\ Distinct(pending_results'[s])
           /\ \A i \in DOMAIN pending_results'[s] : session[pending_results'[s][i]] = s
  PROVE  Keeps
<1>1. JobTypes' /\ Lives' /\ Steady
  BY DEF IInv, JobTypes, Lives, Steady, LifeOK
<1>2. Queues'
  BY QueuesStay DEF IInv
<1>3. Publication' /\ Currents'
  BY HandedMoves DEF IInv
<1>5. Dispatches'
  BY DispatchesStay DEF IInv
<1>6. Reservations'
  BY ReservationsStay DEF IInv
<1>7. Swept'
  BY <1>1, SweptStays DEF IInv
<1> QED
  BY <1>1, <1>2, <1>3, <1>5, <1>6, <1>7 DEF IInv, Keeps

\* create_session, the beginning of cleanup_task and the end of a wait.
LEMMA QuietKeeps ==
  ASSUME BusAssumption, IInv,
         CleanStart \/ WaitTimeout \/ \E s \in Sessions : CreateSession(s)
  PROVE  Keeps
<1>1. UNCHANGED <<counter, status, published, session, pc, cancelling, active, dispatch, aborting>>
  BY DEF CleanStart, WaitTimeout, CreateSession, jobVars, guardVars, callVars
<1>2. UNCHANGED <<current, pending_tasks, pending_results, delivered, rescued>> /\ sweep' = sweep
  BY DEF CleanStart, WaitTimeout, CreateSession, callVars
<1>3. Frames' /\ \A j \in Jobs : Awaited(j) => Awaited(j)'
  <2>1. CASE CleanStart
    <3>1. clean.at = "idle" /\ wait' = wait
      BY <2>1 DEF CleanStart
    <3>2. clean' = [at |-> "run", jobs |-> {}, todo |-> {s \in Sessions : live[s] = "live"}]
      BY <2>1 DEF CleanStart
    <3>3. Frames'
      BY <1>2, <3>1, <3>2 DEF Frames, IInv
    <3> QED
      BY <1>1, <1>2, <3>1, <3>3 DEF Awaited, Min
  <2>2. CASE WaitTimeout
    <3>1. clean' = clean /\ wait' = [at |-> "idle", todo |-> {}, jobs |-> {}]
      BY <2>2 DEF WaitTimeout, WaitReturns, Idle, callVars
    <3> QED
      BY <1>1, <1>2, <3>1, AwaitedStays DEF Frames, IInv
  <2>3. CASE \E s \in Sessions : CreateSession(s)
    <3>1. clean' = clean /\ wait' = wait
      BY <2>3 DEF CreateSession, callVars
    <3> QED
      BY <1>1, <1>2, <3>1, AwaitedStays DEF Frames, IInv
  <2> QED
    BY <2>1, <2>2, <2>3
<1> QED
  BY <1>1, <1>2, <1>3, Unmoved

\* A result popped, with or without the end of the call.
LEMMA PopKeeps ==
  ASSUME BusAssumption, IInv, Ready # {}, PopReadyResult, wait' \in {wait, Idle},
         UNCHANGED <<guardVars, counter, jobVars, session, current, pending_tasks,
                     dispatch, callVars, rescued>>
  PROVE  Keeps
<1>1. UNCHANGED <<counter, status, published, session, pc, cancelling, active, dispatch, aborting>>
  BY DEF jobVars, guardVars, callVars
<1>2. UNCHANGED <<current, pending_tasks, rescued, sweep, clean>>
  BY DEF callVars
<1>3. /\ pending_results' \in [Sessions -> Seq(Jobs)] /\ delivered' \in [Jobs -> Nat]
      /\ \A j \in Jobs : Handed(j)' = Handed(j)
      /\ \A s \in Sessions :
           /\ Distinct(pending_results'[s])
           /\ \A i \in DOMAIN pending_results'[s] : session[pending_results'[s][i]] = s
  BY <1>1, <1>2, PopMoves DEF IInv
<1>4. SessionTypes'
  BY <1>2, <1>3 DEF SessionTypes, IInv
<1>5. Frames'
  BY <1>2 DEF Frames, IInv, Idle
<1>6. \A j \in Jobs : Awaited(j) => Awaited(j)'
  BY <1>1, <1>2, AwaitedStays
<1> QED
  BY <1>1, <1>2, <1>3, <1>4, <1>5, <1>6, MovesKeep

\* The wait after nothing was found.
LEMMA WaitKeeps ==
  ASSUME BusAssumption, IInv, WaitBegins \/ WaitReturns,
         UNCHANGED <<guardVars, counter, jobVars, session, current, pending_tasks,
                     pending_results, dispatch, callVars, delivered, rescued>>
  PROVE  Keeps
<1>1. UNCHANGED <<counter, status, published, session, pc, cancelling, active, dispatch, aborting>>
  BY DEF jobVars, guardVars, callVars
<1>2. UNCHANGED <<current, pending_tasks, pending_results, delivered, rescued, sweep, clean>>
  BY DEF callVars
<1>3. wait' \in [at : {"idle", "wait"}, todo : {{}}, jobs : SUBSET Jobs]
  <2>1. CASE WaitBegins
    <3>1. Awaitable \subseteq Jobs
      BY DEF Awaitable, IInv, SessionTypes
    <3>2. wait' = [at |-> "wait", todo |-> {}, jobs |-> Awaitable]
      BY <2>1 DEF WaitBegins, Idle
    <3> QED
      BY <3>1, <3>2
  <2>2. CASE WaitReturns
    BY <2>2 DEF WaitReturns, Idle
  <2> QED
    BY <2>1, <2>2
<1>4. Frames'
  BY <1>2, <1>3 DEF Frames, IInv
<1>5. \A j \in Jobs : Awaited(j) => Awaited(j)'
  BY <1>1, <1>2, AwaitedStays
<1> QED
  BY <1>1, <1>2, <1>4, <1>5, Unmoved

\* The end of cleanup_task's work on a session.
LEMMA CleanDropKeeps ==
  ASSUME BusAssumption, IInv, CleanDrop
  PROVE  Keeps
<1> DEFINE s == Min(clean.todo)
<1>1. UNCHANGED <<counter, status, published, session, pc, cancelling, active, dispatch, aborting>>
  BY DEF CleanDrop, jobVars, guardVars
<1>2. UNCHANGED <<current, pending_tasks, delivered, sweep, wait>> /\ clean.at = "drop"
  BY DEF CleanDrop
<1>3. s \in Sessions
  <2>1. clean.todo \subseteq Nat /\ clean.todo # {} /\ clean.todo \subseteq Sessions
    BY <1>2 DEF BusAssumption, IInv, Frames
  <2> QED
    BY <2>1, LeastIsMin
<1>4. /\ pending_results' \in [Sessions -> Seq(Jobs)] /\ rescued' \subseteq Jobs
      /\ \A j \in Jobs : Handed(j)' = Handed(j)
      /\ \A t \in Sessions :
           /\ Distinct(pending_results'[t])
           /\ \A i \in DOMAIN pending_results'[t] : session[pending_results'[t][i]] = t
  <2>1. Rescue(s)
    BY DEF CleanDrop
  <2> HIDE DEF s
  <2> QED
    BY <1>1, <1>2, <1>3, <2>1, RescueMoves DEF IInv
<1>5. SessionTypes'
  BY <1>2, <1>4 DEF SessionTypes, IInv
<1>6. clean' \in {Idle, [clean EXCEPT !.at = "run", !.todo = @ \ {s}]}
  BY DEF CleanDrop
<1> HIDE DEF s
<1>7. Frames'
  <2>1. /\ clean' \in [at : {"idle", "run"}, todo : SUBSET Sessions, jobs : SUBSET Jobs]
        /\ clean'.jobs \in {clean.jobs, {}}
    <3>1. CASE clean' = Idle
      BY <3>1 DEF Idle
    <3>2. CASE clean' = [clean EXCEPT !.at = "run", !.todo = @ \ {s}]
      <4>1. clean \in [at : {"idle", "run", "await", "drop"}, todo : SUBSET Sessions,
                       jobs : SUBSET Jobs]
        BY DEF Frames, IInv
      <4> QED
        BY <3>2, <4>1
    <3> QED
      BY <1>6, <3>1, <3>2
  <2> QED
    BY <1>2, <2>1 DEF Frames, IInv
<1>8. \A j \in Jobs : Awaited(j) => Awaited(j)'
  BY <1>1, <1>2 DEF Awaited, Min
<1> QED
  BY <1>1, <1>2, <1>4, <1>5, <1>7, <1>8, MovesKeep

-----------------------------------------------------------------------------
(* Submitting *)

\* A new id has never been seen.
LEMMA NewJob ==
  ASSUME BusAssumption, IInv, counter < MaxJobs, NEW j, j = counter + 1
  PROVE  /\ j \in Jobs /\ status[j] = "none" /\ session[j] = NoSession /\ active[j] = "none"
         /\ pc[j] = "none" /\ published[j] = "none" /\ Handed(j) = 0
         /\ counter + 1 \in 0..MaxJobs
<1>1. j \in Jobs /\ counter \in Nat /\ j > counter /\ counter + 1 \in 0..MaxJobs
  BY DEF BusAssumption, IInv, JobTypes, Jobs
<1>2. status[j] = "none" /\ session[j] = NoSession
  BY <1>1 DEF IInv, Lives
<1>3. LifeOK(status[j], published[j], pc[j], active[j]) /\ pc[j] \in Points /\ published[j] \in Results
  BY <1>1 DEF IInv, Lives, JobTypes
<1>4. active[j] = "none" /\ pc[j] = "none" /\ published[j] = "none"
  BY <1>2, <1>3 DEF LifeOK, Points, Results, Finishing, Terminal, StatusOf
<1>5. Handed(j) = 0
  BY <1>1, <1>2 DEF IInv, Publication
<1> QED
  BY <1>1, <1>2, <1>4, <1>5

\* submit().
LEMMA SubmitKeeps ==
  ASSUME BusAssumption, IInv, Submit
  PROVE  Keeps
<1> DEFINE j == counter + 1
<1>1. /\ j \in Jobs /\ status[j] = "none" /\ session[j] = NoSession /\ active[j] = "none"
      /\ pc[j] = "none" /\ published[j] = "none" /\ Handed(j) = 0 /\ j \in 0..MaxJobs
  BY NewJob DEF Submit
<1>2. /\ counter' = j
      /\ status' = [status EXCEPT ![j] = "submitted"] /\ pc' = [pc EXCEPT ![j] = "new"]
      /\ active' = [active EXCEPT ![j] = "reserved"]
  BY DEF Submit, G!PreCheck
<1>3. UNCHANGED <<published, cancelling, session, dispatch, aborting, sweep, clean, wait>>
  BY DEF Submit, callVars
<1>4. UNCHANGED <<current, pending_tasks, pending_results, delivered, rescued>>
  BY DEF Submit
<1>5. \A i \in Jobs : i # j => status'[i] = status[i] /\ pc'[i] = pc[i] /\ active'[i] = active[i]
  BY <1>2 DEF IInv, JobTypes
<1>6. status'[j] = "submitted" /\ pc'[j] = "new" /\ active'[j] = "reserved"
  BY <1>1, <1>2 DEF IInv, JobTypes
<1>7. counter' = counter + 1 /\ counter \in Nat
  BY <1>2 DEF IInv, JobTypes
<1>8. JobTypes'
  BY <1>1, <1>2, <1>3 DEF IInv, JobTypes, Statuses, Points, Busy
<1> HIDE DEF j
<1>9. SessionTypes' /\ Frames'
  BY <1>3, <1>4 DEF IInv, SessionTypes, Frames
<1>10. Steady
  BY <1>1, <1>5 DEF Steady, IsTerminal, Terminal
<1>11. Lives'
  <2>1. \A i \in Jobs : LifeOK(status'[i], published'[i], pc'[i], active'[i])
    <3>1. LifeOK("submitted", "none", "new", "reserved")
      BY DEF LifeOK, Finishing, Terminal
    <3> QED
      BY <1>1, <1>3, <1>5, <1>6, <3>1 DEF IInv, Lives
  <2>2. \A i \in Jobs : i > counter' => i > counter /\ i # j
    BY <1>2, <1>7 DEF Jobs, j
  <2>3. \A i \in Jobs : i > counter' => status'[i] = "none" /\ session'[i] = NoSession
    BY <1>3, <1>5, <2>2 DEF IInv, Lives
  <2>4. \A i \in Jobs : pc'[i] \in Finishing => session'[i] # NoSession
    BY <1>3, <1>5, <1>6 DEF IInv, Lives, Finishing
  <2> QED
    BY <2>1, <2>3, <2>4 DEF Lives
<1>12. Queues'
  BY <1>1, <1>3, <1>4, <1>5, QueuesStay DEF IInv
<1>13. Publication'
  BY <1>1, <1>3, <1>4, <1>5, <1>6, PublicationStays DEF IInv, Early, Finishing
<1>14. Currents'
  BY <1>3, <1>4, <1>5, <1>6, CurrentsStay DEF IInv
<1>15. Dispatches'
  BY <1>1, <1>3, <1>5, <1>6, DispatchesStay DEF IInv
<1>16. Reservations'
  <2>1. cancelling[j] = FALSE
    BY <1>1 DEF IInv, Reservations, JobTypes
  <2>2. \A i \in Jobs : Awaited(i)' = Awaited(i)
    BY <1>3, AwaitedStays
  <2> QED
    BY <1>3, <1>4, <1>5, <1>6, <2>1, <2>2 DEF IInv, Reservations
<1>17. Swept'
  BY <1>3, <1>5, <1>6, <1>10, SweptStays DEF IInv
<1> QED
  BY <1>8, <1>9, <1>10, <1>11, <1>12, <1>13, <1>14, <1>15, <1>16, <1>17 DEF IInv, Keeps

\* submit_task_to_session().
LEMMA SubmitTaskKeeps ==
  ASSUME BusAssumption, IInv, NEW s \in Sessions, SubmitTask(s)
  PROVE  Keeps
<1> DEFINE j == counter + 1
           queued == pending_tasks' = [pending_tasks EXCEPT ![s] = Append(@, j)]
<1>1. /\ j \in Jobs /\ status[j] = "none" /\ session[j] = NoSession /\ active[j] = "none"
      /\ pc[j] = "none" /\ published[j] = "none" /\ Handed(j) = 0 /\ j \in 0..MaxJobs
  BY NewJob DEF SubmitTask
<1>2. /\ counter' = j
      /\ session' = [session EXCEPT ![j] = s]
      /\ active' = [active EXCEPT ![j] = "reserved"]
  BY DEF SubmitTask, G!PreCheck
<1>3. UNCHANGED <<published, cancelling, aborting, sweep, clean, wait>>
  BY DEF SubmitTask, callVars
<1>4. UNCHANGED <<pending_results, delivered, rescued>>
  BY DEF SubmitTask
<1>5. \/ /\ status' = [status EXCEPT ![j] = "queued"] /\ queued
         /\ UNCHANGED <<pc, current, dispatch>>
      \/ /\ status' = [status EXCEPT ![j] = "submitted"] /\ pc' = [pc EXCEPT ![j] = "new"]
         /\ current' = [current EXCEPT ![s] = j]
         /\ dispatch' = [dispatch EXCEPT ![j] = [by |-> Host, at |-> "emitting"]]
         /\ UNCHANGED pending_tasks
  BY DEF SubmitTask, DispatchTask
<1>6. counter' = counter + 1 /\ counter \in Nat
  BY <1>2 DEF IInv, JobTypes
<1>7. \A i \in Jobs : i # j =>
        /\ status'[i] = status[i] /\ pc'[i] = pc[i] /\ active'[i] = active[i]
        /\ session'[i] = session[i] /\ dispatch'[i] = dispatch[i]
  BY <1>2, <1>5 DEF IInv, JobTypes
<1>8. active'[j] = "reserved" /\ session'[j] = s /\ s # NoSession
  BY <1>1, <1>2 DEF IInv, JobTypes, BusAssumption, NoSession
<1>9. \/ status'[j] = "queued" /\ pc'[j] = "none" /\ queued /\ UNCHANGED <<current, dispatch>>
      \/ /\ status'[j] = "submitted" /\ pc'[j] = "new" /\ current' = [current EXCEPT ![s] = j]
         /\ dispatch'[j] = [by |-> Host, at |-> "emitting"] /\ pending_tasks' = pending_tasks
  BY <1>1, <1>5 DEF IInv, JobTypes
<1>10. JobTypes'
  <2>1. Host \in Owners
    BY DEF Owners
  <2>2. status' \in [Jobs -> Statuses] /\ pc' \in [Jobs -> Points]
    BY <1>1, <1>5 DEF IInv, JobTypes, Statuses, Points, Busy
  <2>3. dispatch' \in [Jobs -> [by : Owners, at : {"none", "emitting", "reaping"}]]
    BY <1>1, <1>5, <2>1 DEF IInv, JobTypes
  <2>4. session' \in [Jobs -> Sessions \cup {NoSession}] /\ counter' \in 0..MaxJobs
        /\ active' \in [Jobs -> {"none", "reserved", "acquired"}]
    BY <1>1, <1>2 DEF IInv, JobTypes
  <2> QED
    BY <1>3, <2>2, <2>3, <2>4 DEF IInv, JobTypes
<1>11. SessionTypes'
  <2>1. \A q \in Seq(Jobs) : Append(q, j) \in Seq(Jobs)
    BY <1>1
  <2>2. pending_tasks' \in [Sessions -> Seq(Jobs)]
    <3>1. pending_tasks \in [Sessions -> Seq(Jobs)]
      BY DEF IInv, SessionTypes
    <3>2. CASE queued
      BY <2>1, <3>1, <3>2
    <3> QED
      BY <1>5, <3>1, <3>2
  <2>3. current' \in [Sessions -> Jobs \cup {NoJob}]
    BY <1>1, <1>5 DEF IInv, SessionTypes
  <2> QED
    BY <1>4, <2>2, <2>3 DEF IInv, SessionTypes
<1> HIDE DEF j
<1>12. Frames'
  BY <1>3 DEF IInv, Frames
<1>13. Steady
  BY <1>1, <1>7 DEF Steady, IsTerminal, Terminal
<1>14. Lives'
  <2>1. \A i \in Jobs : LifeOK(status'[i], published'[i], pc'[i], active'[i])
    <3>1. LifeOK("submitted", "none", "new", "reserved") /\ LifeOK("queued", "none", "none", "reserved")
      BY DEF LifeOK, Finishing, Terminal
    <3>2. LifeOK(status'[j], published'[j], pc'[j], active'[j])
      BY <1>1, <1>3, <1>8, <1>9, <3>1
    <3> QED
      BY <1>3, <1>7, <3>2 DEF IInv, Lives
  <2>2. \A i \in Jobs : i > counter' => i > counter /\ i # j
    BY <1>2, <1>6 DEF Jobs, j
  <2>3. \A i \in Jobs : i > counter' => status'[i] = "none" /\ session'[i] = NoSession
    BY <1>7, <2>2 DEF IInv, Lives
  <2>4. \A i \in Jobs : pc'[i] \in Finishing => session'[i] # NoSession
    BY <1>7, <1>8 DEF IInv, Lives
  <2> QED
    BY <2>1, <2>3, <2>4 DEF Lives
<1>15. \A t \in Sessions : ~InQueue(pending_results[t], j) /\ ~InQueue(pending_tasks[t], j)
  <2>1. \A t \in Sessions : t # NoSession
    BY DEF BusAssumption, NoSession
  <2>2. \A t \in Sessions : ~InQueue(pending_results[t], j)
    BY <1>1, <2>1 DEF IInv, Publication, InQueue
  <2>3. \A t \in Sessions : ~InQueue(pending_tasks[t], j)
    BY <1>1, <2>1 DEF IInv, Queues, Parked, InQueue
  <2> QED
    BY <2>2, <2>3
<1>16. \A i \in Jobs : Handed(i)' = Handed(i)
  <2> SUFFICES ASSUME NEW i \in Jobs PROVE Handed(i)' = Handed(i)
    OBVIOUS
  <2>1. Pending(i)' <=> Pending(i)
    <3>1. CASE i = j
      BY <1>1, <1>4, <1>8, <1>15, <3>1 DEF Pending, InQueue
    <3>2. CASE i # j
      BY <1>4, <1>7, <3>2 DEF Pending, InQueue
    <3> QED
      BY <3>1, <3>2
  <2> QED
    BY <1>4, <2>1 DEF Handed
<1>17. Queues'
  <2>1. CASE status'[j] = "queued" /\ pc'[j] = "none" /\ queued
    <3> SUFFICES ASSUME NEW t \in Sessions
                 PROVE  /\ Distinct(pending_tasks'[t])
                        /\ \A i \in DOMAIN pending_tasks'[t] : Parked(t, pending_tasks[t][i])'
      BY DEF Queues, Distinct
    <3>1. /\ Distinct(pending_tasks[t]) /\ pending_tasks[t] \in Seq(Jobs)
          /\ \A i \in DOMAIN pending_tasks[t] : Parked(t, pending_tasks[t][i])
      BY DEF IInv, Queues, SessionTypes
    <3>2. \A i \in DOMAIN pending_tasks[t] : pending_tasks[t][i] # j /\ pending_tasks[t][i] \in Jobs
      BY <1>15, <3>1 DEF InQueue
    <3>3. CASE t # s
      <4>1. pending_tasks'[t] = pending_tasks[t]
        BY <2>1, <3>3 DEF IInv, SessionTypes
      <4> QED
        BY <1>7, <3>1, <3>2, <4>1 DEF Parked
    <3>4. CASE t = s
      <4>1. pending_tasks'[t] = Append(pending_tasks[t], j)
        BY <2>1, <3>4 DEF IInv, SessionTypes
      <4>2. /\ DOMAIN pending_tasks'[t] = 1..(Len(pending_tasks[t]) + 1)
            /\ \A i \in DOMAIN pending_tasks[t] : pending_tasks'[t][i] = pending_tasks[t][i]
            /\ pending_tasks'[t][Len(pending_tasks[t]) + 1] = j
        BY <1>1, <3>1, <4>1
      <4>3. \A i \in DOMAIN pending_tasks'[t] :
              i \in DOMAIN pending_tasks[t] \/ i = Len(pending_tasks[t]) + 1
        BY <3>1, <4>2
      <4>4. Distinct(pending_tasks'[t])
        BY <3>1, <3>2, <4>2, <4>3 DEF Distinct
      <4>5. \A i \in DOMAIN pending_tasks'[t] : Parked(t, pending_tasks[t][i])'
        BY <1>7, <1>8, <2>1, <3>1, <3>2, <3>4, <4>2, <4>3 DEF Parked
      <4> QED
        BY <4>4, <4>5
    <3> QED
      BY <3>3, <3>4
  <2>2. CASE pending_tasks' = pending_tasks
    BY <1>1, <1>7, <2>2, QueuesStay DEF IInv
  <2> QED
    BY <1>9, <2>1, <2>2
<1>18. Publication'
  <2>1. \A i \in Jobs : /\ Handed(i)' <= 1
                        /\ pc'[i] \in Early \/ session'[i] = NoSession => Handed(i)' = 0
                        /\ pc'[i] \in Finishing => Handed(i)' = 1
    <3> SUFFICES ASSUME NEW i \in Jobs
                 PROVE  /\ Handed(i)' <= 1
                        /\ pc'[i] \in Early \/ session'[i] = NoSession => Handed(i)' = 0
                        /\ pc'[i] \in Finishing => Handed(i)' = 1
      OBVIOUS
    <3>1. CASE i = j
      BY <1>1, <1>9, <1>16, <3>1 DEF Finishing
    <3>2. CASE i # j
      BY <1>7, <1>16, <3>2 DEF IInv, Publication, Early
    <3> QED
      BY <3>1, <3>2
  <2>2. \A t \in Sessions :
          /\ Distinct(pending_results[t])'
          /\ \A i \in DOMAIN pending_results'[t] : session'[pending_results'[t][i]] = t
    <3>1. \A t \in Sessions : \A i \in DOMAIN pending_results[t] :
            pending_results[t][i] \in Jobs /\ pending_results[t][i] # j
      <4>1. \A t \in Sessions : pending_results[t] \in Seq(Jobs)
        BY DEF IInv, SessionTypes
      <4> QED
        BY <1>15, <4>1 DEF InQueue
    <3> QED
      BY <1>4, <1>7, <3>1 DEF IInv, Publication, Distinct
  <2> QED
    BY <2>1, <2>2 DEF Publication, Early
<1>19. Currents'
  <2> SUFFICES ASSUME NEW t \in Sessions, NEW c \in Jobs, current'[t] = c
               PROVE  /\ session'[c] = t
                      /\ pc'[c] \notin {"none", "trim", "drain", "handoff"}
                      /\ pc'[c] = "done" => Handed(c)' = 0
    BY <1>11, CurrentsHold
  <2>1. CASE c = j /\ t = s /\ pc'[j] = "new"
    BY <1>8, <2>1
  <2>2. CASE current[t] = c
    <3>1. /\ session[c] = t /\ pc[c] \notin {"none", "trim", "drain", "handoff"}
          /\ pc[c] = "done" => Handed(c) = 0
      BY <2>2, OfCurrent DEF IInv
    <3>2. c # j
      BY <1>1, <3>1
    <3> QED
      BY <1>7, <1>16, <3>1, <3>2
  <2>3. \A u \in Sessions : [current EXCEPT ![s] = j][u] = IF u = s THEN j ELSE current[u]
    BY DEF IInv, SessionTypes
  <2> QED
    BY <1>9, <2>1, <2>2, <2>3
<1>20. Dispatches'
  <2>1. Host \notin Jobs
    BY DEF Host, Jobs, BusAssumption
  <2>2. dispatch[j].at = "none"
    BY <1>1 DEF IInv, Dispatches
  <2>3. \A i \in Jobs : i # j /\ dispatch[i].at # "none" => dispatch[i].by # j
    BY <1>1 DEF IInv, Dispatches
  <2> SUFFICES ASSUME NEW i \in Jobs, dispatch'[i].at # "none"
               PROVE  /\ pc'[i] # "none"
                      /\ dispatch'[i].by \in Jobs => pc'[dispatch'[i].by] \in {"handoff", "done"}
    BY DEF Dispatches
  <2>4. CASE i = j
    BY <1>9, <2>1, <2>2, <2>4
  <2>5. CASE i # j
    BY <1>7, <2>3, <2>5 DEF IInv, Dispatches
  <2> QED
    BY <2>4, <2>5
<1>21. Reservations'
  <2>1. cancelling[j] = FALSE
    BY <1>1 DEF IInv, Reservations, JobTypes
  <2>2. dispatch[j].at = "none"
    BY <1>1 DEF IInv, Dispatches
  <2>3. \A i \in Jobs : i # j => Awaited(i)' = Awaited(i)
    BY <1>3, <1>7 DEF Awaited, Min
  <2>4. \A i \in Jobs : \A t \in Sessions :
          InQueue(pending_tasks[t], i) => InQueue(pending_tasks'[t], i)
    <3>1. CASE queued
      <4>1. \A t \in Sessions : pending_tasks[t] \in Seq(Jobs)
        BY DEF IInv, SessionTypes
      <4>2. \A t \in Sessions : pending_tasks'[t] = IF t = s THEN Append(pending_tasks[t], j)
                                                    ELSE pending_tasks[t]
        BY <3>1 DEF IInv, SessionTypes
      <4>3. \A q \in Seq(Jobs) : \A i : InQueue(q, i) => InQueue(Append(q, j), i)
        BY <1>1, AppendHas
      <4> QED
        BY <4>1, <4>2, <4>3
    <3> QED
      BY <1>9, <3>1
  <2>5. status'[j] = "queued" => InQueue(pending_tasks'[s], j)
    <3> SUFFICES ASSUME queued PROVE InQueue(pending_tasks'[s], j)
      BY <1>9
    <3>1. pending_tasks'[s] = Append(pending_tasks[s], j) /\ pending_tasks[s] \in Seq(Jobs)
      BY DEF IInv, SessionTypes
    <3> QED
      BY <1>1, <3>1, AppendHas
  <2> SUFFICES ASSUME NEW i \in Jobs
               PROVE  /\ cancelling'[i] => pc'[i] # "none"
                      /\ cancelling'[i] /\ pc'[i] \in {"new", "gate"} => Awaited(i)'
                      /\ active'[i] # "none" =>
                           /\ pc'[i] = "done" => Awaited(i)'
                           /\ pc'[i] = "none" => \E t \in Sessions : InQueue(pending_tasks'[t], i)
    BY DEF Reservations, InQueue
  <2>6. CASE i = j
    BY <1>3, <1>9, <2>1, <2>5, <2>6
  <2>7. CASE i # j
    BY <1>3, <1>7, <2>3, <2>4, <2>7 DEF IInv, Reservations
  <2> QED
    BY <2>6, <2>7
<1>22. Swept'
  <2>1. j \notin sweep.todo
    BY <1>1 DEF IInv, Swept
  <2> QED
    BY <1>3, <1>7, <1>13, <2>1 DEF IInv, Swept, Frames, Steady, IsTerminal
<1> QED
  BY <1>10, <1>11, <1>12, <1>13, <1>14, <1>17, <1>18, <1>19, <1>20, <1>21, <1>22 DEF IInv, Keeps

-----------------------------------------------------------------------------
(* The job's asyncio task *)

\* One job goes from one point of its task to the next; the others stay.
Goes(j, to) == \A i \in Jobs : pc'[i] = IF i = j THEN to ELSE pc[i]

\* Steps of one task before or after the end of its loop.
LEMMA TaskMoves ==
  ASSUME BusAssumption, IInv, NEW j \in Jobs, NEW to \in Points, Goes(j, to),
         JobTypes', SessionTypes', Lives', Steady,
         UNCHANGED <<session, dispatch, aborting, sweep, clean, wait>>,
         UNCHANGED <<pending_tasks, pending_results, delivered, rescued>>,
         \A s \in Sessions : current'[s] \in {current[s], NoJob},
         \A i \in Jobs : i # j => /\ status'[i] = status[i] /\ active'[i] = active[i]
                                  /\ cancelling'[i] = cancelling[i],
         pc[j] # "none", to # "none",
         to \in Early => pc[j] \in Early,
         to \in Finishing => pc[j] \in Finishing,
         to \in {"trim", "drain", "handoff"} => pc[j] # "emit" \/ current'[session[j]] # j,
         to = "done" => pc[j] # "emit",
         pc[j] \in {"handoff", "done"} => to \in {"handoff", "done"},
         to = "gate" => ~cancelling'[j], to # "new",
         to = "done" => active'[j] = "none" \/ (pc[j] \in {"new", "gate"} /\ cancelling[j])
  PROVE  Keeps
<1>1. \A i \in Jobs : i # j => pc'[i] = pc[i]
  BY DEF Goes
<1>2. pc'[j] = to
  BY DEF Goes
<1>3. Frames'
  BY DEF IInv, Frames
<1>4. Queues'
  BY <1>1, QueuesStay DEF IInv
<1>5. Publication'
  BY <1>1, <1>2, PublicationStays DEF IInv
<1>6. Currents'
  <2>1. \A i \in Jobs :
           /\ pc'[i] = "none" => pc[i] = "none"
           /\ pc'[i] \in {"trim", "drain", "handoff"} =>
                pc[i] \in {"trim", "drain", "handoff"} \/ current'[session[i]] # i
           /\ pc'[i] = "done" => pc[i] # "emit"
    BY <1>1, <1>2 DEF Finishing
  <2> QED
    BY <2>1, CurrentsStay DEF IInv
<1>7. Dispatches'
  BY <1>1, <1>2, DispatchesStay DEF IInv
<1>8. Reservations'
  <2>1. \A i \in Jobs : Awaited(i)' = Awaited(i)
    BY AwaitedStays
  <2> SUFFICES ASSUME NEW i \in Jobs
               PROVE  /\ cancelling'[i] => pc'[i] # "none"
                      /\ cancelling'[i] /\ pc'[i] \in {"new", "gate"} => Awaited(i)'
                      /\ active'[i] # "none" =>
                           /\ pc'[i] = "done" => Awaited(i)'
                           /\ pc'[i] = "none" => \E t \in Sessions : InQueue(pending_tasks'[t], i)
    BY DEF Reservations, InQueue
  <2>2. CASE i = j
    BY <1>2, <2>1, <2>2 DEF IInv, Reservations
  <2>3. CASE i # j
    BY <1>1, <2>1, <2>3 DEF IInv, Reservations
  <2> QED
    BY <2>2, <2>3
<1>9. Swept'
  BY <1>1, <1>2, SweptStays DEF IInv
<1> QED
  BY <1>3, <1>4, <1>5, <1>6, <1>7, <1>8, <1>9 DEF IInv, Keeps

\* The entry of one job changes.
LEMMA OneLife ==
  ASSUME IInv, NEW j \in Jobs, NEW to, Goes(j, to), UNCHANGED <<counter, session>>,
         \A i \in Jobs : i # j => /\ status'[i] = status[i] /\ active'[i] = active[i]
                                  /\ published'[i] = published[i],
         LifeOK(status'[j], published'[j], to, active'[j]), status[j] # "none",
         to \in Finishing => session[j] # NoSession, IsTerminal(j) => status'[j] = status[j]
  PROVE  Lives' /\ Steady
<1>1. \A i \in Jobs : LifeOK(status'[i], published'[i], pc'[i], active'[i])
  BY DEF IInv, Lives, Goes
<1>2. \A i \in Jobs : i > counter' => status'[i] = "none" /\ session'[i] = NoSession
  BY DEF IInv, Lives
<1>3. \A i \in Jobs : pc'[i] \in Finishing => session'[i] # NoSession
  BY DEF IInv, Lives, Goes
<1> QED
  BY <1>1, <1>2, <1>3 DEF Lives, Steady, IsTerminal

\* Semaphore and reservation at the gate.
LEMMA GateTakes ==
  ASSUME JobTypes, NEW j \in Jobs,
         G!AcquireSlotNow(j) \/ G!AcquireSlotWait(j) \/ G!AcquireSlotResume(j) \/ G!AcquireSlotCancelled(j)
  PROVE  /\ active' \in [Jobs -> {"none", "reserved", "acquired"}]
         /\ \A i \in Jobs : active'[i] = "none" <=> active[i] = "none"
         /\ \A i \in Jobs : i # j => active'[i] = active[i]
<1>1. CASE active' = active
  BY <1>1 DEF JobTypes
<1>2. CASE G!MarkAcquired(j)
  BY <1>2 DEF JobTypes, G!MarkAcquired
<1> QED
  BY <1>1, <1>2 DEF G!AcquireSlotNow, G!AcquireSlotWait, G!AcquireSlotResume, G!AcquireSlotCancelled

\* What the invariant says of one job.
LEMMA OfJob ==
  ASSUME IInv, NEW j \in Jobs
  PROVE  /\ LifeOK(status[j], published[j], pc[j], active[j])
         /\ status[j] \in Statuses /\ published[j] \in Results /\ pc[j] \in Points
         /\ session[j] \in Sessions \cup {NoSession} /\ cancelling[j] \in BOOLEAN
         /\ published[j] = "none" <=> status[j] \notin Terminal
         /\ pc[j] \in Finishing => session[j] # NoSession
<1>1. /\ LifeOK(status[j], published[j], pc[j], active[j])
      /\ status[j] \in Statuses /\ published[j] \in Results /\ pc[j] \in Points
      /\ session[j] \in Sessions \cup {NoSession} /\ cancelling[j] \in BOOLEAN
      /\ pc[j] \in Finishing => session[j] # NoSession
  BY DEF IInv, Lives, JobTypes
<1>2. published[j] = "none" <=> status[j] \notin Terminal
  BY <1>1 DEF LifeOK, StatusOf, Results, Terminal
<1> QED
  BY <1>1, <1>2

\* The first step of a task, and its steps at the gate.
LEMMA GateKeeps ==
  ASSUME BusAssumption, IInv, NEW j \in Jobs, Start(j) \/ Gate(j)
  PROVE  Keeps
<1>1. /\ LifeOK(status[j], published[j], pc[j], active[j]) /\ published[j] \in Results
      /\ pc[j] \in {"new", "gate"}
  BY OfJob DEF Start, Gate
<1>2. status[j] = "submitted" /\ published[j] = "none"
  BY <1>1 DEF LifeOK, StatusOf, Results
<1>3. UNCHANGED <<counter, published, session, dispatch, aborting, sweep, clean, wait>>
  BY DEF Start, Gate, callVars
<1>4. UNCHANGED <<current, pending_tasks, pending_results, delivered, rescued>>
  BY DEF Start, Gate
<1>5. \/ /\ cancelling[j] /\ pc' = [pc EXCEPT ![j] = "done"] /\ status' = status
         /\ cancelling' = [cancelling EXCEPT ![j] = FALSE]
      \/ /\ ~cancelling[j] /\ pc' = [pc EXCEPT ![j] = "loop"] /\ status' = [status EXCEPT ![j] = "running"]
         /\ cancelling' = cancelling \/ cancelling' = [cancelling EXCEPT ![j] = FALSE]
      \/ /\ ~cancelling[j] /\ pc' = [pc EXCEPT ![j] = "gate"] /\ status' = status
         /\ cancelling' = cancelling
  BY DEF Start, Gate
<1>6. /\ active' \in [Jobs -> {"none", "reserved", "acquired"}]
      /\ \A i \in Jobs : i # j => active'[i] = active[i]
  <2>1. CASE UNCHANGED guardVars
    BY <2>1 DEF guardVars, IInv, JobTypes
  <2>2. CASE G!AcquireSlotNow(j) \/ G!AcquireSlotWait(j) \/ G!AcquireSlotResume(j) \/ G!AcquireSlotCancelled(j)
    BY <2>2, GateTakes DEF IInv
  <2> QED
    BY <2>1, <2>2 DEF Start, Gate
<1>7. /\ pc' \in [Jobs -> Points] /\ status' \in [Jobs -> Statuses] /\ cancelling' \in [Jobs -> BOOLEAN]
  BY <1>5 DEF IInv, JobTypes, Points, Statuses, Busy
<1>8. JobTypes' /\ SessionTypes'
  BY <1>3, <1>4, <1>6, <1>7 DEF IInv, JobTypes, SessionTypes
<1>9. \A i \in Jobs : i # j => /\ status'[i] = status[i] /\ published'[i] = published[i]
                               /\ cancelling'[i] = cancelling[i]
  BY <1>3, <1>5 DEF IInv, JobTypes
<1>10. \E to \in {"done", "loop", "gate"} :
         /\ Goes(j, to)
         /\ to = "done" => status'[j] = "submitted" /\ cancelling[j]
         /\ to = "loop" => status'[j] = "running"
         /\ to = "gate" => status'[j] = "submitted" /\ ~cancelling'[j]
  BY <1>2, <1>5 DEF IInv, JobTypes, Goes
<1>11. PICK to \in {"done", "loop", "gate"} :
         /\ Goes(j, to)
         /\ to = "done" => status'[j] = "submitted" /\ cancelling[j]
         /\ to = "loop" => status'[j] = "running"
         /\ to = "gate" => status'[j] = "submitted" /\ ~cancelling'[j]
  BY <1>10
<1>12. Lives' /\ Steady
  <2>1. LifeOK(status'[j], published'[j], to, active'[j])
    BY <1>2, <1>3, <1>11 DEF LifeOK, Finishing, Terminal
  <2> QED
    BY <1>2, <1>3, <1>6, <1>9, <1>11, <2>1, OneLife DEF Finishing, IsTerminal, Terminal
<1>13. to \in Points /\ to \notin Finishing /\ to # "new" /\ to # "none"
  BY DEF Points, Finishing
<1>14. pc[j] \in Early /\ pc[j] \notin {"none", "emit", "handoff", "done"}
  BY <1>1 DEF Early
<1> QED
  BY <1>1, <1>3, <1>4, <1>6, <1>8, <1>9, <1>11, <1>12, <1>13, <1>14, TaskMoves DEF Finishing

\* The finally block of a task, up to the draining of its session's queue.
LEMMA FinallyKeeps ==
  ASSUME BusAssumption, IInv, NEW j \in Jobs, Finalize(j) \/ FinalizeTrim(j)
  PROVE  Keeps
<1>1. /\ LifeOK(status[j], published[j], pc[j], active[j]) /\ pc[j] \in {"emit", "trim"}
      /\ published[j] = "none" <=> status[j] \notin Terminal
      /\ session[j] \in Sessions
  BY OfJob DEF Finalize, FinalizeTrim, Finishing
<1>2. status[j] \in Terminal /\ published[j] # "none"
  BY <1>1 DEF LifeOK, Finishing
<1>3. UNCHANGED <<counter, status, published, session, dispatch, aborting, sweep, clean, wait>>
  BY DEF Finalize, FinalizeTrim, callVars
<1>4. UNCHANGED <<pending_tasks, pending_results, delivered, rescued>>
  BY DEF Finalize, FinalizeTrim
<1>5. active' = [i \in Jobs |-> IF i = j THEN "none" ELSE active[i]]
  <2>1. CASE Finalize(j)
    BY <2>1, ReleaseTakes DEF Finalize, IInv
  <2>2. CASE FinalizeTrim(j)
    <3>1. active' = active /\ pc[j] = "trim"
      BY <2>2 DEF FinalizeTrim, guardVars
    <3>2. active[j] = "none"
      BY <1>1, <1>2, <3>1 DEF LifeOK
    <3> QED
      BY <3>1, <3>2 DEF IInv, JobTypes
  <2> QED
    BY <2>1, <2>2
<1>6. cancelling' = [cancelling EXCEPT ![j] = FALSE]
  BY DEF Finalize, FinalizeTrim
<1>7. \/ /\ pc[j] = "emit" /\ pc' = [pc EXCEPT ![j] = "trim"]
         /\ current' = [current EXCEPT ![session[j]] = IF @ = j THEN NoJob ELSE @]
      \/ pc[j] = "trim" /\ pc' = [pc EXCEPT ![j] = "done"] /\ current' = current
      \/ pc[j] = "trim" /\ pc' = [pc EXCEPT ![j] = "drain"] /\ current' = current
  BY DEF Finalize, FinalizeTrim
<1>8. JobTypes'
  BY <1>3, <1>5, <1>6, <1>7 DEF IInv, JobTypes, Points, Finishing
<1>9. /\ SessionTypes' /\ \A s \in Sessions : current'[s] \in {current[s], NoJob}
      /\ pc[j] = "emit" => current'[session[j]] # j
  <2>1. current \in [Sessions -> Jobs \cup {NoJob}] /\ NoJob # j
    BY DEF IInv, SessionTypes, NoJob, Jobs
  <2>2. /\ current' \in [Sessions -> Jobs \cup {NoJob}]
        /\ \A s \in Sessions : current'[s] \in {current[s], NoJob}
        /\ pc[j] = "emit" => current'[session[j]] # j
    BY <1>1, <1>7, <2>1
  <2> QED
    BY <1>4, <2>2 DEF IInv, SessionTypes
<1>10. \A i \in Jobs : i # j => active'[i] = active[i] /\ cancelling'[i] = cancelling[i]
  BY <1>5, <1>6 DEF IInv, JobTypes
<1>11. active'[j] = "none"
  BY <1>5
<1>12. \E to \in {"trim", "drain", "done"} : Goes(j, to) /\ (to = "trim" <=> pc[j] = "emit")
  BY <1>7 DEF IInv, JobTypes, Goes
<1>13. PICK to \in {"trim", "drain", "done"} : Goes(j, to) /\ (to = "trim" <=> pc[j] = "emit")
  BY <1>12
<1>14. Lives' /\ Steady
  <2>1. LifeOK(status'[j], published'[j], to, active'[j])
    BY <1>1, <1>2, <1>3, <1>11 DEF LifeOK, Finishing, Terminal
  <2> QED
    BY <1>1, <1>2, <1>3, <1>10, <1>13, <2>1, OneLife DEF NoSession, BusAssumption, Terminal
<1>15. to \in Points /\ to \notin Early /\ to \notin {"new", "gate", "none"}
  BY DEF Points, Finishing, Early
<1>16. pc[j] \in Finishing
  BY <1>1 DEF Finishing
<1> QED
  BY <1>1, <1>3, <1>4, <1>8, <1>9, <1>10, <1>11, <1>13, <1>14, <1>15, <1>16, TaskMoves

\* The end of a sub-agent's loop leaves a result and a status that agree.
LEMMA LoopResult ==
  ASSUME BusAssumption, IInv, NEW j \in Jobs, NEW o \in Outcomes, LoopEnds(j, o)
  PROVE  /\ pc[j] = "loop" /\ status[j] = "running" /\ published[j] = "none"
         /\ status' \in [Jobs -> Statuses] /\ published' \in [Jobs -> Results]
         /\ cancelling' \in [Jobs -> BOOLEAN]
         /\ status'[j] \in Terminal /\ published'[j] # "none" /\ status'[j] = StatusOf(published'[j])
         /\ cancelling'[j] = FALSE
         /\ \A i \in Jobs : i # j => /\ status'[i] = status[i] /\ published'[i] = published[i]
                                     /\ cancelling'[i] = cancelling[i]
<1>1. ResultOf(o) \in {"ok", "failed", "aborted"}
  BY DEF ResultOf, BusAssumption
<1>2. StatusOf(ResultOf(o)) \in Terminal
  BY <1>1 DEF StatusOf, Terminal
<1>3. /\ published' = [published EXCEPT ![j] = ResultOf(o)]
      /\ status' = [status EXCEPT ![j] = StatusOf(ResultOf(o))]
      /\ cancelling' = [cancelling EXCEPT ![j] = FALSE]
      /\ pc[j] = "loop"
  BY DEF LoopEnds
<1>4. status[j] = "running" /\ published[j] = "none"
  BY <1>3, OfJob DEF LifeOK, Terminal
<1>5. status' \in [Jobs -> Statuses] /\ published' \in [Jobs -> Results]
  BY <1>1, <1>2, <1>3 DEF IInv, JobTypes, Statuses, Results
<1>6. /\ status'[j] = StatusOf(ResultOf(o)) /\ published'[j] = ResultOf(o)
      /\ cancelling'[j] = FALSE /\ cancelling' \in [Jobs -> BOOLEAN]
      /\ \A i \in Jobs : i # j => /\ status'[i] = status[i] /\ published'[i] = published[i]
                                  /\ cancelling'[i] = cancelling[i]
  BY <1>3 DEF IInv, JobTypes
<1> QED
  BY <1>1, <1>2, <1>3, <1>4, <1>5, <1>6

\* A job of submit() ends.
LEMMA FinishJobKeeps ==
  ASSUME BusAssumption, IInv, NEW j \in Jobs, NEW o \in Outcomes, FinishJob(j, o)
  PROVE  Keeps
<1>1. LoopEnds(j, o)
  BY DEF FinishJob
<1>2. /\ pc[j] = "loop" /\ status[j] = "running" /\ published[j] = "none"
      /\ status' \in [Jobs -> Statuses] /\ published' \in [Jobs -> Results]
      /\ cancelling' \in [Jobs -> BOOLEAN]
      /\ status'[j] \in Terminal /\ published'[j] # "none" /\ status'[j] = StatusOf(published'[j])
      /\ cancelling'[j] = FALSE
      /\ \A i \in Jobs : i # j => /\ status'[i] = status[i] /\ published'[i] = published[i]
                                  /\ cancelling'[i] = cancelling[i]
  BY <1>1, LoopResult
<1>3. UNCHANGED <<counter, session, dispatch, aborting, sweep, clean, wait>>
  BY DEF FinishJob, callVars
<1>4. UNCHANGED <<current, pending_tasks, pending_results, delivered, rescued>>
  BY DEF FinishJob
<1>5. active' = [i \in Jobs |-> IF i = j THEN "none" ELSE active[i]]
  BY ReleaseTakes DEF FinishJob, IInv
<1>6. pc' = [pc EXCEPT ![j] = "done"]
  BY DEF FinishJob
<1>7. Goes(j, "done")
  BY <1>6 DEF Goes, IInv, JobTypes
<1>8. JobTypes' /\ SessionTypes'
  BY <1>2, <1>3, <1>4, <1>5, <1>6 DEF IInv, JobTypes, SessionTypes, Points
<1>9. active'[j] = "none" /\ \A i \in Jobs : i # j => active'[i] = active[i]
  BY <1>5
<1>10. Lives' /\ Steady
  <2>1. LifeOK(status'[j], published'[j], "done", active'[j])
    BY <1>2, <1>9 DEF LifeOK, Terminal, Finishing
  <2>2. "done" \notin Finishing /\ ~IsTerminal(j) /\ status[j] # "none"
    BY <1>2 DEF Finishing, IsTerminal, Terminal
  <2> QED
    BY <1>2, <1>3, <1>7, <1>9, <2>1, <2>2, OneLife
<1>11. "done" \in Points /\ "done" \notin Early /\ "done" \notin Finishing
  BY DEF Points, Early, Finishing
<1> QED
  BY <1>2, <1>3, <1>4, <1>7, <1>8, <1>9, <1>10, <1>11, TaskMoves

\* A session's job ends: its result waits for the coordinator, once.
LEMMA FinishRunKeeps ==
  ASSUME BusAssumption, IInv, NEW j \in Jobs, NEW o \in Outcomes, FinishRun(j, o)
  PROVE  Keeps
<1> DEFINE s == session[j]
<1>1. LoopEnds(j, o) /\ s \in Sessions
  BY OfJob DEF FinishRun
<1>2. /\ pc[j] = "loop" /\ status[j] = "running" /\ published[j] = "none"
      /\ status' \in [Jobs -> Statuses] /\ published' \in [Jobs -> Results]
      /\ cancelling' \in [Jobs -> BOOLEAN]
      /\ status'[j] \in Terminal /\ published'[j] # "none" /\ status'[j] = StatusOf(published'[j])
      /\ cancelling'[j] = FALSE
      /\ \A i \in Jobs : i # j => /\ status'[i] = status[i] /\ published'[i] = published[i]
                                  /\ cancelling'[i] = cancelling[i]
  BY <1>1, LoopResult
<1>3. UNCHANGED <<counter, session, active, dispatch, aborting, sweep, clean, wait>>
  BY DEF FinishRun, callVars, guardVars
<1>4. UNCHANGED <<current, pending_tasks, delivered, rescued>>
  BY DEF FinishRun
<1>5. /\ pc' = [pc EXCEPT ![j] = "emit"]
      /\ pending_results' = [pending_results EXCEPT ![s] = Append(@, j)]
  BY DEF FinishRun
<1>6. pc'[j] = "emit" /\ \A i \in Jobs : i # j => pc'[i] = pc[i]
  BY <1>5 DEF IInv, JobTypes
<1>7. JobTypes'
  BY <1>2, <1>3, <1>5 DEF IInv, JobTypes, Points, Finishing
<1>8. /\ pending_results' \in [Sessions -> Seq(Jobs)]
      /\ \A t \in Sessions : pending_results[t] \in Seq(Jobs)
      /\ \A t \in Sessions :
           pending_results'[t] = IF t = s THEN Append(pending_results[t], j) ELSE pending_results[t]
  <2>1. pending_results \in [Sessions -> Seq(Jobs)]
    BY DEF IInv, SessionTypes
  <2> HIDE DEF s
  <2>2. \A q \in Seq(Jobs) : Append(q, j) \in Seq(Jobs)
    OBVIOUS
  <2> QED
    BY <1>1, <1>5, <2>1, <2>2
<1>9. SessionTypes' /\ Frames'
  BY <1>3, <1>4, <1>8 DEF IInv, SessionTypes, Frames
<1>10. Lives' /\ Steady
  <2>1. LifeOK(status'[j], published'[j], "emit", active'[j])
    BY <1>2 DEF LifeOK, Terminal, Finishing
  <2>2. s # NoSession /\ ~IsTerminal(j) /\ status[j] # "none" /\ Goes(j, "emit")
    BY <1>1, <1>2, <1>6 DEF IsTerminal, Terminal, Goes, BusAssumption, NoSession
  <2> QED
    BY <1>2, <1>3, <2>1, <2>2, OneLife
<1>11. Queues'
  BY <1>2, <1>3, <1>4, <1>6, QueuesStay DEF IInv
<1>12. Handed(j) = 0 /\ ~Pending(j)
  <2>1. Handed(j) = 0 /\ delivered[j] \in Nat
    BY <1>2 DEF IInv, Publication, SessionTypes
  <2> QED
    BY <2>1 DEF Handed
<1>13. s # NoSession /\ ~InQueue(pending_results[s], j)
  BY <1>1, <1>12 DEF Pending, BusAssumption, NoSession
<1> HIDE DEF s
<1>14. InQueue(pending_results'[s], j)
  <2>1. InQueue(Append(pending_results[s], j), j)
    BY <1>1, <1>8, AppendHas
  <2> QED
    BY <1>1, <1>8, <2>1
<1>15. \A i \in Jobs : \A t \in Sessions : i # j =>
         (InQueue(pending_results'[t], i) <=> InQueue(pending_results[t], i))
  <2> SUFFICES ASSUME NEW i \in Jobs, NEW t \in Sessions, i # j
               PROVE  InQueue(pending_results'[t], i) <=> InQueue(pending_results[t], i)
    OBVIOUS
  <2>1. CASE t = s
    <3>1. InQueue(Append(pending_results[t], j), i) <=> InQueue(pending_results[t], i)
      BY <1>8, AppendHas
    <3> QED
      BY <1>8, <2>1, <3>1
  <2>2. CASE t # s
    BY <1>8, <2>2
  <2> QED
    BY <2>1, <2>2
<1>16. Handed(j)' = 1 /\ \A i \in Jobs : i # j => Handed(i)' = Handed(i)
  <2>1. Handed(j)' = 1
    <3>1. Pending(j)'
      BY <1>3, <1>13, <1>14 DEF Pending, s
    <3>2. delivered[j] \in Nat
      BY DEF IInv, SessionTypes
    <3> QED
      BY <1>4, <1>12, <3>1, <3>2 DEF Handed
  <2>2. ASSUME NEW i \in Jobs, i # j PROVE Handed(i)' = Handed(i)
    <3>1. session[i] \in Sessions \cup {NoSession}
      BY DEF IInv, JobTypes
    <3>2. Pending(i)' <=> Pending(i)
      BY <1>3, <1>15, <2>2, <3>1 DEF Pending
    <3> QED
      BY <1>4, <3>2 DEF Handed
  <2> QED
    BY <2>1, <2>2
<1>17. Publication'
  <2>1. \A i \in Jobs : /\ Handed(i)' <= 1
                        /\ pc'[i] \in Early \/ session'[i] = NoSession => Handed(i)' = 0
                        /\ pc'[i] \in Finishing => Handed(i)' = 1
    <3> SUFFICES ASSUME NEW i \in Jobs
                 PROVE  /\ Handed(i)' <= 1
                        /\ pc'[i] \in Early \/ session'[i] = NoSession => Handed(i)' = 0
                        /\ pc'[i] \in Finishing => Handed(i)' = 1
      OBVIOUS
    <3>1. CASE i = j
      BY <1>3, <1>6, <1>13, <1>16, <3>1 DEF Early, s
    <3>2. CASE i # j
      BY <1>3, <1>6, <1>16, <3>2 DEF IInv, Publication, Early
    <3> QED
      BY <3>1, <3>2
  <2>2. \A t \in Sessions :
          /\ Distinct(pending_results[t])'
          /\ \A i \in DOMAIN pending_results'[t] : session'[pending_results'[t][i]] = t
    <3> SUFFICES ASSUME NEW t \in Sessions
                 PROVE  /\ Distinct(pending_results'[t])
                        /\ \A i \in DOMAIN pending_results'[t] : session[pending_results'[t][i]] = t
      BY <1>3 DEF Distinct
    <3>1. /\ Distinct(pending_results[t]) /\ pending_results[t] \in Seq(Jobs)
          /\ \A i \in DOMAIN pending_results[t] : session[pending_results[t][i]] = t
      BY <1>8 DEF IInv, Publication
    <3>2. CASE t # s
      BY <1>8, <3>1, <3>2
    <3>3. CASE t = s
      <4> DEFINE q == pending_results[t]
      <4>1. /\ q \in Seq(Jobs) /\ pending_results'[t] = Append(q, j)
            /\ \A i \in DOMAIN q : q[i] # j
        BY <1>8, <1>13, <3>1, <3>3 DEF InQueue
      <4>2. /\ DOMAIN pending_results'[t] = 1..(Len(q) + 1) /\ pending_results'[t][Len(q) + 1] = j
            /\ \A k \in 1..Len(q) : pending_results'[t][k] = q[k]
            /\ DOMAIN q = 1..Len(q) /\ Len(q) \in Nat
        BY <4>1
      <4>3. \A k \in 1..(Len(q) + 1) : k \in 1..Len(q) \/ k = Len(q) + 1
        BY <4>2
      <4>4. Distinct(pending_results'[t])
        BY <3>1, <4>1, <4>2, <4>3 DEF Distinct
      <4>5. session[j] = t
        BY <3>3 DEF s
      <4> HIDE DEF q
      <4> QED
        BY <3>1, <4>2, <4>3, <4>4, <4>5 DEF q
    <3> QED
      BY <3>2, <3>3
  <2> QED
    BY <2>1, <2>2 DEF Publication, Early
<1>18. Currents'
  <2> SUFFICES ASSUME NEW t \in Sessions, NEW c \in Jobs, current'[t] = c
               PROVE  /\ session'[c] = t
                      /\ pc'[c] \notin {"none", "trim", "drain", "handoff"}
                      /\ pc'[c] = "done" => Handed(c)' = 0
    BY <1>9, CurrentsHold
  <2>1. /\ session[c] = t /\ pc[c] \notin {"none", "trim", "drain", "handoff"}
        /\ pc[c] = "done" => Handed(c) = 0
    BY <1>4, OfCurrent DEF IInv
  <2> QED
    BY <1>3, <1>6, <1>16, <2>1
<1>19. Dispatches'
  BY <1>2, <1>3, <1>6, DispatchesStay DEF IInv
<1>20. Reservations'
  <2>1. \A i \in Jobs : Awaited(i)' = Awaited(i)
    BY <1>3, AwaitedStays
  <2>2. \A i \in Jobs : i # j => cancelling'[i] = cancelling[i] /\ pc'[i] = pc[i]
    BY <1>2, <1>6
  <2> QED
    BY <1>2, <1>3, <1>4, <1>6, <2>1, <2>2, ReservationsStay DEF IInv
<1>21. Swept'
  BY <1>3, <1>6, <1>10, SweptStays DEF IInv
<1> QED
  BY <1>7, <1>9, <1>10, <1>11, <1>17, <1>18, <1>19, <1>20, <1>21 DEF IInv, Keeps

-----------------------------------------------------------------------------
(* Aborting and tearing down *)

\* Jobs without a running task are marked, others are cancelled; a queue may
\* lose the marked ones, and whoever stops waiting leaves nothing reserved.
LEMMA MarkKeeps ==
  ASSUME BusAssumption, IInv, NEW S, S \subseteq Jobs,
         \A j \in S : pc[j] \in {"none", "done"} /\ status[j] # "none",
         status' = MarkedStatus(S), published' = MarkedResult(S),
         active' = [i \in Jobs |-> IF i \in S THEN "none" ELSE active[i]],
         UNCHANGED <<counter, session, pc, current, dispatch>>,
         SessionTypes', Frames', Swept', cancelling' \in [Jobs -> BOOLEAN], aborting' \subseteq Jobs,
         \A j \in Jobs : Handed(j)' = Handed(j),
         \A s \in Sessions :
           /\ Distinct(pending_results'[s])
           /\ \A i \in DOMAIN pending_results'[s] : session[pending_results'[s][i]] = s,
         \A s \in Sessions :
           /\ Distinct(pending_tasks'[s])
           /\ \A i \in DOMAIN pending_tasks'[s] :
                pending_tasks'[s][i] \notin S /\ InQueue(pending_tasks[s], pending_tasks'[s][i])
           /\ \A j \in Jobs \ S : InQueue(pending_tasks[s], j) => InQueue(pending_tasks'[s], j),
         \A j \in Jobs : Awaited(j) => Awaited(j)' \/ (pc[j] = "done" /\ active'[j] = "none"),
         \A j \in Jobs : cancelling'[j] =>
           /\ pc[j] # "none"
           /\ cancelling[j] \/ Awaited(j)'
  PROVE  Keeps
<1>1. /\ Lives' /\ Steady
      /\ status' \in [Jobs -> Statuses] /\ published' \in [Jobs -> Results]
      /\ active' \in [Jobs -> {"none", "reserved", "acquired"}]
  BY MarkedOK DEF IInv
<1>2. JobTypes'
  BY <1>1 DEF IInv, JobTypes
<1>3. Queues'
  <2>1. \A j \in Jobs \ S : status'[j] = status[j]
    BY DEF MarkedStatus
  <2>2. \A s \in Sessions : pending_tasks'[s] \in Seq(Jobs)
    BY DEF SessionTypes
  <2>3. \A s \in Sessions : \A i \in DOMAIN pending_tasks'[s] :
          \E j \in Jobs : /\ j = pending_tasks'[s][i]
                          /\ pc'[j] = pc[j] /\ status'[j] = status[j] /\ session'[j] = session[j]
    BY <2>1, <2>2
  <2> QED
    BY <2>3, QueuesShrink DEF IInv
<1>4. Publication' /\ Currents'
  BY HandedMoves DEF IInv
<1>5. Dispatches'
  BY DispatchesStay DEF IInv
<1>6. Reservations'
  <2> SUFFICES ASSUME NEW i \in Jobs
               PROVE  /\ cancelling'[i] => pc'[i] # "none"
                      /\ cancelling'[i] /\ pc'[i] \in {"new", "gate"} => Awaited(i)'
                      /\ active'[i] # "none" =>
                           /\ pc'[i] = "done" => Awaited(i)'
                           /\ pc'[i] = "none" => \E t \in Sessions : InQueue(pending_tasks'[t], i)
    BY DEF Reservations, InQueue
  <2>1. /\ cancelling[i] /\ pc[i] \in {"new", "gate"} => Awaited(i)
        /\ active[i] # "none" =>
             /\ pc[i] = "done" => Awaited(i)
             /\ pc[i] = "none" => \E s \in Sessions : InQueue(pending_tasks[s], i)
    BY DEF IInv, Reservations
  <2>2. active'[i] # "none" => i \notin S /\ active[i] # "none"
    OBVIOUS
  <2> QED
    BY <2>1, <2>2
<1> QED
  BY <1>1, <1>2, <1>3, <1>4, <1>5, <1>6 DEF IInv, Keeps

\* Results and queues that are left alone are as they were.
LEMMA QueuesAsTheyWere ==
  ASSUME IInv, UNCHANGED <<session, delivered, rescued, pending_results>>
  PROVE  /\ \A j \in Jobs : Handed(j)' = Handed(j)
         /\ \A s \in Sessions :
              /\ Distinct(pending_results'[s])
              /\ \A i \in DOMAIN pending_results'[s] : session[pending_results'[s][i]] = s
         /\ \A s \in Sessions :
              /\ Distinct(pending_tasks[s])
              /\ \A i \in DOMAIN pending_tasks[s] :
                   /\ pending_tasks[s][i] \in Jobs /\ Parked(s, pending_tasks[s][i])
                   /\ InQueue(pending_tasks[s], pending_tasks[s][i])
<1>1. \A j \in Jobs : Handed(j)' = Handed(j)
  BY HandedStays
<1>2. \A s \in Sessions :
        /\ Distinct(pending_results'[s])
        /\ \A i \in DOMAIN pending_results'[s] : session[pending_results'[s][i]] = s
  BY DEF IInv, Publication
<1>3. \A s \in Sessions : \A i \in DOMAIN pending_tasks[s] : pending_tasks[s][i] \in Jobs
  <2>1. \A s \in Sessions : pending_tasks[s] \in Seq(Jobs)
    BY DEF IInv, SessionTypes
  <2> QED
    BY <2>1
<1>4. \A s \in Sessions : Distinct(pending_tasks[s])
                          /\ \A i \in DOMAIN pending_tasks[s] : Parked(s, pending_tasks[s][i])
  BY DEF IInv, Queues
<1> QED
  BY <1>1, <1>2, <1>3, <1>4 DEF InQueue

\* Nothing is marked.
LEMMA NoneMarked ==
  ASSUME JobTypes, UNCHANGED <<status, published, active>>
  PROVE  /\ status' = MarkedStatus({}) /\ published' = MarkedResult({})
         /\ active' = [i \in Jobs |-> IF i \in {} THEN "none" ELSE active[i]]
BY DEF JobTypes, MarkedStatus, MarkedResult

\* A job is marked, or it was terminal: a job whose task has ended is settled.
LEMMA EndedIsSettled ==
  ASSUME IInv, NEW j \in Jobs, pc[j] = "done",
         \/ MarkJobAborted(j)
         \/ IsTerminal(j) /\ UNCHANGED <<guardVars, status, published>>
  PROVE  /\ status' = MarkedStatus({j}) /\ published' = MarkedResult({j})
         /\ active' = [i \in Jobs |-> IF i \in {j} THEN "none" ELSE active[i]]
         /\ status[j] # "none" /\ status'[j] \in Terminal
<1>1. LifeOK(status[j], published[j], pc[j], active[j]) /\ JobTypes
  BY OfJob DEF IInv
<1>2. status[j] # "none"
  BY <1>1 DEF LifeOK, Terminal
<1>3. CASE MarkJobAborted(j)
  <2>1. active' = [i \in Jobs |-> IF i = j THEN "none" ELSE active[i]]
    BY <1>1, <1>3, ReleaseTakes DEF MarkJobAborted
  <2>2. status' = MarkedStatus({j}) /\ published' = MarkedResult({j})
    BY <1>3 DEF MarkJobAborted
  <2>3. status'[j] \in Terminal
    BY <2>2 DEF MarkedStatus, Terminal, IsTerminal
  <2> QED
    BY <1>2, <2>1, <2>2, <2>3
<1>4. CASE IsTerminal(j) /\ UNCHANGED <<guardVars, status, published>>
  <2>1. UNCHANGED <<active, status, published>>
    BY <1>4 DEF guardVars
  <2>2. active[j] = "none"
    BY <1>1, <1>4 DEF LifeOK, IsTerminal
  <2>3. status' = MarkedStatus({j}) /\ published' = MarkedResult({j})
    BY <1>1, <1>4, <2>1 DEF JobTypes, MarkedStatus, MarkedResult
  <2>4. active' = [i \in Jobs |-> IF i \in {j} THEN "none" ELSE active[i]]
    BY <1>1, <2>1, <2>2 DEF JobTypes
  <2> QED
    BY <1>2, <1>4, <2>1, <2>3, <2>4 DEF IsTerminal
<1> QED
  BY <1>3, <1>4

\* abort() of a queued job, and of one whose task it must await.
LEMMA AbortKeeps ==
  ASSUME BusAssumption, IInv, NEW j \in Jobs, Abort(j)
  PROVE  Keeps
<1>1. UNCHANGED <<counter, pc, session, current, dispatch, sweep, clean, wait>>
  BY DEF Abort
<1>2. UNCHANGED <<session, delivered, rescued, pending_results>>
  BY DEF Abort
<1>3. status[j] # "none" /\ ~IsTerminal(j)
  BY DEF Abort
<1>4. /\ \A i \in Jobs : Handed(i)' = Handed(i)
      /\ \A s \in Sessions :
           /\ Distinct(pending_results'[s])
           /\ \A i \in DOMAIN pending_results'[s] : session[pending_results'[s][i]] = s
      /\ \A s \in Sessions :
           /\ Distinct(pending_tasks[s])
           /\ \A i \in DOMAIN pending_tasks[s] :
                /\ pending_tasks[s][i] \in Jobs /\ Parked(s, pending_tasks[s][i])
                /\ InQueue(pending_tasks[s], pending_tasks[s][i])
  BY <1>2, QueuesAsTheyWere
<1>5. Frames'
  BY <1>1 DEF IInv, Frames
<1>6. CASE IsQueued(j)
  <2>1. /\ MarkJobAborted(j) /\ UNCHANGED <<cancelling, aborting>>
        /\ pending_tasks' = [s \in Sessions |-> Purged(pending_tasks[s], {j})]
    BY <1>6 DEF Abort
  <2>2. pc[j] = "none"
    BY <1>3, <1>6, OfJob DEF IsQueued, LifeOK, Points, Finishing, Terminal
  <2>3. /\ status' = MarkedStatus({j}) /\ published' = MarkedResult({j})
        /\ active' = [i \in Jobs |-> IF i \in {j} THEN "none" ELSE active[i]]
    <3>1. active' = [i \in Jobs |-> IF i = j THEN "none" ELSE active[i]]
      BY <2>1, ReleaseTakes DEF MarkJobAborted, IInv
    <3> QED
      BY <2>1, <3>1 DEF MarkJobAborted
  <2>4. \A s \in Sessions :
          /\ pending_tasks'[s] \in Seq(Jobs) /\ Distinct(pending_tasks'[s])
          /\ \A i \in DOMAIN pending_tasks'[s] :
               pending_tasks'[s][i] \notin {j} /\ InQueue(pending_tasks[s], pending_tasks'[s][i])
          /\ \A i \in Jobs \ {j} : InQueue(pending_tasks[s], i) => InQueue(pending_tasks'[s], i)
    <3> SUFFICES ASSUME NEW s \in Sessions
                 PROVE  /\ pending_tasks'[s] \in Seq(Jobs) /\ Distinct(pending_tasks'[s])
                        /\ \A i \in DOMAIN pending_tasks'[s] :
                             /\ pending_tasks'[s][i] \notin {j}
                             /\ InQueue(pending_tasks[s], pending_tasks'[s][i])
                        /\ \A i \in Jobs \ {j} :
                             InQueue(pending_tasks[s], i) => InQueue(pending_tasks'[s], i)
      OBVIOUS
    <3>1. pending_tasks[s] \in Seq(Jobs) /\ Distinct(pending_tasks[s])
      BY <1>4 DEF IInv, SessionTypes
    <3>2. pending_tasks'[s] = Purged(pending_tasks[s], {j})
      BY <2>1
    <3> QED
      BY <3>1, <3>2, PurgeKeeps
  <2>5. SessionTypes'
    <3>1. pending_tasks' \in [Sessions -> Seq(Jobs)]
      BY <2>1, <2>4
    <3> QED
      BY <1>1, <1>2, <3>1 DEF IInv, SessionTypes
  <2>6. Swept'
    <3>1. \A i \in Jobs : IsTerminal(i) => status'[i] \in Terminal
      BY <2>3 DEF MarkedStatus, IsTerminal
    <3> QED
      BY <1>1, <3>1 DEF IInv, Swept, Frames, IsTerminal
  <2>7. \A i \in Jobs : Awaited(i)' = Awaited(i)
    BY <1>1, <2>1, AwaitedStays
  <2>8. \A i \in Jobs : cancelling'[i] => pc[i] # "none" /\ cancelling[i]
    BY <2>1 DEF IInv, Reservations
  <2>9. cancelling' \in [Jobs -> BOOLEAN] /\ aborting' \subseteq Jobs
    BY <2>1 DEF IInv, JobTypes
  <2> QED
    BY <1>1, <1>3, <1>4, <1>5, <2>2, <2>3, <2>4, <2>5, <2>6, <2>7, <2>8, <2>9, MarkKeeps
<1>7. CASE ~IsQueued(j)
  <2>1. /\ aborting' = aborting \cup {j} /\ cancelling' = [cancelling EXCEPT ![j] = ~TaskDone(j)]
        /\ UNCHANGED <<status, published, active, pending_tasks>>
    BY <1>7 DEF Abort, guardVars
  <2>2. pc[j] # "none"
    BY <1>3, <1>7 DEF IsQueued
  <2>3. /\ status' = MarkedStatus({}) /\ published' = MarkedResult({})
        /\ active' = [i \in Jobs |-> IF i \in {} THEN "none" ELSE active[i]]
    BY <2>1, NoneMarked DEF IInv
  <2>4. SessionTypes' /\ Swept'
    BY <1>1, <1>2, <2>1 DEF IInv, SessionTypes, Swept, IsTerminal
  <2>5. Awaited(j)' /\ \A i \in Jobs : Awaited(i) => Awaited(i)'
    BY <1>1, <2>1 DEF Awaited, Min
  <2>6. cancelling' \in [Jobs -> BOOLEAN] /\ aborting' \subseteq Jobs
    BY <2>1 DEF IInv, JobTypes
  <2>7. \A i \in Jobs : cancelling'[i] => pc[i] # "none" /\ (cancelling[i] \/ Awaited(i)')
    <3>1. \A i \in Jobs : i # j => cancelling'[i] = cancelling[i]
      BY <2>1 DEF IInv, JobTypes
    <3> QED
      BY <2>2, <2>5, <3>1 DEF IInv, Reservations
  <2>8. \A s \in Sessions :
          /\ Distinct(pending_tasks'[s])
          /\ \A i \in DOMAIN pending_tasks'[s] :
               pending_tasks'[s][i] \notin {} /\ InQueue(pending_tasks[s], pending_tasks'[s][i])
          /\ \A i \in Jobs \ {} : InQueue(pending_tasks[s], i) => InQueue(pending_tasks'[s], i)
    BY <1>4, <2>1
  <2> QED
    BY <1>1, <1>4, <1>5, <2>3, <2>4, <2>5, <2>6, <2>7, <2>8, MarkKeeps
<1> QED
  BY <1>6, <1>7

\* The end of an awaited task is settled by whoever waited for it.
LEMMA SettleKeeps ==
  ASSUME BusAssumption, IInv, NEW j \in Jobs, pc[j] = "done",
         \/ MarkJobAborted(j)
         \/ IsTerminal(j) /\ UNCHANGED <<guardVars, status, published>>,
         UNCHANGED <<counter, session, pc, cancelling, current, dispatch>>,
         UNCHANGED <<pending_tasks, pending_results, delivered, rescued>>,
         Frames', aborting' \subseteq Jobs,
         sweep'.jobs = sweep.jobs, sweep'.todo \subseteq sweep.todo,
         sweep.todo \subseteq sweep'.todo \cup {j},
         \A i \in Jobs : i # j => (Awaited(i) => Awaited(i)')
  PROVE  Keeps
<1>1. /\ status' = MarkedStatus({j}) /\ published' = MarkedResult({j})
      /\ active' = [i \in Jobs |-> IF i \in {j} THEN "none" ELSE active[i]]
      /\ status[j] # "none" /\ status'[j] \in Terminal
  BY EndedIsSettled
<1>2. /\ \A i \in Jobs : Handed(i)' = Handed(i)
      /\ \A s \in Sessions :
           /\ Distinct(pending_results'[s])
           /\ \A i \in DOMAIN pending_results'[s] : session[pending_results'[s][i]] = s
      /\ \A s \in Sessions :
           /\ Distinct(pending_tasks[s])
           /\ \A i \in DOMAIN pending_tasks[s] :
                /\ pending_tasks[s][i] \in Jobs /\ Parked(s, pending_tasks[s][i])
                /\ InQueue(pending_tasks[s], pending_tasks[s][i])
  BY QueuesAsTheyWere
<1>3. SessionTypes' /\ cancelling' \in [Jobs -> BOOLEAN]
  BY DEF IInv, SessionTypes, JobTypes
<1>4. Swept'
  <2>1. \A i \in Jobs : IsTerminal(i) => status'[i] \in Terminal
    BY <1>1 DEF MarkedStatus, IsTerminal
  <2>2. sweep.jobs \subseteq Jobs
    BY DEF IInv, Frames
  <2>3. \A i \in sweep'.jobs : status'[i] \in Terminal \/ i \in sweep'.todo
    BY <1>1, <2>1, <2>2 DEF IInv, Swept
  <2>4. \A i \in sweep'.todo : pc'[i] # "none"
    BY DEF IInv, Swept
  <2> QED
    BY <2>3, <2>4 DEF Swept, IsTerminal
<1>5. \A s \in Sessions :
        /\ Distinct(pending_tasks'[s])
        /\ \A i \in DOMAIN pending_tasks'[s] :
             pending_tasks'[s][i] \notin {j} /\ InQueue(pending_tasks[s], pending_tasks'[s][i])
        /\ \A i \in Jobs \ {j} : InQueue(pending_tasks[s], i) => InQueue(pending_tasks'[s], i)
  <2>1. \A s : ~Parked(s, j)
    BY DEF Parked
  <2>2. \A s \in Sessions : \A i \in DOMAIN pending_tasks[s] : pending_tasks[s][i] # j
    BY <1>2, <2>1
  <2> QED
    BY <1>2, <2>2
<1>6. \A i \in Jobs : Awaited(i) => Awaited(i)' \/ (pc[i] = "done" /\ active'[i] = "none")
  BY <1>1
<1>7. \A i \in Jobs : cancelling'[i] => pc[i] # "none" /\ (cancelling[i] \/ Awaited(i)')
  BY DEF IInv, Reservations
<1>8. {j} \subseteq Jobs /\ \A i \in {j} : pc[i] \in {"none", "done"} /\ status[i] # "none"
  BY <1>1
<1> QED
  BY <1>1, <1>2, <1>3, <1>4, <1>5, <1>6, <1>7, <1>8, MarkKeeps

\* abort(), after the task it awaited has ended.
LEMMA AbortDoneKeeps ==
  ASSUME BusAssumption, IInv, NEW j \in Jobs, AbortDone(j)
  PROVE  Keeps
<1>1. UNCHANGED <<counter, session, pc, cancelling, current, dispatch, sweep, clean, wait>>
  BY DEF AbortDone
<1>2. UNCHANGED <<pending_tasks, pending_results, delivered, rescued>>
  BY DEF AbortDone
<1>3. pc[j] = "done" /\ aborting' = aborting \ {j}
  BY DEF AbortDone, TaskDone
<1>4. /\ LifeOK(status[j], published[j], pc[j], active[j]) /\ status[j] \in Statuses
      /\ published[j] = "none" <=> status[j] \notin Terminal
  BY OfJob
<1>5. Frames' /\ aborting' \subseteq Jobs
  BY <1>1, <1>3 DEF IInv, Frames, JobTypes
<1>6. \A i \in Jobs : i # j => (Awaited(i) => Awaited(i)')
  BY <1>1, <1>3 DEF Awaited, Min
<1>7. \/ MarkJobAborted(j)
      \/ IsTerminal(j) /\ UNCHANGED <<guardVars, status, published>>
  <2>1. CASE published[j] = "ok"
    <3>1. status[j] = "completed"
      BY <1>4, <2>1 DEF LifeOK, StatusOf
    <3>2. status' = [status EXCEPT ![j] = "completed"] /\ UNCHANGED <<guardVars, published>>
      BY <2>1 DEF AbortDone
    <3>3. status' = status
      BY <3>1, <3>2 DEF IInv, JobTypes
    <3> QED
      BY <3>1, <3>2, <3>3 DEF IsTerminal, Terminal
  <2>2. CASE published[j] # "ok" /\ status[j] \notin {"completed", "failed"}
    BY <2>2 DEF AbortDone
  <2>3. CASE published[j] # "ok" /\ status[j] \in {"completed", "failed"}
    <3>1. UNCHANGED <<guardVars, status, published>>
      BY <2>3 DEF AbortDone
    <3> QED
      BY <2>3, <3>1 DEF IsTerminal, Terminal
  <2> QED
    BY <2>1, <2>2, <2>3
<1> QED
  BY <1>1, <1>2, <1>3, <1>5, <1>6, <1>7, SettleKeeps

\* cancel_for_parent(): its first pass settles what is queued.
LEMMA SweepStartKeeps ==
  ASSUME BusAssumption, IInv, SweepStart
  PROVE  Keeps
<1>0. PICK S : S = {j \in Unfinished : IsQueued(j)}
  OBVIOUS
<1>1. UNCHANGED <<counter, pc, cancelling, session, current, dispatch, aborting, clean, wait>>
  BY DEF SweepStart
<1>2. UNCHANGED <<session, delivered, rescued, pending_results>> /\ sweep.at = "idle"
  BY DEF SweepStart
<1>3. /\ status' = MarkedStatus(S) /\ published' = MarkedResult(S) /\ ReleaseUnstarted(S)
      /\ pending_tasks' = [s \in Sessions |-> Purged(pending_tasks[s], S)]
      /\ sweep' = [at |-> "run", jobs |-> Unfinished, todo |-> Unfinished \ S]
  BY <1>0 DEF SweepStart
<1>4. S \subseteq Jobs /\ \A j \in S : pc[j] = "none" /\ status[j] # "none"
  <2> SUFFICES ASSUME NEW j \in S PROVE j \in Jobs /\ pc[j] = "none" /\ status[j] # "none"
    OBVIOUS
  <2>1. j \in Jobs /\ status[j] # "none" /\ IsQueued(j)
    BY <1>0 DEF Unfinished
  <2> QED
    BY <2>1, OfJob DEF IsQueued, LifeOK, Points, Finishing, Terminal
<1>5. \A j \in Unfinished \ S : j \in Jobs /\ pc[j] # "none"
  BY <1>0 DEF Unfinished, IsQueued
<1>6. \A j \in Unfinished : j \in Jobs
  BY DEF Unfinished
<1>7. active' = [i \in Jobs |-> IF i \in S THEN "none" ELSE active[i]]
  BY <1>3, UnstartedTakes
<1>8. /\ \A i \in Jobs : Handed(i)' = Handed(i)
      /\ \A s \in Sessions :
           /\ Distinct(pending_results'[s])
           /\ \A i \in DOMAIN pending_results'[s] : session[pending_results'[s][i]] = s
      /\ \A s \in Sessions :
           /\ Distinct(pending_tasks[s])
           /\ \A i \in DOMAIN pending_tasks[s] :
                /\ pending_tasks[s][i] \in Jobs /\ Parked(s, pending_tasks[s][i])
                /\ InQueue(pending_tasks[s], pending_tasks[s][i])
  BY <1>2, QueuesAsTheyWere
<1>9. \A s \in Sessions :
        /\ pending_tasks'[s] \in Seq(Jobs) /\ Distinct(pending_tasks'[s])
        /\ \A i \in DOMAIN pending_tasks'[s] :
             pending_tasks'[s][i] \notin S /\ InQueue(pending_tasks[s], pending_tasks'[s][i])
        /\ \A i \in Jobs \ S : InQueue(pending_tasks[s], i) => InQueue(pending_tasks'[s], i)
  <2> SUFFICES ASSUME NEW s \in Sessions
               PROVE  /\ pending_tasks'[s] \in Seq(Jobs) /\ Distinct(pending_tasks'[s])
                      /\ \A i \in DOMAIN pending_tasks'[s] :
                           /\ pending_tasks'[s][i] \notin S
                           /\ InQueue(pending_tasks[s], pending_tasks'[s][i])
                      /\ \A i \in Jobs \ S :
                           InQueue(pending_tasks[s], i) => InQueue(pending_tasks'[s], i)
    OBVIOUS
  <2>1. pending_tasks[s] \in Seq(Jobs) /\ Distinct(pending_tasks[s])
    BY <1>8 DEF IInv, SessionTypes
  <2>2. pending_tasks'[s] = Purged(pending_tasks[s], S)
    BY <1>3
  <2> QED
    BY <2>1, <2>2, PurgeKeeps
<1>10. SessionTypes'
  <2>1. pending_tasks' \in [Sessions -> Seq(Jobs)]
    BY <1>3, <1>9
  <2> QED
    BY <1>1, <1>2, <2>1 DEF IInv, SessionTypes
<1>11. Frames' /\ cancelling' \in [Jobs -> BOOLEAN] /\ aborting' \subseteq Jobs
  <2>1. sweep' \in [at : {"run"}, todo : SUBSET Jobs, jobs : SUBSET Jobs]
    BY <1>3, <1>5, <1>6
  <2> QED
    BY <1>1, <2>1 DEF IInv, Frames, JobTypes
<1>12. Swept'
  <2>1. \A j \in S : status'[j] \in Terminal
    BY <1>3, <1>4 DEF MarkedStatus, IsTerminal, Terminal
  <2>2. /\ \A i \in sweep'.jobs : status'[i] \in Terminal \/ i \in sweep'.todo
        /\ \A i \in sweep'.todo : pc'[i] # "none"
    BY <1>1, <1>3, <1>5, <2>1
  <2> QED
    BY <2>2 DEF Swept, IsTerminal
<1>13. \A i \in Jobs : Awaited(i) => Awaited(i)'
  BY <1>1, <1>2 DEF Awaited, Min
<1>14. \A i \in Jobs : cancelling'[i] => pc[i] # "none" /\ (cancelling[i] \/ Awaited(i)')
  BY <1>1 DEF IInv, Reservations
<1>15. \A j \in S : pc[j] \in {"none", "done"} /\ status[j] # "none"
  BY <1>4
<1>16. \A i \in Jobs : Awaited(i) => Awaited(i)' \/ (pc[i] = "done" /\ active'[i] = "none")
  BY <1>13
<1>17. status' = MarkedStatus(S) /\ published' = MarkedResult(S) /\ S \subseteq Jobs
  BY <1>3, <1>4
<1> QED
  BY <1>1, <1>7, <1>8, <1>9, <1>10, <1>11, <1>12, <1>14, <1>15, <1>16, <1>17, MarkKeeps

\* Its second pass cancels a task and awaits it, or returns.
LEMMA SweepCancelKeeps ==
  ASSUME BusAssumption, IInv, SweepCancel
  PROVE  Keeps
<1> DEFINE left == {i \in sweep.todo : ~IsTerminal(i)}
<1>0. PICK j : j = Min(left)
  OBVIOUS
<1>1. UNCHANGED <<counter, session, pc, current, dispatch, aborting, clean, wait, pending_tasks>>
  BY DEF SweepCancel
<1>2. UNCHANGED <<session, delivered, rescued, pending_results>> /\ sweep.at = "run"
  BY DEF SweepCancel
<1>3. UNCHANGED <<status, published, active>>
  BY DEF SweepCancel, guardVars
<1>4. /\ sweep \in [at : {"idle", "run", "await"}, todo : SUBSET Jobs, jobs : SUBSET Jobs]
      /\ left \subseteq Jobs /\ \A i \in left : pc[i] # "none"
      /\ \A i \in sweep.jobs : IsTerminal(i) \/ i \in left
  BY DEF IInv, Frames, Swept
<1>5. \/ /\ left # {} /\ cancelling' = [cancelling EXCEPT ![j] = ~TaskDone(j)]
         /\ sweep' = [sweep EXCEPT !.at = "await", !.todo = left]
      \/ sweep' = Idle /\ cancelling' = cancelling
  BY <1>0 DEF SweepCancel
<1>6. left # {} => j \in left
  <2>1. Jobs \subseteq Nat
    BY DEF Jobs
  <2> HIDE DEF left
  <2> QED
    BY <1>0, <1>4, <2>1, LeastIsMin
<1> HIDE DEF left
<1>7. \A i \in Jobs : Awaited(i) => Awaited(i)'
  BY <1>1, <1>2 DEF Awaited, Min
<1>8. left # {} /\ sweep' = [sweep EXCEPT !.at = "await", !.todo = left] => Awaited(j)'
  <2> SUFFICES ASSUME left # {}, sweep' = [sweep EXCEPT !.at = "await", !.todo = left]
               PROVE  Awaited(j)'
    OBVIOUS
  <2>1. sweep'.at = "await" /\ sweep'.todo = left
    BY <1>4
  <2>2. Min(sweep.todo)' = j
    BY <1>0, <2>1 DEF Min
  <2> QED
    BY <2>1, <2>2 DEF Awaited
<1>9. cancelling' \in [Jobs -> BOOLEAN] /\ aborting' \subseteq Jobs
  BY <1>1, <1>5 DEF IInv, JobTypes
<1>10. \A i \in Jobs : cancelling'[i] => pc[i] # "none" /\ (cancelling[i] \/ Awaited(i)')
  <2>1. \A i \in Jobs : cancelling[i] => pc[i] # "none"
    BY DEF IInv, Reservations
  <2>2. CASE sweep' = Idle /\ cancelling' = cancelling
    BY <2>1, <2>2
  <2>3. CASE /\ left # {} /\ cancelling' = [cancelling EXCEPT ![j] = ~TaskDone(j)]
             /\ sweep' = [sweep EXCEPT !.at = "await", !.todo = left]
    <3>1. \A i \in Jobs : i # j => cancelling'[i] = cancelling[i]
      BY <2>3 DEF IInv, JobTypes
    <3> QED
      BY <1>4, <1>6, <1>8, <2>1, <2>3, <3>1
  <2> QED
    BY <1>5, <2>2, <2>3
<1>11. Frames' /\ Swept'
  <2>1. /\ sweep' \in [at : {"idle", "run", "await"}, todo : SUBSET Jobs, jobs : SUBSET Jobs]
        /\ sweep'.at = "await" => sweep'.todo # {}
        /\ sweep'.todo \in {left, {}} /\ sweep'.jobs \in {sweep.jobs, {}}
        /\ sweep'.todo = left \/ sweep'.jobs = {}
    <3>1. CASE sweep' = Idle
      BY <3>1 DEF Idle
    <3>2. CASE left # {} /\ sweep' = [sweep EXCEPT !.at = "await", !.todo = left]
      BY <1>4, <3>2
    <3> QED
      BY <1>5, <3>1, <3>2
  <2>2. \A i \in sweep'.jobs : status'[i] \in Terminal \/ i \in sweep'.todo
    BY <1>3, <1>4, <2>1 DEF IsTerminal
  <2>3. \A i \in sweep'.todo : pc'[i] # "none"
    BY <1>1, <1>4, <2>1
  <2>4. Swept'
    BY <2>2, <2>3 DEF Swept, IsTerminal
  <2> QED
    BY <1>1, <2>1, <2>4 DEF IInv, Frames
<1>12. /\ status' = MarkedStatus({}) /\ published' = MarkedResult({})
       /\ active' = [i \in Jobs |-> IF i \in {} THEN "none" ELSE active[i]]
  BY <1>3, NoneMarked DEF IInv
<1>13. /\ \A i \in Jobs : Handed(i)' = Handed(i)
       /\ \A s \in Sessions :
            /\ Distinct(pending_results'[s])
            /\ \A i \in DOMAIN pending_results'[s] : session[pending_results'[s][i]] = s
       /\ \A s \in Sessions :
            /\ Distinct(pending_tasks[s])
            /\ \A i \in DOMAIN pending_tasks[s] :
                 /\ pending_tasks[s][i] \in Jobs /\ Parked(s, pending_tasks[s][i])
                 /\ InQueue(pending_tasks[s], pending_tasks[s][i])
  BY <1>2, QueuesAsTheyWere
<1>14. \A s \in Sessions :
         /\ Distinct(pending_tasks'[s])
         /\ \A i \in DOMAIN pending_tasks'[s] :
              pending_tasks'[s][i] \notin {} /\ InQueue(pending_tasks[s], pending_tasks'[s][i])
         /\ \A i \in Jobs \ {} : InQueue(pending_tasks[s], i) => InQueue(pending_tasks'[s], i)
  BY <1>1, <1>13
<1>15. SessionTypes'
  BY <1>1, <1>2 DEF IInv, SessionTypes
<1> QED
  BY <1>1, <1>7, <1>9, <1>10, <1>11, <1>12, <1>13, <1>14, <1>15, MarkKeeps

\* The task it awaited has ended.
LEMMA SweepAwaitedKeeps ==
  ASSUME BusAssumption, IInv, SweepAwaited
  PROVE  Keeps
<1>0. PICK j : j = Min(sweep.todo)
  OBVIOUS
<1>1. UNCHANGED <<counter, session, pc, cancelling, current, dispatch, aborting, clean, wait>>
  BY DEF SweepAwaited
<1>2. UNCHANGED <<pending_tasks, pending_results, delivered, rescued>>
  BY DEF SweepAwaited
<1>3. /\ sweep \in [at : {"idle", "run", "await"}, todo : SUBSET Jobs, jobs : SUBSET Jobs]
      /\ sweep.at = "await" /\ sweep.todo # {}
  BY DEF IInv, Frames, SweepAwaited
<1>4. /\ pc[j] = "done"
      /\ sweep' = [sweep EXCEPT !.at = "run", !.todo = @ \ {j}]
      /\ \/ MarkJobAborted(j)
         \/ IsTerminal(j) /\ UNCHANGED <<guardVars, status, published>>
  BY <1>0 DEF SweepAwaited, TaskDone
<1>5. j \in Jobs
  <2>1. sweep.todo \subseteq Nat
    BY <1>3 DEF Jobs
  <2> QED
    BY <1>0, <1>3, <2>1, LeastIsMin
<1>6. /\ sweep' \in [at : {"run"}, todo : SUBSET Jobs, jobs : SUBSET Jobs]
      /\ sweep'.jobs = sweep.jobs /\ sweep'.todo = sweep.todo \ {j}
  BY <1>3, <1>4
<1>7. Frames' /\ aborting' \subseteq Jobs
  BY <1>1, <1>6 DEF IInv, Frames, JobTypes
<1>8. \A i \in Jobs : i # j => (Awaited(i) => Awaited(i)')
  BY <1>0, <1>1 DEF Awaited, Min
<1>9. sweep'.todo \subseteq sweep.todo /\ sweep.todo \subseteq sweep'.todo \cup {j}
  BY <1>6
<1> QED
  BY <1>1, <1>2, <1>4, <1>5, <1>6, <1>7, <1>8, <1>9, SettleKeeps

\* So it is with cleanup_task(), whose session then goes.
LEMMA CleanAwaitedKeeps ==
  ASSUME BusAssumption, IInv, CleanAwaited
  PROVE  Keeps
<1>1. UNCHANGED <<counter, session, pc, cancelling, current, dispatch, aborting, sweep, wait>>
  BY DEF CleanAwaited
<1>2. UNCHANGED <<pending_tasks, pending_results, delivered, rescued>>
  BY DEF CleanAwaited
<1>3. clean \in [at : {"idle", "run", "await", "drop"}, todo : SUBSET Sessions, jobs : SUBSET Jobs]
  BY DEF IInv, Frames
<1>4. \E j \in clean.jobs :
        /\ pc[j] = "done" /\ clean.at = "await"
        /\ clean' = [clean EXCEPT !.at = "drop", !.jobs = {}]
        /\ \/ MarkJobAborted(j)
           \/ IsTerminal(j) /\ UNCHANGED <<guardVars, status, published>>
  BY DEF CleanAwaited, TaskDone
<1>5. PICK j \in clean.jobs :
        /\ pc[j] = "done" /\ clean.at = "await"
        /\ clean' = [clean EXCEPT !.at = "drop", !.jobs = {}]
        /\ \/ MarkJobAborted(j)
           \/ IsTerminal(j) /\ UNCHANGED <<guardVars, status, published>>
  BY <1>4
<1>6. j \in Jobs
  BY <1>3
<1>7. /\ clean' \in [at : {"drop"}, todo : SUBSET Sessions, jobs : {{}}]
      /\ clean'.todo = clean.todo /\ clean'.jobs = {}
  BY <1>3, <1>5
<1>8. Frames' /\ aborting' \subseteq Jobs
  BY <1>1, <1>5, <1>7 DEF IInv, Frames, JobTypes
<1>9. \A i \in Jobs : i # j => (Awaited(i) => Awaited(i)')
  <2>1. \A i \in clean.jobs : i = j
    BY DEF IInv, Frames
  <2> QED
    BY <1>1, <2>1 DEF Awaited, Min
<1> QED
  BY <1>1, <1>2, <1>5, <1>6, <1>8, <1>9, SettleKeeps

\* cleanup_task() empties the queue of a session and cancels its current job.
LEMMA CleanSessionKeeps ==
  ASSUME BusAssumption, IInv, CleanSession
  PROVE  Keeps
<1>0. PICK s : s = Min(clean.todo)
  OBVIOUS
<1>1. PICK j, S : j = current[s] /\ S = ToSet(pending_tasks[s])
  OBVIOUS
<1>2. UNCHANGED <<counter, pc, session, current, dispatch, aborting, sweep, wait, delivered>>
  BY DEF CleanSession
<1>3. clean.at = "run" /\ clean.todo # {} /\ Rescue(s) /\ ReleaseUnstarted(S)
  BY <1>0, <1>1 DEF CleanSession
<1>4. /\ status' = MarkedStatus(S) /\ published' = MarkedResult(S)
      /\ pending_tasks' = [pending_tasks EXCEPT ![s] = <<>>]
  BY <1>0, <1>1 DEF CleanSession
<1>5. \/ /\ SessionBusy(s) /\ cancelling' = [cancelling EXCEPT ![j] = ~TaskDone(j)]
         /\ clean' = [clean EXCEPT !.at = "await", !.jobs = {j}]
      \/ clean' = [clean EXCEPT !.at = "drop"] /\ cancelling' = cancelling
  BY <1>0, <1>1 DEF CleanSession
<1>6. /\ clean \in [at : {"idle", "run", "await", "drop"}, todo : SUBSET Sessions, jobs : SUBSET Jobs]
      /\ \A i, k \in clean.jobs : i = k
  BY DEF IInv, Frames
<1>7. s \in Sessions
  <2>1. clean.todo \subseteq Nat /\ clean.todo \subseteq Sessions
    BY <1>6 DEF BusAssumption
  <2> QED
    BY <1>0, <1>3, <2>1, LeastIsMin
<1>8. \A t \in Sessions :
        /\ pending_tasks[t] \in Seq(Jobs) /\ Distinct(pending_tasks[t])
        /\ \A i \in DOMAIN pending_tasks[t] :
             pending_tasks[t][i] \in Jobs /\ Parked(t, pending_tasks[t][i])
  <2>1. \A t \in Sessions : pending_tasks[t] \in Seq(Jobs)
    BY DEF IInv, SessionTypes
  <2> QED
    BY <2>1 DEF IInv, Queues
<1>9. /\ S \subseteq Jobs /\ \A i : i \in S <=> InQueue(pending_tasks[s], i)
      /\ \A i \in S : Parked(s, i)
  <2>1. \A i : i \in S <=> InQueue(pending_tasks[s], i)
    BY <1>1 DEF ToSet, InQueue
  <2> QED
    BY <1>7, <1>8, <2>1 DEF InQueue
<1>10. \A i \in S : pc[i] \in {"none", "done"} /\ status[i] # "none"
  BY <1>9 DEF Parked
<1>11. active' = [i \in Jobs |-> IF i \in S THEN "none" ELSE active[i]]
  BY <1>3, UnstartedTakes
<1>12. /\ pending_results' \in [Sessions -> Seq(Jobs)] /\ rescued' \subseteq Jobs
       /\ \A i \in Jobs : Handed(i)' = Handed(i)
       /\ \A t \in Sessions :
            /\ Distinct(pending_results'[t])
            /\ \A i \in DOMAIN pending_results'[t] : session[pending_results'[t][i]] = t
  BY <1>2, <1>3, <1>7, RescueMoves DEF IInv
<1>13. /\ pending_tasks' \in [Sessions -> Seq(Jobs)]
       /\ \A t \in Sessions : pending_tasks'[t] = IF t = s THEN <<>> ELSE pending_tasks[t]
  <2>1. pending_tasks \in [Sessions -> Seq(Jobs)]
    BY DEF IInv, SessionTypes
  <2>2. <<>> \in Seq(Jobs)
    OBVIOUS
  <2> QED
    BY <1>4, <2>1, <2>2
<1>14. SessionTypes'
  BY <1>2, <1>12, <1>13 DEF IInv, SessionTypes
<1>15. \A t \in Sessions :
         /\ Distinct(pending_tasks'[t])
         /\ \A i \in DOMAIN pending_tasks'[t] :
              pending_tasks'[t][i] \notin S /\ InQueue(pending_tasks[t], pending_tasks'[t][i])
         /\ \A i \in Jobs \ S : InQueue(pending_tasks[t], i) => InQueue(pending_tasks'[t], i)
  <2> SUFFICES ASSUME NEW t \in Sessions
               PROVE  /\ Distinct(pending_tasks'[t])
                      /\ \A i \in DOMAIN pending_tasks'[t] :
                           /\ pending_tasks'[t][i] \notin S
                           /\ InQueue(pending_tasks[t], pending_tasks'[t][i])
                      /\ \A i \in Jobs \ S : InQueue(pending_tasks[t], i) => InQueue(pending_tasks'[t], i)
    OBVIOUS
  <2>1. CASE t = s
    BY <1>9, <1>13, <2>1 DEF Distinct
  <2>2. CASE t # s
    <3>1. pending_tasks'[t] = pending_tasks[t]
      BY <1>13, <2>2
    <3>2. \A i \in DOMAIN pending_tasks[t] : pending_tasks[t][i] \notin S
      BY <1>8, <1>9, <2>2 DEF Parked
    <3> QED
      BY <1>8, <3>1, <3>2 DEF InQueue
  <2> QED
    BY <2>1, <2>2
<1>16. SessionBusy(s) => j \in Jobs /\ pc[j] # "none"
  <2> SUFFICES ASSUME SessionBusy(s) PROVE j \in Jobs /\ pc[j] # "none"
    OBVIOUS
  <2>1. j # NoJob /\ j \in Jobs
    BY <1>1, <1>7 DEF SessionBusy, IInv, SessionTypes
  <2> QED
    BY <1>1, <1>7, <2>1, OfCurrent DEF IInv
<1>17. /\ clean' \in [at : {"await", "drop"}, todo : SUBSET Sessions, jobs : SUBSET Jobs]
       /\ clean'.todo = clean.todo /\ clean'.jobs \in {clean.jobs, {j}}
       /\ SessionBusy(s) /\ clean'.at = "await" => clean'.jobs = {j}
  <2>1. CASE SessionBusy(s) /\ clean' = [clean EXCEPT !.at = "await", !.jobs = {j}]
    BY <1>6, <1>16, <2>1
  <2>2. CASE clean' = [clean EXCEPT !.at = "drop"]
    BY <1>6, <2>2
  <2> QED
    BY <1>5, <2>1, <2>2
<1>18. Frames' /\ aborting' \subseteq Jobs
  BY <1>2, <1>3, <1>6, <1>17 DEF IInv, Frames, JobTypes
<1>19. cancelling' \in [Jobs -> BOOLEAN]
  BY <1>5 DEF IInv, JobTypes
<1>20. Swept'
  <2>1. \A i \in Jobs : IsTerminal(i) => status'[i] \in Terminal
    BY <1>4 DEF MarkedStatus, IsTerminal
  <2> QED
    BY <1>2, <2>1 DEF IInv, Swept, Frames, IsTerminal
<1>21. \A i \in Jobs : Awaited(i) => Awaited(i)' \/ (pc[i] = "done" /\ active'[i] = "none")
  BY <1>2, <1>3 DEF Awaited, Min
<1>22. \A i \in Jobs : cancelling'[i] => pc[i] # "none" /\ (cancelling[i] \/ Awaited(i)')
  <2>1. \A i \in Jobs : cancelling[i] => pc[i] # "none"
    BY DEF IInv, Reservations
  <2>2. CASE cancelling' = cancelling
    BY <2>1, <2>2
  <2>3. CASE /\ SessionBusy(s) /\ cancelling' = [cancelling EXCEPT ![j] = ~TaskDone(j)]
             /\ clean' = [clean EXCEPT !.at = "await", !.jobs = {j}]
    <3>1. clean'.at = "await" /\ clean'.jobs = {j}
      BY <1>6, <2>3
    <3>2. Awaited(j)'
      BY <3>1 DEF Awaited
    <3>3. \A i \in Jobs : i # j => cancelling'[i] = cancelling[i]
      BY <2>3 DEF IInv, JobTypes
    <3> QED
      BY <1>16, <2>1, <2>3, <3>2, <3>3
  <2> QED
    BY <1>5, <2>2, <2>3
<1>23. status' = MarkedStatus(S) /\ published' = MarkedResult(S) /\ S \subseteq Jobs
  BY <1>4, <1>9
<1> QED
  BY <1>2, <1>10, <1>11, <1>12, <1>14, <1>15, <1>18, <1>19, <1>20, <1>21, <1>22, <1>23, MarkKeeps

\* The reconciliation of wait_any_session: a current job whose task has ended
\* without its finally block gets its result published now.
LEMMA ReconcileKeeps ==
  ASSUME BusAssumption, IInv, NEW phase \in {"drain1", "drain2"}, ReconcileTerminalSessionJobs(phase)
  PROVE  Keeps
<1>0. PICK D, S : D = Dead /\ S = {current[s] : s \in D}
  OBVIOUS
<1>1. UNCHANGED <<counter, session, pc, cancelling, dispatch, aborting, sweep, clean>>
  BY DEF ReconcileTerminalSessionJobs, callVars
<1>2. UNCHANGED <<pending_tasks, delivered, rescued>> /\ ReleaseUnstarted(S)
  BY <1>0 DEF ReconcileTerminalSessionJobs
<1>3. /\ current' = [s \in Sessions |-> IF s \in D THEN NoJob ELSE current[s]]
      /\ wait' = [at |-> phase, todo |-> D, jobs |-> {}]
      /\ pending_results' =
           [s \in Sessions |-> IF s \in D /\ current[s] \notin ToSet(pending_results[s])
                               THEN Append(pending_results[s], current[s])
                               ELSE pending_results[s]]
  BY <1>0 DEF ReconcileTerminalSessionJobs
<1>4. \A s \in D :
        /\ s \in Sessions /\ current[s] \in Jobs /\ pc[current[s]] = "done"
        /\ session[current[s]] = s /\ Handed(current[s]) = 0 /\ current[s] \in S
  <2> SUFFICES ASSUME NEW s \in D
               PROVE  /\ s \in Sessions /\ current[s] \in Jobs /\ pc[current[s]] = "done"
                      /\ session[current[s]] = s /\ Handed(current[s]) = 0 /\ current[s] \in S
    OBVIOUS
  <2>1. s \in Sessions /\ current[s] # NoJob /\ pc[current[s]] = "done" /\ current[s] \in S
    BY <1>0 DEF Dead, TaskDone
  <2>2. current[s] \in Jobs
    BY <2>1 DEF IInv, SessionTypes
  <2> QED
    BY <2>1, <2>2 DEF IInv, Currents
<1>5. \A j \in S : \E s \in D : j = current[s]
  BY <1>0
<1>6. /\ S \subseteq Jobs
      /\ \A j \in S : pc[j] = "done" /\ session[j] \in D /\ current[session[j]] = j /\ Handed(j) = 0
  BY <1>4, <1>5
<1>7. \A s \in D : current[s] \notin ToSet(pending_results[s])
  <2> SUFFICES ASSUME NEW s \in D, current[s] \in ToSet(pending_results[s]) PROVE FALSE
    OBVIOUS
  <2>1. PICK c \in Jobs : c = current[s]
    BY <1>4
  <2>2. session[c] = s /\ Handed(c) = 0 /\ s # NoSession /\ delivered[c] \in Nat
    BY <1>4, <2>1 DEF BusAssumption, NoSession, IInv, SessionTypes
  <2>3. InQueue(pending_results[s], c)
    BY <2>1 DEF ToSet, InQueue
  <2>4. Pending(c)
    BY <2>2, <2>3 DEF Pending
  <2> QED
    BY <2>2, <2>4 DEF Handed
<1>8. \A j \in S : status[j] # "none" /\ (published[j] # "none" => status[j] = StatusOf(published[j]))
                   /\ (published[j] = "none" <=> ~IsTerminal(j))
  <2> SUFFICES ASSUME NEW j \in S
               PROVE  /\ status[j] # "none"
                      /\ published[j] # "none" => status[j] = StatusOf(published[j])
                      /\ published[j] = "none" <=> ~IsTerminal(j)
    OBVIOUS
  <2>1. j \in Jobs /\ pc[j] = "done"
    BY <1>6
  <2> QED
    BY <2>1, OfJob DEF LifeOK, IsTerminal, Terminal
<1>9. published' = MarkedResult(S)
  <2>1. published' = [j \in Jobs |-> IF j \in {i \in S : published[i] = "none"} THEN "aborted"
                                     ELSE published[j]]
    BY <1>0 DEF ReconcileTerminalSessionJobs
  <2> QED
    BY <1>8, <2>1 DEF MarkedResult
<1>10. status' = MarkedStatus(S)
  <2>1. status' = [j \in Jobs |-> IF j \in S
                     THEN StatusOf(IF j \in {i \in S : published[i] = "none"} THEN "aborted"
                                   ELSE published[j])
                     ELSE status[j]]
    BY <1>0 DEF ReconcileTerminalSessionJobs
  <2>2. StatusOf("aborted") = "aborted"
    BY DEF StatusOf
  <2> QED
    BY <1>8, <2>1, <2>2 DEF MarkedStatus
<1>11. active' = [i \in Jobs |-> IF i \in S THEN "none" ELSE active[i]]
  BY <1>2, UnstartedTakes
<1>12. \A j \in S : pc[j] \in {"none", "done"} /\ status[j] # "none"
  BY <1>6, <1>8
<1>13. /\ Lives' /\ Steady
       /\ status' \in [Jobs -> Statuses] /\ published' \in [Jobs -> Results]
       /\ active' \in [Jobs -> {"none", "reserved", "acquired"}]
  BY <1>1, <1>6, <1>9, <1>10, <1>11, <1>12, MarkedOK DEF IInv
<1>14. JobTypes'
  BY <1>1, <1>13 DEF IInv, JobTypes
<1>15. /\ \A t \in Sessions : pending_results[t] \in Seq(Jobs)
       /\ \A t \in Sessions :
            pending_results'[t] = IF t \in D THEN Append(pending_results[t], current[t])
                                  ELSE pending_results[t]
       /\ pending_results' \in [Sessions -> Seq(Jobs)]
  <2>1. \A t \in Sessions : pending_results[t] \in Seq(Jobs)
    BY DEF IInv, SessionTypes
  <2>2. \A t \in D : Append(pending_results[t], current[t]) \in Seq(Jobs)
    <3> SUFFICES ASSUME NEW t \in D PROVE Append(pending_results[t], current[t]) \in Seq(Jobs)
      OBVIOUS
    <3>1. pending_results[t] \in Seq(Jobs) /\ current[t] \in Jobs
      BY <1>4, <2>1
    <3> QED
      BY <3>1
  <2>3. pending_results' = [t \in Sessions |-> IF t \in D THEN Append(pending_results[t], current[t])
                                               ELSE pending_results[t]]
    BY <1>3, <1>7
  <2> QED
    BY <2>1, <2>2, <2>3
<1>16. SessionTypes'
  <2>1. current' \in [Sessions -> Jobs \cup {NoJob}]
    BY <1>3 DEF IInv, SessionTypes
  <2> QED
    BY <1>2, <1>15, <2>1 DEF IInv, SessionTypes
<1>17. Frames'
  <2>1. wait' \in [at : {"drain1", "drain2"}, todo : SUBSET Sessions, jobs : SUBSET Jobs]
    BY <1>3, <1>4
  <2> QED
    BY <1>1, <2>1 DEF IInv, Frames
<1>18. Queues'
  <2>1. \A j \in Jobs : pc[j] = "none" => j \notin S
    BY <1>6
  <2>2. \A j \in Jobs : j \notin S => status'[j] = status[j]
    BY <1>10 DEF MarkedStatus
  <2> QED
    BY <1>1, <1>2, <2>1, <2>2, QueuesStay DEF IInv
<1>19. \A j \in Jobs : Handed(j)' = IF j \in S THEN 1 ELSE Handed(j)
  <2> SUFFICES ASSUME NEW j \in Jobs PROVE Handed(j)' = IF j \in S THEN 1 ELSE Handed(j)
    OBVIOUS
  <2>1. delivered[j] \in Nat /\ session[j] \in Sessions \cup {NoSession} /\ \A t \in Sessions : t # NoSession
    BY DEF IInv, SessionTypes, JobTypes, BusAssumption, NoSession
  <2>2. CASE j \in S
    <3>1. session[j] \in D /\ session[j] \in Sessions /\ current[session[j]] = j /\ Handed(j) = 0
      BY <1>4, <1>6, <2>2
    <3>2. pending_results'[session[j]] = Append(pending_results[session[j]], j)
      BY <1>15, <3>1
    <3>3. InQueue(Append(pending_results[session[j]], j), j)
      BY <1>15, <3>1, AppendHas
    <3>4. Pending(j)'
      BY <1>1, <2>1, <3>1, <3>2, <3>3 DEF Pending
    <3>5. delivered[j] = 0 /\ j \notin rescued
      BY <2>1, <3>1 DEF Handed
    <3> QED
      BY <1>2, <2>2, <3>4, <3>5 DEF Handed
  <2>3. CASE j \notin S
    <3>1. ASSUME NEW t \in Sessions
          PROVE  InQueue(pending_results'[t], j) <=> InQueue(pending_results[t], j)
      <4>1. CASE t \in D
        <5>1. current[t] \in Jobs /\ current[t] # j
          BY <1>4, <2>3, <4>1
        <5>2. InQueue(Append(pending_results[t], current[t]), j) <=> InQueue(pending_results[t], j)
          BY <1>15, <5>1, AppendHas
        <5> QED
          BY <1>15, <4>1, <5>2
      <4>2. CASE t \notin D
        BY <1>15, <4>2
      <4> QED
        BY <4>1, <4>2
    <3>2. Pending(j)' <=> Pending(j)
      BY <1>1, <2>1, <3>1 DEF Pending
    <3> QED
      BY <1>2, <2>3, <3>2 DEF Handed
  <2> QED
    BY <2>2, <2>3
<1>20. Publication'
  <2>1. ASSUME NEW j \in Jobs
        PROVE  /\ Handed(j)' <= 1
               /\ pc'[j] \in Early \/ session'[j] = NoSession => Handed(j)' = 0
               /\ pc'[j] \in Finishing => Handed(j)' = 1
    <3>1. CASE j \in S
      <4>1. pc[j] = "done" /\ session[j] \in D /\ session[j] # NoSession
        BY <1>4, <1>6, <3>1 DEF BusAssumption, NoSession
      <4> QED
        BY <1>1, <1>19, <3>1, <4>1 DEF Early
    <3>2. CASE j \notin S
      BY <1>1, <1>19, <3>2 DEF IInv, Publication, Early
    <3> QED
      BY <3>1, <3>2
  <2>2. ASSUME NEW t \in Sessions
        PROVE  /\ Distinct(pending_results'[t])
               /\ \A i \in DOMAIN pending_results'[t] : session[pending_results'[t][i]] = t
    <3>1. /\ Distinct(pending_results[t]) /\ pending_results[t] \in Seq(Jobs)
          /\ \A i \in DOMAIN pending_results[t] : session[pending_results[t][i]] = t
      BY <1>15 DEF IInv, Publication
    <3>2. CASE t \notin D
      BY <1>15, <3>1, <3>2
    <3>3. CASE t \in D
      <4>1. PICK c, q : c = current[t] /\ q = pending_results[t]
        OBVIOUS
      <4>2. /\ q \in Seq(Jobs) /\ c \in Jobs /\ pending_results'[t] = Append(q, c)
            /\ \A i \in DOMAIN q : q[i] # c
        BY <1>4, <1>7, <1>15, <3>1, <3>3, <4>1 DEF ToSet
      <4>3. /\ DOMAIN pending_results'[t] = 1..(Len(q) + 1) /\ pending_results'[t][Len(q) + 1] = c
            /\ \A k \in 1..Len(q) : pending_results'[t][k] = q[k]
            /\ DOMAIN q = 1..Len(q) /\ Len(q) \in Nat
        BY <4>2
      <4>4. \A k \in 1..(Len(q) + 1) : k \in 1..Len(q) \/ k = Len(q) + 1
        BY <4>3
      <4>5. Distinct(pending_results'[t])
        BY <3>1, <4>1, <4>2, <4>3, <4>4 DEF Distinct
      <4>6. session[c] = t
        BY <1>4, <3>3, <4>1
      <4> QED
        BY <3>1, <4>1, <4>3, <4>4, <4>5, <4>6
    <3> QED
      BY <3>2, <3>3
  <2>3. \A t \in Sessions :
          /\ Distinct(pending_results[t])'
          /\ \A i \in DOMAIN pending_results'[t] : session'[pending_results'[t][i]] = t
    BY <1>1, <2>2 DEF Distinct
  <2> QED
    BY <2>1, <2>3 DEF Publication, Early
<1>21. Currents'
  <2> SUFFICES ASSUME NEW t \in Sessions, NEW c \in Jobs, current'[t] = c
               PROVE  /\ session'[c] = t
                      /\ pc'[c] \notin {"none", "trim", "drain", "handoff"}
                      /\ pc'[c] = "done" => Handed(c)' = 0
    BY <1>16, CurrentsHold
  <2>1. t \notin D /\ current[t] = c
    BY <1>3 DEF NoJob, Jobs
  <2>2. /\ session[c] = t /\ pc[c] \notin {"none", "trim", "drain", "handoff"}
        /\ pc[c] = "done" => Handed(c) = 0
    BY <2>1, OfCurrent DEF IInv
  <2>3. c \notin S
    BY <1>6, <2>1, <2>2
  <2> QED
    BY <1>1, <1>19, <2>2, <2>3
<1>22. Dispatches'
  BY <1>1, DispatchesStay DEF IInv
<1>23. Reservations'
  <2>1. \A j \in Jobs : Awaited(j)' = Awaited(j)
    BY <1>1, AwaitedStays
  <2>2. \A j \in Jobs : active'[j] # "none" => active[j] # "none"
    BY <1>11
  <2> QED
    BY <1>1, <1>2, <2>1, <2>2, ReservationsStay DEF IInv
<1>24. Swept'
  BY <1>1, <1>13, SweptStays DEF IInv
<1> QED
  BY <1>13, <1>14, <1>16, <1>17, <1>18, <1>20, <1>21, <1>22, <1>23, <1>24 DEF IInv, Keeps

\* wait_any_session, called and woken, and after its drains.
LEMMA WaitStepsKeep ==
  ASSUME BusAssumption, IInv, WaitCall \/ WaitDrained \/ WaitWake
  PROVE  Keeps
<1>1. CASE ReconcileTerminalSessionJobs("drain1")
  BY <1>1, ReconcileKeeps
<1>2. CASE WaitWake
  BY <1>2, ReconcileKeeps DEF WaitWake
<1>3. CASE WaitCall /\ ~ReconcileTerminalSessionJobs("drain1")
  <2>1. CASE Ready # {}
    <3>1. PopReadyResult /\ wait' = wait
          /\ UNCHANGED <<guardVars, counter, jobVars, session, current, pending_tasks,
                         dispatch, callVars, rescued>>
      BY <1>3, <2>1 DEF WaitCall
    <3> QED
      BY <2>1, <3>1, PopKeeps
  <2>2. CASE Ready = {}
    <3>1. WaitBegins /\ UNCHANGED <<guardVars, counter, jobVars, session, current, pending_tasks,
                                    pending_results, dispatch, callVars, delivered, rescued>>
      BY <1>3, <2>2 DEF WaitCall
    <3> QED
      BY <3>1, WaitKeeps
  <2> QED
    BY <2>1, <2>2
<1>4. CASE WaitDrained
  <2>1. UNCHANGED <<guardVars, counter, jobVars, session, current, pending_tasks,
                    dispatch, callVars, rescued>>
    BY <1>4 DEF WaitDrained
  <2>2. CASE Ready # {}
    <3>1. PopReadyResult /\ wait' = Idle
      BY <1>4, <2>2 DEF WaitDrained, WaitReturns
    <3> QED
      BY <2>1, <2>2, <3>1, PopKeeps
  <2>3. CASE Ready = {}
    <3>1. (WaitBegins \/ WaitReturns) /\ UNCHANGED <<delivered, pending_results>>
      BY <1>4, <2>3 DEF WaitDrained
    <3> QED
      BY <2>1, <3>1, WaitKeeps
  <2> QED
    BY <2>2, <2>3
<1> QED
  BY <1>1, <1>2, <1>3, <1>4

-----------------------------------------------------------------------------
(* Dispatching *)

\* The frame of wait_any_session.
WaitFrame == [at : {"idle", "wait", "drain1", "drain2", "handoff1", "handoff2"},
              todo : SUBSET Sessions, jobs : SUBSET Jobs]

\* What OwnerResumes does, whether or not the dispatch raised.
Resumes(by, pcs) ==
  /\ pc' = IF by \in Jobs THEN [pcs EXCEPT ![by] = "done"] ELSE pcs
  /\ wait' \in {wait, Idle, [wait EXCEPT !.at = IF @ = "handoff1" THEN "drain1" ELSE "drain2"]}

\* A coroutine that handed over ends; the waiter goes on or returns.
LEMMA ResumeTakes ==
  ASSUME IInv, NEW by \in Owners, NEW pcs, pcs \in [Jobs -> Points], Resumes(by, pcs)
  PROVE  /\ pc' \in [Jobs -> Points] /\ wait' \in WaitFrame
         /\ \A i \in Jobs : pc'[i] = IF i = by THEN "done" ELSE pcs[i]
<1>1. "done" \in Points
  BY DEF Points
<1>2. wait \in WaitFrame
  BY DEF IInv, Frames, WaitFrame
<1>3. wait' \in {wait, Idle, [wait EXCEPT !.at = IF @ = "handoff1" THEN "drain1" ELSE "drain2"]}
  BY DEF Resumes
<1>4. Idle \in WaitFrame
  BY DEF Idle, WaitFrame
<1>5. [wait EXCEPT !.at = IF @ = "handoff1" THEN "drain1" ELSE "drain2"] \in WaitFrame
  BY <1>2 DEF WaitFrame
<1>6. pc' = IF by \in Jobs THEN [pcs EXCEPT ![by] = "done"] ELSE pcs
  BY DEF Resumes
<1>7. pc' \in [Jobs -> Points] /\ \A i \in Jobs : pc'[i] = IF i = by THEN "done" ELSE pcs[i]
  BY <1>1, <1>6
<1> QED
  BY <1>2, <1>3, <1>4, <1>5, <1>7

\* A dispatch comes to its end, one way or the other.
LEMMA OwnerKeeps ==
  ASSUME BusAssumption, IInv, NEW by,
         \A i \in Jobs : pc'[i] = IF i = by THEN "done" ELSE pc[i],
         by \in Jobs => pc[by] \in {"drain", "handoff", "done"},
         JobTypes', SessionTypes', wait' \in WaitFrame, Queues', Steady,
         UNCHANGED <<counter, session, cancelling, aborting, sweep, clean>>,
         UNCHANGED <<pending_results, delivered, rescued>>,
         \A i \in Jobs : LifeOK(status'[i], published'[i], pc[i], active'[i]),
         \A i \in Jobs : status[i] = "none" => status'[i] = "none",
         \A s \in Sessions : current'[s] \in {current[s], NoJob},
         \A i \in Jobs : dispatch'[i] \in {dispatch[i], NoDispatch},
         \A i \in Jobs : active'[i] # "none" => active[i] # "none",
         \A i \in Jobs : Awaited(i) => Awaited(i)' \/ (pc[i] = "done" /\ active'[i] = "none"),
         \A i \in Jobs, s \in Sessions :
           InQueue(pending_tasks[s], i) /\ active'[i] # "none" => InQueue(pending_tasks'[s], i)
  PROVE  Keeps
<1>1. Frames'
  BY DEF IInv, Frames, WaitFrame
<1>2. \A i \in Jobs : LifeOK(status'[i], published'[i], pc'[i], active'[i])
  <2> SUFFICES ASSUME NEW i \in Jobs PROVE LifeOK(status'[i], published'[i], pc'[i], active'[i])
    OBVIOUS
  <2>1. LifeOK(status'[i], published'[i], pc[i], active'[i])
    OBVIOUS
  <2>2. CASE i # by
    BY <2>1, <2>2
  <2>3. CASE i = by
    <3>1. pc[i] \in {"drain", "handoff", "done"} /\ pc'[i] = "done"
      BY <2>3
    <3> QED
      BY <2>1, <3>1 DEF LifeOK, Finishing, Terminal
  <2> QED
    BY <2>2, <2>3
<1>3. Lives'
  <2>1. \A i \in Jobs : i > counter' => status'[i] = "none" /\ session'[i] = NoSession
    BY DEF IInv, Lives
  <2>2. \A i \in Jobs : pc'[i] \in Finishing => pc[i] \in Finishing
    BY DEF Finishing
  <2>3. \A i \in Jobs : pc'[i] \in Finishing => session'[i] # NoSession
    BY <2>2 DEF IInv, Lives
  <2> QED
    BY <1>2, <2>1, <2>3 DEF Lives
<1>4. \A i \in Jobs : /\ pc'[i] \in Early => pc[i] \in Early
                      /\ pc'[i] \in Finishing => pc[i] \in Finishing
                      /\ pc'[i] = "none" => pc[i] = "none"
  BY DEF Early, Finishing
<1>5. Publication'
  BY <1>4, PublicationStays DEF IInv
<1>6. Currents'
  BY CurrentsStay DEF IInv
<1>7. Dispatches'
  <2> SUFFICES ASSUME NEW i \in Jobs, dispatch'[i].at # "none"
               PROVE  /\ pc'[i] # "none"
                      /\ dispatch'[i].by \in Jobs => pc'[dispatch'[i].by] \in {"handoff", "done"}
    BY DEF Dispatches
  <2>1. dispatch'[i] = dispatch[i]
    BY DEF NoDispatch
  <2>2. pc[i] # "none" /\ (dispatch[i].by \in Jobs => pc[dispatch[i].by] \in {"handoff", "done"})
    BY <2>1 DEF IInv, Dispatches
  <2> QED
    BY <1>4, <2>1, <2>2
<1>8. Reservations'
  <2> SUFFICES ASSUME NEW i \in Jobs
               PROVE  /\ cancelling'[i] => pc'[i] # "none"
                      /\ cancelling'[i] /\ pc'[i] \in {"new", "gate"} => Awaited(i)'
                      /\ active'[i] # "none" =>
                           /\ pc'[i] = "done" => Awaited(i)'
                           /\ pc'[i] = "none" => \E t \in Sessions : InQueue(pending_tasks'[t], i)
    BY DEF Reservations, InQueue
  <2>1. /\ cancelling[i] => pc[i] # "none"
        /\ cancelling[i] /\ pc[i] \in {"new", "gate"} => Awaited(i)
        /\ active[i] # "none" =>
             /\ pc[i] = "done" => Awaited(i)
             /\ pc[i] = "none" => \E s \in Sessions : InQueue(pending_tasks[s], i)
    BY DEF IInv, Reservations
  <2>2. CASE i # by \/ pc[i] = "done"
    BY <2>1, <2>2
  <2>3. CASE i = by /\ pc[i] # "done"
    <3>1. pc[i] \in {"drain", "handoff"} /\ pc'[i] = "done"
      BY <2>3
    <3>2. active'[i] = "none"
      BY <3>1 DEF LifeOK, Finishing
    <3> QED
      BY <3>1, <3>2
  <2> QED
    BY <2>2, <2>3
<1>9. Swept'
  BY <1>4, SweptStays DEF IInv
<1> QED
  BY <1>1, <1>3, <1>5, <1>6, <1>7, <1>8, <1>9 DEF IInv, Keeps

\* A dispatch returns.
LEMMA DispatchDoneKeeps ==
  ASSUME BusAssumption, IInv, NEW j \in Jobs, DispatchDone(j)
  PROVE  Keeps
<1>1. PICK by : by = dispatch[j].by
  OBVIOUS
<1>2. /\ dispatch[j].at = "emitting" /\ dispatch' = [dispatch EXCEPT ![j] = NoDispatch]
      /\ Resumes(by, pc)
  BY <1>1 DEF DispatchDone, OwnerResumes, Resumes
<1>3. UNCHANGED <<counter, status, published, session, cancelling, active, aborting, sweep, clean>>
  BY DEF DispatchDone, callVars, guardVars
<1>4. UNCHANGED <<current, pending_tasks, pending_results, delivered, rescued>>
  BY DEF DispatchDone
<1>5. by \in Owners /\ (by \in Jobs => pc[by] \in {"handoff", "done"})
  BY <1>1, <1>2 DEF IInv, JobTypes, Dispatches
<1>6. pc \in [Jobs -> Points]
  BY DEF IInv, JobTypes
<1>7. /\ pc' \in [Jobs -> Points] /\ wait' \in WaitFrame
      /\ \A i \in Jobs : pc'[i] = IF i = by THEN "done" ELSE pc[i]
  BY <1>2, <1>5, <1>6, ResumeTakes
<1>8. /\ \A i \in Jobs : dispatch'[i] \in {dispatch[i], NoDispatch}
      /\ \A i \in Jobs : i # j => dispatch'[i] = dispatch[i]
      /\ dispatch' \in [Jobs -> [by : Owners, at : {"none", "emitting", "reaping"}]]
  BY <1>2 DEF IInv, JobTypes, NoDispatch, Owners
<1>9. JobTypes' /\ SessionTypes'
  BY <1>3, <1>4, <1>7, <1>8 DEF IInv, JobTypes, SessionTypes
<1>10. Queues'
  BY <1>3, <1>4, <1>5, <1>7, QueuesStay DEF IInv
<1>11. \A i \in Jobs : Awaited(i) => Awaited(i)'
  BY <1>2, <1>3, <1>8 DEF Awaited, Min
<1>12. Steady /\ \A i \in Jobs : LifeOK(status'[i], published'[i], pc[i], active'[i])
  BY <1>3 DEF Steady, IInv, Lives
<1> QED
  BY <1>3, <1>4, <1>5, <1>7, <1>8, <1>9, <1>10, <1>11, <1>12, OwnerKeeps

\* A dispatch fails: its child is cancelled.
LEMMA DispatchFailKeeps ==
  ASSUME BusAssumption, IInv, NEW j \in Jobs, DispatchFail(j)
  PROVE  Keeps
<1>1. PICK by : by = dispatch[j].by
  OBVIOUS
<1>2. /\ dispatch[j].at = "emitting" /\ dispatch' = [dispatch EXCEPT ![j].at = "reaping"]
      /\ cancelling' = [i \in Jobs |-> IF i = j THEN ~TaskDone(j)
                                       ELSE IF i = by THEN FALSE ELSE cancelling[i]]
  BY <1>1 DEF DispatchFail
<1>3. UNCHANGED <<counter, status, published, session, pc, active, aborting, sweep, clean, wait>>
  BY DEF DispatchFail, callVars, guardVars
<1>4. UNCHANGED <<current, pending_tasks, pending_results, delivered, rescued>>
  BY DEF DispatchFail
<1>5. /\ \A i \in Jobs : i # j => dispatch'[i] = dispatch[i]
      /\ dispatch'[j].at = "reaping" /\ dispatch'[j].by = dispatch[j].by
      /\ dispatch' \in [Jobs -> [by : Owners, at : {"none", "emitting", "reaping"}]]
  BY <1>2 DEF IInv, JobTypes
<1>6. cancelling' \in [Jobs -> BOOLEAN] /\ \A i \in Jobs : i # j => (cancelling'[i] => cancelling[i])
  BY <1>2 DEF IInv, JobTypes, TaskDone
<1>7. JobTypes' /\ SessionTypes' /\ Frames'
  BY <1>3, <1>4, <1>5, <1>6 DEF IInv, JobTypes, SessionTypes, Frames
<1>8. Lives' /\ Steady
  BY <1>3 DEF IInv, Lives, Steady, LifeOK
<1>9. Queues' /\ Publication' /\ Currents'
  BY <1>3, <1>4, QueuesStay, PublicationStays, CurrentsStay DEF IInv
<1>10. Dispatches'
  BY <1>2, <1>3, <1>5 DEF IInv, Dispatches
<1>11. Reservations'
  <2>1. Awaited(j)' /\ \A i \in Jobs : Awaited(i) => Awaited(i)'
    BY <1>3, <1>5 DEF Awaited, Min
  <2>2. pc[j] # "none"
    BY <1>2 DEF IInv, Dispatches
  <2> SUFFICES ASSUME NEW i \in Jobs
               PROVE  /\ cancelling'[i] => pc'[i] # "none"
                      /\ cancelling'[i] /\ pc'[i] \in {"new", "gate"} => Awaited(i)'
                      /\ active'[i] # "none" =>
                           /\ pc'[i] = "done" => Awaited(i)'
                           /\ pc'[i] = "none" => \E t \in Sessions : InQueue(pending_tasks'[t], i)
    BY DEF Reservations, InQueue
  <2>3. CASE i = j
    BY <1>3, <2>1, <2>2, <2>3
  <2>4. CASE i # j
    BY <1>3, <1>4, <1>6, <2>1, <2>4 DEF IInv, Reservations
  <2> QED
    BY <2>3, <2>4
<1>12. Swept'
  BY <1>3, <1>8, SweptStays DEF IInv
<1> QED
  BY <1>7, <1>8, <1>9, <1>10, <1>11, <1>12 DEF IInv, Keeps

\* The child of a failed dispatch has ended: its entry is settled.
LEMMA ReapedKeeps ==
  ASSUME BusAssumption, IInv, NEW j \in Jobs, Reaped(j)
  PROVE  Keeps
<1>1. PICK by : by = dispatch[j].by
  OBVIOUS
<1>2. /\ dispatch[j].at = "reaping" /\ dispatch' = [dispatch EXCEPT ![j] = NoDispatch]
      /\ pc[j] = "done" /\ MarkJobAborted(j) /\ Resumes(by, pc)
      /\ current' = [current EXCEPT ![session[j]] = IF @ = j THEN NoJob ELSE @]
  BY <1>1 DEF Reaped, OwnerResumes, Resumes, TaskDone
<1>3. UNCHANGED <<counter, session, cancelling, aborting, sweep, clean>>
  BY DEF Reaped, callVars
<1>4. UNCHANGED <<pending_tasks, pending_results, delivered, rescued>>
  BY DEF Reaped
<1>5. by \in Owners /\ (by \in Jobs => pc[by] \in {"handoff", "done"})
  BY <1>1, <1>2 DEF IInv, JobTypes, Dispatches
<1>6. pc \in [Jobs -> Points]
  BY DEF IInv, JobTypes
<1>7. /\ pc' \in [Jobs -> Points] /\ wait' \in WaitFrame
      /\ \A i \in Jobs : pc'[i] = IF i = by THEN "done" ELSE pc[i]
  BY <1>2, <1>5, <1>6, ResumeTakes
<1>8. /\ \A i \in Jobs : dispatch'[i] \in {dispatch[i], NoDispatch}
      /\ \A i \in Jobs : i # j => dispatch'[i] = dispatch[i]
      /\ dispatch' \in [Jobs -> [by : Owners, at : {"none", "emitting", "reaping"}]]
  BY <1>2 DEF IInv, JobTypes, NoDispatch, Owners
<1>9. /\ status' = MarkedStatus({j}) /\ published' = MarkedResult({j})
      /\ active' = [i \in Jobs |-> IF i \in {j} THEN "none" ELSE active[i]]
      /\ status[j] # "none"
  BY <1>2, EndedIsSettled
<1>10. {j} \subseteq Jobs /\ \A i \in {j} : pc[i] \in {"none", "done"} /\ status[i] # "none"
  BY <1>2, <1>9
<1>11. /\ \A i \in Jobs : LifeOK(status'[i], published'[i], pc[i], active'[i])
       /\ \A i \in Jobs : status[i] = "none" => status'[i] = "none"
       /\ status' \in [Jobs -> Statuses] /\ published' \in [Jobs -> Results]
       /\ active' \in [Jobs -> {"none", "reserved", "acquired"}] /\ Steady
  <2>1. PICK S : S = {j}
    OBVIOUS
  <2>2. /\ status' = MarkedStatus(S) /\ published' = MarkedResult(S) /\ S \subseteq Jobs
        /\ active' = [i \in Jobs |-> IF i \in S THEN "none" ELSE active[i]]
        /\ \A i \in S : pc[i] \in {"none", "done"} /\ status[i] # "none"
    BY <1>9, <1>10, <2>1
  <2>3. JobTypes /\ Lives
    BY DEF IInv
  <2> QED
    BY <2>2, <2>3, MarkedLives
<1>12. JobTypes'
  BY <1>3, <1>7, <1>8, <1>11 DEF IInv, JobTypes
<1>13. SessionTypes' /\ \A s \in Sessions : current'[s] \in {current[s], NoJob}
  <2>1. current \in [Sessions -> Jobs \cup {NoJob}]
    BY DEF IInv, SessionTypes
  <2>2. /\ current' \in [Sessions -> Jobs \cup {NoJob}]
        /\ \A s \in Sessions : current'[s] \in {current[s], NoJob}
    BY <1>2, <2>1
  <2> QED
    BY <1>4, <2>2 DEF IInv, SessionTypes
<1>14. Queues'
  <2>1. \A i \in Jobs : i # j => status'[i] = status[i]
    BY <1>9 DEF MarkedStatus
  <2> QED
    BY <1>2, <1>3, <1>4, <1>5, <1>7, <2>1, QueuesStay DEF IInv
<1>15. \A i \in Jobs : Awaited(i) => Awaited(i)' \/ (pc[i] = "done" /\ active'[i] = "none")
  <2>1. \A i \in Jobs : i # j => (Awaited(i) => Awaited(i)')
    BY <1>3, <1>8 DEF Awaited, Min
  <2> QED
    BY <1>2, <1>9, <2>1
<1>16. \A i \in Jobs : active'[i] # "none" => active[i] # "none"
  BY <1>9
<1> QED
  BY <1>3, <1>4, <1>5, <1>7, <1>8, <1>11, <1>12, <1>13, <1>14, <1>15, <1>16, OwnerKeeps

\* What is at the front of a session's queue.
LEMMA QueueHead ==
  ASSUME BusAssumption, IInv, NEW s \in Sessions
  PROVE  /\ pending_tasks[s] \in Seq(Jobs) /\ DropAborted(pending_tasks[s]) = pending_tasks[s]
         /\ pending_tasks[s] # <<>> =>
              \E j \in Jobs, r \in Seq(Jobs) :
                /\ j = Head(pending_tasks[s]) /\ r = Tail(pending_tasks[s])
                /\ Parked(s, j) /\ Distinct(r)
                /\ \A i : InQueue(r, i) <=> InQueue(pending_tasks[s], i) /\ i # j
<1>1. PICK q : q = pending_tasks[s]
  OBVIOUS
<1>2. q \in Seq(Jobs) /\ Distinct(q) /\ \A i \in DOMAIN q : Parked(s, q[i])
  BY <1>1 DEF IInv, SessionTypes, Queues
<1>3. DropAborted(q) = q
  BY <1>2, NothingToDrop DEF Parked
<1>4. CASE q # <<>>
  <2>1. /\ Head(q) \in Jobs /\ InQueue(q, Head(q)) /\ Tail(q) \in Seq(Jobs) /\ Distinct(Tail(q))
        /\ \A i : InQueue(Tail(q), i) <=> InQueue(q, i) /\ i # Head(q)
    BY <1>2, <1>4, TailTakes
  <2>2. Parked(s, Head(q))
    BY <1>2, <2>1 DEF InQueue
  <2> QED
    BY <1>1, <1>2, <1>3, <2>1, <2>2
<1> QED
  BY <1>1, <1>2, <1>3, <1>4

\* _drain_session_queue: the first queued job gets its task, or, when the
\* trimmer raises, leaves the queue without a reservation.
LEMMA DispatchNextKeeps ==
  ASSUME BusAssumption, IInv, NEW s \in Sessions, NEW by \in Jobs \cup {Waiter},
         by \in Jobs => pc[by] = "drain",
         NEW pcs \in [Jobs -> Points], \A i \in Jobs : pcs[i] = IF i = by THEN "handoff" ELSE pc[i],
         DispatchNext(s, by, pcs),
         UNCHANGED <<counter, published, session, cancelling, aborting, sweep, clean>>,
         UNCHANGED <<pending_results, delivered, rescued>>
  PROVE  Keeps
<1>1. pending_tasks[s] # <<>> /\ pending_tasks[s] \in Seq(Jobs)
  BY QueueHead DEF DispatchNext
<1>2. PICK j \in Jobs, r \in Seq(Jobs) :
        /\ j = Head(pending_tasks[s]) /\ r = Tail(pending_tasks[s])
        /\ Parked(s, j) /\ Distinct(r)
        /\ \A i : InQueue(r, i) <=> InQueue(pending_tasks[s], i) /\ i # j
  BY <1>1, QueueHead
<1>3. DropAborted(pending_tasks[s]) = pending_tasks[s]
  BY QueueHead
<1>4. pending_tasks' = [pending_tasks EXCEPT ![s] = r]
  BY <1>2, <1>3 DEF DispatchNext
<1>5. \/ /\ DispatchTask(s, j, by) /\ pc' = [pcs EXCEPT ![j] = "new"] /\ active' = active
         /\ wait' \in {wait, [wait EXCEPT !.at = IF @ = "drain1" THEN "handoff1" ELSE "handoff2",
                                          !.todo = @ \ {s}]}
      \/ G!Release(j) /\ Resumes(by, pcs) /\ UNCHANGED <<status, current, dispatch>>
  BY <1>2, <1>3 DEF DispatchNext, guardVars, OwnerResumes, Resumes
<1>6. /\ session[j] = s /\ pc[j] = "none" /\ status[j] = "queued" /\ j # by
      /\ by \in Owners /\ s # NoSession
  BY <1>2 DEF Parked, Owners, BusAssumption, NoSession
<1>7. /\ published[j] = "none" /\ LifeOK(status[j], published[j], pc[j], active[j])
      /\ cancelling[j] = FALSE /\ Handed(j) = 0 /\ dispatch[j].at = "none"
  <2>1. /\ LifeOK(status[j], published[j], pc[j], active[j])
        /\ published[j] = "none" <=> status[j] \notin Terminal
    BY OfJob
  <2>2. published[j] = "none"
    BY <1>6, <2>1 DEF Terminal
  <2>3. cancelling[j] = FALSE
    BY <1>6 DEF IInv, Reservations, JobTypes
  <2>4. Handed(j) = 0
    BY <1>6 DEF IInv, Publication
  <2>5. dispatch[j].at = "none"
    BY <1>6 DEF IInv, Dispatches
  <2> QED
    BY <2>1, <2>2, <2>3, <2>4, <2>5
<1>8. /\ pending_tasks' \in [Sessions -> Seq(Jobs)]
      /\ \A t \in Sessions : pending_tasks'[t] = IF t = s THEN r ELSE pending_tasks[t]
  <2>1. pending_tasks \in [Sessions -> Seq(Jobs)]
    BY DEF IInv, SessionTypes
  <2> QED
    BY <1>4, <2>1
<1>9. \A t \in Sessions :
        /\ Distinct(pending_tasks[t]) /\ pending_tasks[t] \in Seq(Jobs)
        /\ \A i \in DOMAIN pending_tasks[t] : Parked(t, pending_tasks[t][i])
  BY DEF IInv, Queues, SessionTypes
<1>10. \A t \in Sessions :
         /\ Distinct(pending_tasks'[t])
         /\ \A i \in DOMAIN pending_tasks'[t] :
              /\ InQueue(pending_tasks[t], pending_tasks'[t][i])
              /\ pending_tasks'[t][i] \in Jobs /\ pending_tasks'[t][i] # j
         /\ \A i \in Jobs : InQueue(pending_tasks[t], i) /\ i # j => InQueue(pending_tasks'[t], i)
  <2> SUFFICES ASSUME NEW t \in Sessions
               PROVE  /\ Distinct(pending_tasks'[t])
                      /\ \A i \in DOMAIN pending_tasks'[t] :
                           /\ InQueue(pending_tasks[t], pending_tasks'[t][i])
                           /\ pending_tasks'[t][i] \in Jobs /\ pending_tasks'[t][i] # j
                      /\ \A i \in Jobs : InQueue(pending_tasks[t], i) /\ i # j =>
                                           InQueue(pending_tasks'[t], i)
    OBVIOUS
  <2>1. CASE t = s
    <3>1. \A i \in DOMAIN r : InQueue(r, r[i]) /\ r[i] \in Jobs
      BY DEF InQueue
    <3> QED
      BY <1>2, <1>8, <2>1, <3>1
  <2>2. CASE t # s
    <3>1. pending_tasks'[t] = pending_tasks[t]
      BY <1>8, <2>2
    <3>2. \A i \in DOMAIN pending_tasks[t] :
            /\ InQueue(pending_tasks[t], pending_tasks[t][i])
            /\ pending_tasks[t][i] \in Jobs /\ Parked(t, pending_tasks[t][i])
      BY <1>9 DEF InQueue
    <3> QED
      BY <1>6, <1>9, <2>2, <3>1, <3>2 DEF Parked
  <2> QED
    BY <2>1, <2>2
<1>11. \A t \in Sessions : \A i \in DOMAIN pending_tasks'[t] : pending_tasks'[t][i] # by
  <2> SUFFICES ASSUME NEW t \in Sessions, NEW i \in DOMAIN pending_tasks'[t], pending_tasks'[t][i] = by
               PROVE  FALSE
    OBVIOUS
  <2>1. InQueue(pending_tasks[t], by) /\ by \in Jobs
    BY <1>10
  <2>2. Parked(t, by)
    BY <1>9, <2>1 DEF InQueue
  <2> QED
    BY <2>1, <2>2 DEF Parked
<1>12. CASE G!Release(j) /\ Resumes(by, pcs) /\ UNCHANGED <<status, current, dispatch>>
  <2>1. active' = [i \in Jobs |-> IF i = j THEN "none" ELSE active[i]]
    BY <1>12, ReleaseTakes DEF IInv
  <2>2. /\ pc' \in [Jobs -> Points] /\ wait' \in WaitFrame
        /\ \A i \in Jobs : pc'[i] = IF i = by THEN "done" ELSE pcs[i]
    BY <1>6, <1>12, ResumeTakes
  <2>3. \A i \in Jobs : pc'[i] = IF i = by THEN "done" ELSE pc[i]
    BY <2>2
  <2>4. JobTypes' /\ SessionTypes'
    <3>1. active' \in [Jobs -> {"none", "reserved", "acquired"}]
      BY <2>1 DEF IInv, JobTypes
    <3> QED
      BY <1>8, <1>12, <2>2, <3>1 DEF IInv, JobTypes, SessionTypes
  <2>5. Steady
    BY <1>12 DEF Steady
  <2>6. \A i \in Jobs : LifeOK(status'[i], published'[i], pc[i], active'[i])
    <3> SUFFICES ASSUME NEW i \in Jobs PROVE LifeOK(status'[i], published'[i], pc[i], active'[i])
      OBVIOUS
    <3>1. LifeOK(status[i], published[i], pc[i], active[i]) /\ active'[i] \in {active[i], "none"}
      BY <2>1 DEF IInv, Lives
    <3> QED
      BY <1>12, <3>1 DEF LifeOK
  <2>7. Queues'
    <3>1. \A t \in Sessions : \A i \in DOMAIN pending_tasks'[t] :
            \E k \in Jobs : /\ k = pending_tasks'[t][i]
                            /\ pc'[k] = pc[k] /\ status'[k] = status[k] /\ session'[k] = session[k]
      BY <1>10, <1>11, <1>12, <2>3
    <3> QED
      BY <1>10, <3>1, QueuesShrink DEF IInv
  <2>8. \A i \in Jobs : Awaited(i) => Awaited(i)'
    BY <1>12 DEF Awaited, Min
  <2>9. \A i \in Jobs : active'[i] # "none" => active[i] # "none" /\ i # j
    BY <2>1
  <2>10. \A i \in Jobs, t \in Sessions :
           InQueue(pending_tasks[t], i) /\ active'[i] # "none" => InQueue(pending_tasks'[t], i)
    BY <1>10, <2>9
  <2> QED
    BY <1>12, <2>2, <2>3, <2>4, <2>5, <2>6, <2>7, <2>8, <2>9, <2>10, OwnerKeeps
<1>13. CASE /\ DispatchTask(s, j, by) /\ pc' = [pcs EXCEPT ![j] = "new"] /\ active' = active
            /\ wait' \in {wait, [wait EXCEPT !.at = IF @ = "drain1" THEN "handoff1" ELSE "handoff2",
                                             !.todo = @ \ {s}]}
  <2>1. /\ status' = [status EXCEPT ![j] = "submitted"] /\ current' = [current EXCEPT ![s] = j]
        /\ dispatch' = [dispatch EXCEPT ![j] = [by |-> by, at |-> "emitting"]]
    BY <1>13 DEF DispatchTask
  <2>2. /\ pc' \in [Jobs -> Points] /\ pc'[j] = "new" /\ (by \in Jobs => pc'[by] = "handoff")
        /\ \A i \in Jobs : i # j /\ i # by => pc'[i] = pc[i]
    BY <1>6, <1>13 DEF Points
  <2>3. /\ status' \in [Jobs -> Statuses] /\ status'[j] = "submitted"
        /\ \A i \in Jobs : i # j => status'[i] = status[i]
    BY <2>1 DEF IInv, JobTypes, Statuses, Busy
  <2>4. /\ dispatch' \in [Jobs -> [by : Owners, at : {"none", "emitting", "reaping"}]]
        /\ dispatch'[j] = [by |-> by, at |-> "emitting"]
        /\ \A i \in Jobs : i # j => dispatch'[i] = dispatch[i]
    BY <1>6, <2>1 DEF IInv, JobTypes
  <2>5. /\ current' \in [Sessions -> Jobs \cup {NoJob}] /\ current'[s] = j
        /\ \A t \in Sessions : t # s => current'[t] = current[t]
    BY <2>1 DEF IInv, SessionTypes
  <2>6. JobTypes' /\ SessionTypes'
    BY <1>8, <1>13, <2>2, <2>3, <2>4, <2>5 DEF IInv, JobTypes, SessionTypes
  <2>7. Frames'
    <3>1. wait' \in WaitFrame
      <4>1. wait \in WaitFrame
        BY DEF IInv, Frames, WaitFrame
      <4>2. [wait EXCEPT !.at = IF @ = "drain1" THEN "handoff1" ELSE "handoff2",
                         !.todo = @ \ {s}] \in WaitFrame
        BY <4>1 DEF WaitFrame
      <4> QED
        BY <1>13, <4>1, <4>2
    <3> QED
      BY <3>1 DEF IInv, Frames, WaitFrame
  <2>8. Steady
    BY <1>6, <2>3 DEF Steady, IsTerminal, Terminal
  <2>9. Lives'
    <3>1. LifeOK(status'[j], published'[j], pc'[j], active'[j])
      BY <1>7, <1>13, <2>2, <2>3 DEF LifeOK, Finishing, Terminal
    <3>2. ASSUME NEW i \in Jobs, i # j PROVE LifeOK(status'[i], published'[i], pc'[i], active'[i])
      <4>1. LifeOK(status[i], published[i], pc[i], active[i])
        BY DEF IInv, Lives
      <4>2. CASE i = by
        BY <1>13, <2>2, <2>3, <3>2, <4>1, <4>2 DEF LifeOK, Finishing
      <4>3. CASE i # by
        BY <1>13, <2>2, <2>3, <3>2, <4>1, <4>3
      <4> QED
        BY <4>2, <4>3
    <3>3. \A i \in Jobs : i > counter' => status'[i] = "none" /\ session'[i] = NoSession
      BY <1>6, <2>3 DEF IInv, Lives
    <3>4. \A i \in Jobs : pc'[i] \in Finishing => session'[i] # NoSession
      <4>1. by \in Jobs => session[by] # NoSession
        BY DEF IInv, Lives, Finishing
      <4> QED
        BY <1>6, <2>2, <4>1 DEF IInv, Lives
    <3> QED
      BY <3>1, <3>2, <3>3, <3>4 DEF Lives
  <2>10. Queues'
    <3>1. \A t \in Sessions : \A i \in DOMAIN pending_tasks'[t] :
            \E k \in Jobs : /\ k = pending_tasks'[t][i]
                            /\ pc'[k] = pc[k] /\ status'[k] = status[k] /\ session'[k] = session[k]
      BY <1>10, <1>11, <2>2, <2>3
    <3> QED
      BY <1>10, <3>1, QueuesShrink DEF IInv
  <2>11. Publication'
    <3>1. \A i \in Jobs : /\ pc'[i] \in Early => pc[i] \in Early
                          /\ pc'[i] \in Finishing => pc[i] \in Finishing
      <4>1. ASSUME NEW i \in Jobs
            PROVE  /\ pc'[i] \in Early => pc[i] \in Early
                   /\ pc'[i] \in Finishing => pc[i] \in Finishing
        <5>1. CASE i = j
          BY <1>6, <2>2, <5>1 DEF Early, Finishing
        <5>2. CASE i # j /\ i = by
          BY <2>2, <5>2 DEF Early, Finishing
        <5>3. CASE i # j /\ i # by
          BY <2>2, <5>3
        <5> QED
          BY <5>1, <5>2, <5>3
      <4> QED
        BY <4>1
    <3> QED
      BY <3>1, PublicationStays DEF IInv
  <2>12. Currents'
    <3> SUFFICES ASSUME NEW t \in Sessions, NEW c \in Jobs, current'[t] = c
                 PROVE  /\ session'[c] = t
                        /\ pc'[c] \notin {"none", "trim", "drain", "handoff"}
                        /\ pc'[c] = "done" => Handed(c)' = 0
      BY <2>6, CurrentsHold
    <3>1. CASE t = s
      BY <1>6, <2>2, <2>5, <3>1
    <3>2. CASE t # s
      <4>1. current[t] = c
        BY <2>5, <3>2
      <4>2. /\ session[c] = t /\ pc[c] \notin {"none", "trim", "drain", "handoff"}
            /\ pc[c] = "done" => Handed(c) = 0
        BY <4>1, OfCurrent DEF IInv
      <4>3. c # j /\ c # by
        BY <1>6, <4>2
      <4>4. Handed(c)' = Handed(c)
        BY HandedStays
      <4> QED
        BY <2>2, <4>2, <4>3, <4>4
    <3> QED
      BY <3>1, <3>2
  <2>13. Dispatches'
    <3> SUFFICES ASSUME NEW i \in Jobs, dispatch'[i].at # "none"
                 PROVE  /\ pc'[i] # "none"
                        /\ dispatch'[i].by \in Jobs => pc'[dispatch'[i].by] \in {"handoff", "done"}
      BY DEF Dispatches
    <3>1. CASE i = j
      BY <2>2, <2>4, <3>1
    <3>2. CASE i # j
      <4>1. /\ pc[i] # "none" /\ dispatch'[i] = dispatch[i]
            /\ dispatch[i].by \in Jobs => pc[dispatch[i].by] \in {"handoff", "done"}
        BY <2>4, <3>2 DEF IInv, Dispatches
      <4>2. dispatch[i].by \in Jobs => dispatch[i].by # j
        BY <1>6, <4>1
      <4>3. pc'[i] # "none"
        BY <2>2, <3>2, <4>1
      <4> QED
        BY <2>2, <4>1, <4>2, <4>3
    <3> QED
      BY <3>1, <3>2
  <2>14. Reservations'
    <3>1. \A i \in Jobs : i # j => Awaited(i)' = Awaited(i)
      BY <2>4 DEF Awaited, Min
    <3> SUFFICES ASSUME NEW i \in Jobs
                 PROVE  /\ cancelling'[i] => pc'[i] # "none"
                        /\ cancelling'[i] /\ pc'[i] \in {"new", "gate"} => Awaited(i)'
                        /\ active'[i] # "none" =>
                             /\ pc'[i] = "done" => Awaited(i)'
                             /\ pc'[i] = "none" => \E t \in Sessions : InQueue(pending_tasks'[t], i)
      BY DEF Reservations, InQueue
    <3>2. CASE i = j
      BY <1>7, <2>2, <3>2
    <3>3. CASE i # j /\ i = by
      BY <2>2, <3>3
    <3>4. CASE i # j /\ i # by
      <4>1. /\ cancelling[i] => pc[i] # "none"
            /\ cancelling[i] /\ pc[i] \in {"new", "gate"} => Awaited(i)
            /\ active[i] # "none" =>
                 /\ pc[i] = "done" => Awaited(i)
                 /\ pc[i] = "none" => \E t \in Sessions : InQueue(pending_tasks[t], i)
        BY DEF IInv, Reservations
      <4> QED
        BY <1>10, <1>13, <2>2, <3>1, <3>4, <4>1
    <3> QED
      BY <3>2, <3>3, <3>4
  <2>15. Swept'
    <3>1. \A i \in Jobs : pc'[i] = "none" => pc[i] = "none"
      BY <2>2
    <3> QED
      BY <2>8, <3>1, SweptStays DEF IInv
  <2> QED
    BY <2>6, <2>7, <2>8, <2>9, <2>10, <2>11, <2>12, <2>13, <2>14, <2>15 DEF IInv, Keeps
<1> QED
  BY <1>5, <1>12, <1>13

\* A task's last step: it hands over to the next task of its session, or ends.
LEMMA DrainKeeps ==
  ASSUME BusAssumption, IInv, NEW j \in Jobs, Drain(j)
  PROVE  Keeps
<1>1. PICK s \in Sessions : s = session[j]
  BY OfJob DEF Drain, Finishing
<1>2. pc[j] = "drain" /\ pc \in [Jobs -> Points] /\ j \in Owners
  BY DEF Drain, IInv, JobTypes, Owners
<1>3. UNCHANGED <<counter, published, session, cancelling, aborting, sweep, clean>>
  BY DEF Drain, callVars
<1>4. UNCHANGED <<pending_results, delivered, rescued>>
  BY DEF Drain
<1>5. CASE DispatchNext(session[j], j, [pc EXCEPT ![j] = "handoff"])
  <2>1. PICK pcs : pcs = [pc EXCEPT ![j] = "handoff"]
    OBVIOUS
  <2>2. pcs \in [Jobs -> Points] /\ \A i \in Jobs : pcs[i] = IF i = j THEN "handoff" ELSE pc[i]
    BY <1>2, <2>1 DEF Points, Finishing
  <2>3. DispatchNext(s, j, pcs)
    BY <1>1, <1>5, <2>1
  <2> QED
    BY <1>2, <1>3, <1>4, <2>2, <2>3, DispatchNextKeeps
<1>6. CASE ~DispatchNext(session[j], j, [pc EXCEPT ![j] = "handoff"])
  <2>1. /\ DropAborted(pending_tasks[s]) = <<>> /\ pending_tasks' = [pending_tasks EXCEPT ![s] = <<>>]
        /\ Resumes(j, pc) /\ UNCHANGED <<active, status, current, dispatch>>
    BY <1>1, <1>6 DEF Drain, OwnerResumes, Resumes, guardVars
  <2>2. pending_tasks' = pending_tasks
    <3>1. pending_tasks[s] = <<>> /\ pending_tasks \in [Sessions -> Seq(Jobs)]
      BY <2>1, QueueHead DEF IInv, SessionTypes
    <3> QED
      BY <2>1, <3>1
  <2>3. /\ pc' \in [Jobs -> Points] /\ wait' \in WaitFrame
        /\ \A i \in Jobs : pc'[i] = IF i = j THEN "done" ELSE pc[i]
    BY <1>2, <2>1, ResumeTakes
  <2>4. JobTypes' /\ SessionTypes' /\ Steady
    BY <1>3, <1>4, <2>1, <2>2, <2>3 DEF IInv, JobTypes, SessionTypes, Steady
  <2>5. Queues'
    BY <1>2, <1>3, <2>1, <2>2, <2>3, QueuesStay DEF IInv
  <2>6. \A i \in Jobs : Awaited(i) => Awaited(i)'
    BY <1>3, <2>1, AwaitedStays
  <2>7. \A i \in Jobs : LifeOK(status'[i], published'[i], pc[i], active'[i])
    BY <1>3, <2>1 DEF IInv, Lives
  <2> QED
    BY <1>2, <1>3, <1>4, <2>1, <2>2, <2>3, <2>4, <2>5, <2>6, <2>7, OwnerKeeps
<1> QED
  BY <1>5, <1>6

\* The waiter drains the sessions it reconciled.
LEMMA WaitDrainKeeps ==
  ASSUME BusAssumption, IInv, WaitDrain
  PROVE  Keeps
<1>1. PICK s : s = Min(wait.todo)
  OBVIOUS
<1>2. wait \in WaitFrame
  BY DEF IInv, Frames, WaitFrame
<1>3. s \in Sessions
  <2>1. wait.todo \subseteq Nat /\ wait.todo \subseteq Sessions /\ wait.todo # {}
    BY <1>2 DEF BusAssumption, WaitDrain, WaitFrame
  <2> QED
    BY <1>1, <2>1, LeastIsMin
<1>4. UNCHANGED <<counter, published, session, cancelling, aborting, sweep, clean>>
  BY DEF WaitDrain, callVars
<1>5. UNCHANGED <<pending_results, delivered, rescued>>
  BY DEF WaitDrain
<1>6. CASE DispatchNext(s, Waiter, pc)
  <2>1. PICK pcs : pcs = pc
    OBVIOUS
  <2>2. Waiter \notin Jobs /\ DispatchNext(s, Waiter, pcs)
    BY <1>6, <2>1 DEF Waiter, Jobs, BusAssumption
  <2>3. PICK by : by = Waiter
    OBVIOUS
  <2>4. pcs \in [Jobs -> Points] /\ \A i \in Jobs : pcs[i] = IF i = by THEN "handoff" ELSE pc[i]
    BY <2>1, <2>2, <2>3 DEF IInv, JobTypes
  <2> QED
    BY <1>3, <1>4, <1>5, <2>2, <2>3, <2>4, DispatchNextKeeps
<1>7. CASE ~DispatchNext(s, Waiter, pc)
  <2>1. /\ DropAborted(pending_tasks[s]) = <<>> /\ pending_tasks' = [pending_tasks EXCEPT ![s] = <<>>]
        /\ wait' = [wait EXCEPT !.todo = @ \ {s}]
        /\ UNCHANGED <<active, status, pc, current, dispatch>>
    BY <1>1, <1>7 DEF WaitDrain, guardVars
  <2>2. pending_tasks' = pending_tasks
    <3>1. pending_tasks[s] = <<>> /\ pending_tasks \in [Sessions -> Seq(Jobs)]
      BY <1>3, <2>1, QueueHead DEF IInv, SessionTypes
    <3> QED
      BY <2>1, <3>1
  <2>3. wait' \in WaitFrame
    BY <1>2, <2>1 DEF WaitFrame
  <2>4. Frames'
    BY <1>4, <2>3 DEF IInv, Frames, WaitFrame
  <2>5. \A i \in Jobs : Awaited(i) => Awaited(i)'
    BY <1>4, <2>1, AwaitedStays
  <2> QED
    BY <1>4, <1>5, <2>1, <2>2, <2>4, <2>5, Unmoved
<1> QED
  BY <1>6, <1>7

-----------------------------------------------------------------------------
(* The theorems *)

\* Nothing has happened yet.
LEMMA InitKeeps ==
  ASSUME BusAssumption, Init
  PROVE  IInv
<1>1. active = [j \in Jobs |-> "none"]
  BY DEF Init, G!GuardInit
<1>2. JobTypes
  BY <1>1 DEF Init, JobTypes, Statuses, Results, Points, NoDispatch, Owners, NoJob, NoSession,
              BusAssumption
<1>3. SessionTypes
  <2>1. <<>> \in Seq(Jobs)
    OBVIOUS
  <2> QED
    BY <2>1 DEF Init, SessionTypes
<1>4. Frames
  BY DEF Init, Frames, Idle
<1>5. Lives
  <2>1. LifeOK("none", "none", "none", "none") /\ "none" \notin Finishing
    BY DEF LifeOK, Finishing, Terminal
  <2> QED
    BY <1>1, <2>1 DEF Init, Lives
<1>6. Queues
  BY DEF Init, Queues, Distinct
<1>7. \A j \in Jobs : Handed(j) = 0
  BY DEF Init, Handed, Pending
<1>8. Publication
  <2>1. \A s \in Sessions :
          /\ Distinct(pending_results[s])
          /\ \A i \in DOMAIN pending_results[s] : session[pending_results[s][i]] = s
    BY DEF Init, Distinct
  <2>2. \A j \in Jobs : pc[j] \notin Finishing /\ Handed(j) <= 1
    BY <1>7 DEF Init, Finishing
  <2> QED
    BY <1>7, <2>1, <2>2 DEF Publication
<1>9. Currents /\ Dispatches /\ Reservations /\ Swept
  BY <1>1 DEF Init, Currents, Dispatches, Reservations, Swept, NoDispatch, Idle
<1> QED
  BY <1>2, <1>3, <1>4, <1>5, <1>6, <1>8, <1>9 DEF IInv

\* Every step of the bus keeps the invariant and every terminal status.
LEMMA StepKeeps ==
  ASSUME BusAssumption, IInv, [Next]_vars
  PROVE  Keeps
<1>1. CASE UNCHANGED vars
  <2>1. UNCHANGED <<counter, status, published, session, pc, cancelling, active, dispatch, aborting>>
    BY <1>1 DEF vars, guardVars
  <2>2. UNCHANGED <<current, pending_tasks, pending_results, delivered, rescued, sweep, clean, wait>>
    BY <1>1 DEF vars
  <2>3. Frames' /\ \A j \in Jobs : Awaited(j) => Awaited(j)'
    BY <2>1, <2>2, AwaitedStays DEF IInv, Frames
  <2> QED
    BY <2>1, <2>2, <2>3, Unmoved
<1>2. CASE Submit
  BY <1>2, SubmitKeeps
<1>3. CASE \E s \in Sessions : CreateSession(s)
  BY <1>3, QuietKeeps
<1>4. CASE \E s \in Sessions : SubmitTask(s)
  BY <1>4, SubmitTaskKeeps
<1>5. CASE \E j \in Jobs : TaskStep(j)
  <2>1. PICK j \in Jobs : TaskStep(j)
    BY <1>5
  <2> QED
    BY <2>1, GateKeeps, FinishRunKeeps, FinishJobKeeps, FinallyKeeps, DrainKeeps DEF TaskStep
<1>6. CASE \E j \in Jobs : DispatchDone(j) \/ DispatchFail(j) \/ Reaped(j)
  BY <1>6, DispatchDoneKeeps, DispatchFailKeeps, ReapedKeeps
<1>7. CASE \E j \in Jobs : Abort(j) \/ AbortDone(j)
  BY <1>7, AbortKeeps, AbortDoneKeeps
<1>8. CASE SweepStart \/ SweepStep
  BY <1>8, SweepStartKeeps, SweepCancelKeeps, SweepAwaitedKeeps DEF SweepStep
<1>9. CASE CleanStart \/ CleanStep
  BY <1>9, QuietKeeps, CleanSessionKeeps, CleanAwaitedKeeps, CleanDropKeeps DEF CleanStep
<1>10. CASE WaitCall \/ WaitTimeout \/ WaitStep
  BY <1>10, QuietKeeps, WaitStepsKeep, WaitDrainKeeps DEF WaitStep
<1> QED
  BY <1>1, <1>2, <1>3, <1>4, <1>5, <1>6, <1>7, <1>8, <1>9, <1>10 DEF Next

\* The invariant of the bus: entries, tasks, reservations, queues and results go
\* together whatever is cancelled, fails or is torn down in between.
THEOREM BusInvariant == Spec => []IInv
<1>1. Init => IInv
  BY BusAssumption, InitKeeps
<1>2. IInv /\ [Next]_vars => IInv'
  BY BusAssumption, StepKeeps DEF Keeps
<1> QED
  BY <1>1, <1>2, PTL DEF Spec

\* A finished job keeps its status, whoever loses the race with its end.
THEOREM TerminalIsStable == Spec => TerminalStable
<1>1. IInv /\ [Next]_vars => [\A j \in Jobs : IsTerminal(j) => status'[j] = status[j]]_vars
  BY BusAssumption, StepKeeps DEF Keeps, Steady
<1> QED
  BY <1>1, BusInvariant, PTL DEF Spec, TerminalStable

\* A leaked reservation is permanent: none is ever without a releaser.
THEOREM ReservationsAreOwned == Spec => []ReservationOwned
<1>1. IInv => ReservationOwned
  <2> SUFFICES ASSUME IInv, NEW j \in Jobs, active[j] # "none"
               PROVE  \/ \E s \in Sessions : Contains(pending_tasks[s], j)
                      \/ pc[j] \in {"new", "gate", "loop", "emit"}
                      \/ Settling(j)
    BY DEF ReservationOwned
  <2>1. /\ pc[j] = "done" => Awaited(j)
        /\ pc[j] = "none" => \E s \in Sessions : InQueue(pending_tasks[s], j)
    BY DEF IInv, Reservations
  <2>2. LifeOK(status[j], published[j], pc[j], active[j]) /\ pc[j] \in Points
    BY OfJob
  <2>3. pc[j] \in {"none", "done", "new", "gate", "loop", "emit"}
    BY <2>2 DEF LifeOK, Points, Finishing
  <2>4. CASE pc[j] = "none"
    BY <2>1, <2>4 DEF InQueue, Contains
  <2>5. CASE pc[j] = "done"
    BY <2>1, <2>5 DEF Awaited, Settling, TaskDone
  <2> QED
    BY <2>3, <2>4, <2>5
<1> QED
  BY <1>1, BusInvariant, PTL

\* A result is made available to the coordinator once, from its loop's end on.
THEOREM ResultsPublishedOnce == Spec => []ResultOnce
<1>1. ASSUME NEW q \in Seq(Jobs), Distinct(q), NEW j \in Jobs
      PROVE  Occurrences(q, j) = IF InQueue(q, j) THEN 1 ELSE 0
  <2>1. CASE InQueue(q, j)
    <3>1. PICK k \in DOMAIN q : q[k] = j
      BY <2>1 DEF InQueue
    <3>2. {i \in DOMAIN q : q[i] = j} = {k}
      BY <1>1, <3>1 DEF Distinct
    <3> QED
      BY <2>1, <3>2, FS_Singleton DEF Occurrences
  <2>2. CASE ~InQueue(q, j)
    <3>1. {i \in DOMAIN q : q[i] = j} = {}
      BY <2>2 DEF InQueue
    <3> QED
      BY <2>2, <3>1, FS_EmptySet DEF Occurrences
  <2> QED
    BY <2>1, <2>2
<1>2. IInv => ResultOnce
  <2> SUFFICES ASSUME IInv, NEW j \in Jobs
               PROVE  LET n == delivered[j] + (IF j \in rescued THEN 1 ELSE 0)
                               + (IF session[j] = NoSession THEN 0
                                  ELSE Occurrences(pending_results[session[j]], j))
                      IN  /\ n <= 1
                          /\ session[j] # NoSession /\ pc[j] \in Finishing => n = 1
    BY DEF ResultOnce, Finishing
  <2>1. /\ Handed(j) <= 1 /\ (pc[j] \in Finishing => Handed(j) = 1)
        /\ session[j] \in Sessions \cup {NoSession}
    BY DEF IInv, Publication, JobTypes
  <2>2. (IF session[j] = NoSession THEN 0 ELSE Occurrences(pending_results[session[j]], j))
          = (IF Pending(j) THEN 1 ELSE 0)
    <3>1. CASE session[j] = NoSession
      BY <3>1 DEF Pending
    <3>2. CASE session[j] # NoSession
      <4>1. pending_results[session[j]] \in Seq(Jobs) /\ Distinct(pending_results[session[j]])
        BY <2>1, <3>2 DEF IInv, SessionTypes, Publication
      <4> QED
        BY <1>1, <3>2, <4>1 DEF Pending
    <3> QED
      BY <3>1, <3>2
  <2> QED
    BY <2>1, <2>2 DEF Handed
<1> QED
  BY <1>2, BusInvariant, PTL

\* When cancel_for_parent returns, whatever it found unfinished is terminal and
\* holds no reservation but the one its finally block is about to release.
THEOREM SweepsSettle == Spec => SweepSettles
<1>1. IInv /\ [Next]_vars =>
        [sweep.at = "run" /\ sweep'.at = "idle" =>
           \A j \in sweep.jobs : status'[j] \in Terminal
                                 /\ (active'[j] # "none" => pc[j] \in {"emit"})]_vars
  <2> SUFFICES ASSUME IInv, Next, sweep.at = "run", sweep'.at = "idle", NEW j \in sweep.jobs
               PROVE  status'[j] \in Terminal /\ (active'[j] # "none" => pc[j] \in {"emit"})
    OBVIOUS
  <2>1. SweepCancel
    <3>1. ASSUME NEW i \in Jobs, TaskStep(i) PROVE sweep' = sweep
      BY <3>1 DEF TaskStep, Start, Gate, FinishRun, FinishJob, Finalize, FinalizeTrim, Drain, callVars
    <3>2. ASSUME NEW i \in Jobs, DispatchDone(i) \/ DispatchFail(i) \/ Reaped(i) \/ Abort(i) \/ AbortDone(i)
          PROVE  sweep' = sweep
      BY <3>2 DEF DispatchDone, DispatchFail, Reaped, Abort, AbortDone, callVars
    <3>3. ASSUME NEW s \in Sessions, CreateSession(s) \/ SubmitTask(s) PROVE sweep' = sweep
      BY <3>3 DEF CreateSession, SubmitTask, callVars
    <3>4. Submit \/ WaitTimeout \/ WaitDrain \/ WaitDrained => sweep' = sweep
      BY DEF Submit, WaitTimeout, WaitDrain, WaitDrained, callVars
    <3>5. WaitCall \/ WaitWake => sweep' = sweep
      BY DEF WaitCall, WaitWake, ReconcileTerminalSessionJobs, callVars
    <3>6. CleanStart \/ CleanStep => sweep' = sweep
      BY DEF CleanStart, CleanStep, CleanSession, CleanAwaited, CleanDrop
    <3>7. ~SweepStart /\ ~SweepAwaited
      BY DEF SweepStart, SweepAwaited
    <3>8. sweep' # sweep
      OBVIOUS
    <3> QED
      BY <3>1, <3>2, <3>3, <3>4, <3>5, <3>6, <3>7, <3>8 DEF Next, SweepStep, WaitStep
  <2>2. {i \in sweep.todo : ~IsTerminal(i)} = {}
    <3>1. \/ sweep' = [sweep EXCEPT !.at = "await", !.todo = {i \in sweep.todo : ~IsTerminal(i)}]
          \/ {i \in sweep.todo : ~IsTerminal(i)} = {}
      BY <2>1 DEF SweepCancel
    <3>2. sweep \in [at : {"idle", "run", "await"}, todo : SUBSET Jobs, jobs : SUBSET Jobs]
      BY DEF IInv, Frames
    <3> QED
      BY <3>1, <3>2
  <2>3. status' = status /\ active' = active /\ j \in Jobs
    BY <2>1 DEF SweepCancel, guardVars, IInv, Frames
  <2>4. IsTerminal(j)
    BY <2>2 DEF IInv, Swept
  <2>5. LifeOK(status[j], published[j], pc[j], active[j])
    BY <2>3, OfJob
  <2> QED
    BY <2>3, <2>4, <2>5 DEF LifeOK, IsTerminal
<1> QED
  BY <1>1, BusInvariant, PTL DEF Spec, SweepSettles
=============================================================================
