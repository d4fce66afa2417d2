-------------------------- MODULE SpawnGuardProofs --------------------------
(***************************************************************************)
(* For every set of jobs and every max_parallel, the admission control of  *)
(* AgentBus keeps its types, suspends a task at most once and conserves    *)
(* the semaphore's permits.  SlotConservation alone is not inductive: a    *)
(* grant to a task without a reservation would lose the permit, and a      *)
(* task queued twice would be woken for two permits and count once.        *)
(* SuspendedOnce excludes both.                                            *)
(***************************************************************************)
EXTENDS SpawnGuard, FiniteSetTheorems, SequenceTheorems, TLAPS

IInv == TypeOK /\ SuspendedOnce /\ SlotConservation

-----------------------------------------------------------------------------
(* Facts about the semaphore's queue *)

Injective(s) == \A i, k \in DOMAIN s : s[i] = s[k] => i = k
Occurs(j, s) == \E i \in DOMAIN s : s[i] = j

\* The first n waiters of a queue without repetitions are n tasks.
LEMMA PrefixCardinality ==
  ASSUME NEW S, NEW s \in Seq(S), Injective(s), NEW n \in 0..Len(s)
  PROVE  /\ IsFiniteSet({s[i] : i \in 1..n})
         /\ Cardinality({s[i] : i \in 1..n}) = n
<1> DEFINE T == {s[i] : i \in 1..n}
           f == [i \in 1..n |-> s[i]]
<1>1. /\ IsFiniteSet(1..n)
      /\ Cardinality(1..n) = n
  BY FS_Interval
<1>2. f \in Bijection(1..n, T)
  <2>1. \A i \in 1..n : i \in DOMAIN s
    OBVIOUS
  <2>2. f \in [1..n -> T]
    OBVIOUS
  <2>3. \A a, b \in 1..n : f[a] = f[b] => a = b
    BY <2>1 DEF Injective
  <2>4. \A t \in T : \E a \in 1..n : f[a] = t
    OBVIOUS
  <2> QED
    BY <2>2, <2>3, <2>4 DEF Bijection, Injection, Surjection, IsInjective
<1>3. ExistsBijection(1..n, T)
  BY <1>2 DEF ExistsBijection
<1> QED
  BY <1>1, <1>3, FS_Bijection

\* What Semaphore.acquire's cancellation removes from the queue.
LEMMA RemoveAtFacts ==
  ASSUME NEW S, NEW s \in Seq(S), NEW i \in 1..Len(s)
  PROVE  /\ RemoveAt(s, i) \in Seq(S)
         /\ Len(RemoveAt(s, i)) = Len(s) - 1
         /\ \A k \in 1..Len(s) - 1 :
              RemoveAt(s, i)[k] = IF k < i THEN s[k] ELSE s[k + 1]
<1> DEFINE a == SubSeq(s, 1, i - 1)
           b == SubSeq(s, i + 1, Len(s))
<1>1. /\ a \in Seq(S) /\ Len(a) = i - 1
      /\ \A k \in 1..i - 1 : a[k] = s[k]
  OBVIOUS
<1>2. /\ b \in Seq(S) /\ Len(b) = Len(s) - i
      /\ \A k \in 1..Len(s) - i : b[k] = s[k + i]
  OBVIOUS
<1> HIDE DEF a, b
<1>3. /\ a \o b \in Seq(S)
      /\ Len(a \o b) = Len(s) - 1
  <2>1. a \o b \in Seq(S)
    BY <1>1, <1>2
  <2>2. Len(a \o b) = Len(a) + Len(b)
    BY <1>1, <1>2, ConcatProperties
  <2> QED
    BY <1>1, <1>2, <2>1, <2>2
<1>4. ASSUME NEW k \in 1..Len(s) - 1
      PROVE  (a \o b)[k] = IF k < i THEN s[k] ELSE s[k + 1]
  <2>1. CASE k < i
    BY <1>1, <1>2, <2>1
  <2>2. CASE ~(k < i)
    <3>1. (a \o b)[k] = b[k - Len(a)]
      BY <1>1, <1>2, <2>2
    <3>2. b[k - (i - 1)] = s[k - (i - 1) + i]
      BY <1>2, <2>2
    <3> QED
      BY <1>1, <2>2, <3>1, <3>2
  <2> QED
    BY <2>1, <2>2
<1> QED
  BY <1>3, <1>4 DEF RemoveAt, a, b

\* Resolving futures moves tasks from the queue to the woken set and spends
\* one permit each: nothing is suspended twice, nothing gets lost.
LEMMA WakeAll ==
  ASSUME GuardAssumption,
         NEW v \in Nat, NEW ws \in Seq(Jobs), NEW wk \in SUBSET Jobs,
         Injective(ws), \A j \in wk : ~Occurs(j, ws),
         SemWakeAll(v, ws, wk)
  PROVE  /\ value' \in Nat
         /\ waiters' \in Seq(Jobs)
         /\ woken' \in SUBSET Jobs
         /\ Injective(waiters')
         /\ \A j \in woken' : ~Occurs(j, waiters')
         /\ \A j \in Jobs : (Occurs(j, waiters') \/ j \in woken') =>
                              (Occurs(j, ws) \/ j \in wk)
         /\ value' + Cardinality(woken') = v + Cardinality(wk)
<1> DEFINE n == IF v <= Len(ws) THEN v ELSE Len(ws)
           T == {ws[i] : i \in 1..n}
<1>1. /\ n \in 0..Len(ws)
      /\ n <= v
  OBVIOUS
<1> HIDE DEF n
<1>2. /\ value' = v - n
      /\ waiters' = SubSeq(ws, n + 1, Len(ws))
      /\ woken' = wk \cup T
  BY DEF SemWakeAll, n
<1>3. /\ waiters' \in Seq(Jobs)
      /\ Len(waiters') = Len(ws) - n
      /\ \A i \in 1..Len(ws) - n : waiters'[i] = ws[n + i]
  BY <1>1, <1>2
<1>4. IsFiniteSet(T) /\ Cardinality(T) = n
  BY <1>1, PrefixCardinality
<1>5. IsFiniteSet(wk) /\ Cardinality(wk) \in Nat
  BY FS_Subset, FS_CardinalityType DEF GuardAssumption
<1>6. wk \cap T = {}
  BY <1>1 DEF Occurs
<1>7. Cardinality(woken') = Cardinality(wk) + n
  <2> HIDE DEF T
  <2>1. Cardinality(wk \cap T) = 0
    BY <1>6, FS_EmptySet
  <2>2. Cardinality(wk \cup T) = Cardinality(wk) + Cardinality(T) - Cardinality(wk \cap T)
    BY <1>4, <1>5, FS_Union
  <2> QED
    BY <1>1, <1>2, <1>4, <1>5, <2>1, <2>2
<1>8. T \in SUBSET Jobs
  BY <1>1
<1>9. Injective(waiters')
  <2> SUFFICES ASSUME NEW i \in DOMAIN waiters', NEW k \in DOMAIN waiters',
                      waiters'[i] = waiters'[k]
               PROVE  i = k
    BY DEF Injective
  <2>1. /\ i \in 1..Len(ws) - n /\ k \in 1..Len(ws) - n
        /\ n + i \in DOMAIN ws /\ n + k \in DOMAIN ws
        /\ ws[n + i] = ws[n + k]
    BY <1>1, <1>3
  <2>2. n + i = n + k
    BY <2>1 DEF Injective
  <2> QED
    BY <1>1, <2>1, <2>2
<1>10. \A j \in woken' : ~Occurs(j, waiters')
  <2> SUFFICES ASSUME NEW j \in woken', NEW i \in DOMAIN waiters', waiters'[i] = j
               PROVE  FALSE
    BY DEF Occurs
  <2>0. /\ DOMAIN waiters' = 1..Len(ws) - n
        /\ DOMAIN ws = 1..Len(ws)
        /\ Len(ws) \in Nat
    BY <1>1, <1>3
  <2>1. i \in 1..Len(ws) - n /\ n + i \in DOMAIN ws /\ ws[n + i] = j
    <3>1. i \in 1..Len(ws) - n /\ n + i \in DOMAIN ws
      BY <1>1, <2>0
    <3> QED
      BY <1>3, <3>1
  <2>2. CASE j \in wk
    BY <2>1, <2>2 DEF Occurs
  <2>3. CASE j \in T
    <3>1. PICK k \in 1..n : ws[k] = j
      BY <2>3
    <3>2. k = n + i
      BY <2>1, <3>1, <1>1 DEF Injective
    <3> QED
      BY <3>2, <2>1, <1>1
  <2> QED
    BY <1>2, <2>2, <2>3
<1>11. \A j \in Jobs : (Occurs(j, waiters') \/ j \in woken') => (Occurs(j, ws) \/ j \in wk)
  <2> SUFFICES ASSUME NEW j \in Jobs, Occurs(j, waiters') \/ j \in woken', j \notin wk
               PROVE  Occurs(j, ws)
    OBVIOUS
  <2>1. CASE j \in T
    BY <2>1, <1>1 DEF Occurs
  <2>2. CASE Occurs(j, waiters')
    <3>1. PICK i \in DOMAIN waiters' : waiters'[i] = j
      BY <2>2 DEF Occurs
    <3>2. n + i \in DOMAIN ws /\ ws[n + i] = j
      BY <1>1, <1>3, <3>1
    <3> QED
      BY <3>2 DEF Occurs
  <2> QED
    BY <1>2, <2>1, <2>2
<1> QED
  BY <1>1, <1>2, <1>3, <1>5, <1>7, <1>8, <1>9, <1>10, <1>11

-----------------------------------------------------------------------------
(* The invariant *)

\* Suspended and InWaiters in the vocabulary of the lemmas.
LEMMA SuspendedOccurs ==
  /\ \A j : InWaiters(j) <=> Occurs(j, waiters)
  /\ SuspendedOnce <=> /\ Injective(waiters)
                       /\ \A j \in woken : ~Occurs(j, waiters)
                       /\ \A j \in Jobs : (Occurs(j, waiters) \/ j \in woken) =>
                                            active[j] = "reserved"
BY DEF InWaiters, Occurs, SuspendedOnce, Injective, Suspended

\* The holders of slots are finitely many, whatever `active' is.
LEMMA AcquiredFinite ==
  ASSUME GuardAssumption, NEW act
  PROVE  /\ IsFiniteSet({j \in Jobs : act[j] = "acquired"})
         /\ Cardinality({j \in Jobs : act[j] = "acquired"}) \in Nat
<1>1. {j \in Jobs : act[j] = "acquired"} \in SUBSET Jobs
  OBVIOUS
<1> QED
  BY <1>1, FS_Subset, FS_CardinalityType DEF GuardAssumption

\* acquire_slot marks a live, slotless reservation: one more holder.
LEMMA MarkAcquiredCounts ==
  ASSUME GuardAssumption, TypeOK, NEW j \in Jobs,
         active[j] = "reserved", MarkAcquired(j)
  PROVE  /\ active' \in [Jobs -> {"none", "reserved", "acquired"}]
         /\ active'[j] = "acquired"
         /\ \A k \in Jobs : k # j => active'[k] = active[k]
         /\ Cardinality(Acquired') = Cardinality(Acquired) + 1
<1>1. active' = [active EXCEPT ![j] = "acquired"]
  BY DEF MarkAcquired, TypeOK
<1>2. Acquired' = Acquired \cup {j}
  BY <1>1 DEF Acquired, TypeOK
<1>3. j \notin Acquired /\ IsFiniteSet(Acquired)
  BY AcquiredFinite DEF Acquired
<1> QED
  BY <1>1, <1>2, <1>3, FS_AddElement DEF TypeOK

\* A new guard: every permit free, nobody waiting.
LEMMA InitIInv == GuardAssumption /\ GuardInit => IInv
<1> SUFFICES ASSUME GuardAssumption, GuardInit
             PROVE  IInv
  OBVIOUS
<1>1. TypeOK
  BY DEF GuardAssumption, GuardInit, TypeOK
<1>2. SuspendedOnce
  BY DEF GuardInit, SuspendedOnce, Suspended, InWaiters
<1>3. Acquired = {}
  BY DEF GuardInit, Acquired
<1>4. SlotConservation
  BY <1>3, FS_EmptySet DEF GuardInit, GuardAssumption, SlotConservation
<1> QED
  BY <1>1, <1>2, <1>4 DEF IInv

\* One step of Next, by action; the guard's variables a step leaves alone keep
\* their part of the invariant.
LEMMA NextIInv == GuardAssumption /\ IInv /\ [Next]_guardVars => IInv'
<1> SUFFICES ASSUME GuardAssumption, IInv, [Next]_guardVars
             PROVE  IInv'
  OBVIOUS
<1> USE DEF IInv
<1>0. /\ IsFiniteSet(Acquired) /\ Cardinality(Acquired) \in Nat
      /\ IsFiniteSet(woken) /\ Cardinality(woken) \in Nat
      /\ MaxParallel \in Nat
  BY AcquiredFinite, FS_Subset, FS_CardinalityType DEF Acquired, TypeOK, GuardAssumption
<1>1. ASSUME NEW j \in Jobs, Submit(j)
      PROVE  IInv'
  <2>1. PICK e \in Estimates, depth \in Depths : PreCheck(j, depth, e)
    BY <1>1 DEF Submit
  <2>2. /\ active' = [active EXCEPT ![j] = "reserved"]
        /\ active[j] = "none" /\ ~Suspended(j)
        /\ UNCHANGED semVars
    BY <1>1, <2>1 DEF Submit, PreCheck
  <2>3. TypeOK'
    BY <2>1, <2>2 DEF TypeOK, PreCheck, semVars, GuardAssumption
  <2>4. SuspendedOnce'
    BY <2>2 DEF TypeOK, SuspendedOnce, Suspended, InWaiters, semVars
  <2>5. Acquired' = Acquired
    BY <2>2 DEF TypeOK, Acquired
  <2>6. SlotConservation'
    BY <2>2, <2>5 DEF SlotConservation, semVars
  <2> QED
    BY <2>3, <2>4, <2>6
<1>2. ASSUME NEW j \in Jobs, Acquire(j)
      PROVE  IInv'
  <2>1. active[j] = "reserved" /\ ~Suspended(j)
    BY <1>2 DEF Acquire
  <2>2. CASE AcquireSlotNow(j)
    <3>1. /\ value' = value - 1 /\ value # 0 /\ waiters = <<>> /\ woken = {}
          /\ UNCHANGED <<est, tokens_reserved, waiters, woken>>
          /\ MarkAcquired(j)
      BY <2>2 DEF AcquireSlotNow, Locked
    <3>2. /\ active' \in [Jobs -> {"none", "reserved", "acquired"}]
          /\ Cardinality(Acquired') = Cardinality(Acquired) + 1
      BY <2>1, <3>1, MarkAcquiredCounts
    <3>3. TypeOK'
      BY <3>1, <3>2 DEF TypeOK
    <3>4. SuspendedOnce'
      BY <3>1 DEF SuspendedOnce, Suspended, InWaiters
    <3>5. SlotConservation'
      BY <1>0, <3>1, <3>2 DEF SlotConservation, TypeOK
    <3> QED
      BY <3>3, <3>4, <3>5
  <2>3. CASE AcquireSlotWait(j)
    <3>1. /\ waiters' = Append(waiters, j)
          /\ UNCHANGED <<active, est, tokens_reserved, value, woken>>
      BY <2>3 DEF AcquireSlotWait
    <3>2. TypeOK'
      BY <3>1 DEF TypeOK
    <3>3. /\ Len(waiters') = Len(waiters) + 1
          /\ \A i \in DOMAIN waiters' :
               waiters'[i] = IF i = Len(waiters) + 1 THEN j ELSE waiters[i]
          /\ \A i \in DOMAIN waiters' : i # Len(waiters) + 1 => i \in DOMAIN waiters
      BY <3>1 DEF TypeOK
    <3>4. Injective(waiters')
      BY <2>1, <3>3 DEF Injective, SuspendedOnce, Suspended, InWaiters
    <3>5. \A k : Occurs(k, waiters') => Occurs(k, waiters) \/ k = j
      BY <3>3 DEF Occurs
    <3>6. SuspendedOnce'
      <4>1. \A k \in woken' : ~Occurs(k, waiters')
        BY <2>1, <3>1, <3>5, SuspendedOccurs DEF Suspended
      <4>2. \A k \in Jobs : (Occurs(k, waiters') \/ k \in woken') => active'[k] = "reserved"
        BY <2>1, <3>1, <3>5, SuspendedOccurs
      <4> QED
        BY <3>4, <4>1, <4>2, SuspendedOccurs
           DEF SuspendedOnce, Suspended, InWaiters, Occurs, Injective
    <3>7. SlotConservation'
      BY <3>1 DEF SlotConservation, Acquired
    <3> QED
      BY <3>2, <3>6, <3>7
  <2> QED
    BY <1>2, <2>2, <2>3 DEF Acquire
<1>3. ASSUME NEW j \in Jobs, AcquireSlotResume(j)
      PROVE  IInv'
  <2>1. /\ j \in woken /\ SemWakeAll(value, waiters, woken \ {j}) /\ MarkAcquired(j)
        /\ UNCHANGED <<est, tokens_reserved>>
    BY <1>3 DEF AcquireSlotResume
  <2>2. /\ Injective(waiters) /\ \A k \in woken : ~Occurs(k, waiters)
        /\ active[j] = "reserved" /\ ~Occurs(j, waiters)
    BY <2>1, SuspendedOccurs
  <2>3. /\ value' \in Nat /\ waiters' \in Seq(Jobs) /\ woken' \in SUBSET Jobs
        /\ Injective(waiters')
        /\ \A k \in woken' : ~Occurs(k, waiters')
        /\ \A k \in Jobs : (Occurs(k, waiters') \/ k \in woken') =>
                             (Occurs(k, waiters) \/ k \in woken \ {j})
        /\ value' + Cardinality(woken') = value + Cardinality(woken \ {j})
    <3>1. value \in Nat /\ waiters \in Seq(Jobs) /\ woken \ {j} \in SUBSET Jobs
      BY DEF TypeOK
    <3>2. \A k \in woken \ {j} : ~Occurs(k, waiters)
      BY <2>2
    <3> QED
      BY <2>1, <2>2, <3>1, <3>2, WakeAll
  <2>4. /\ active' \in [Jobs -> {"none", "reserved", "acquired"}]
        /\ \A k \in Jobs : k # j => active'[k] = active[k]
        /\ Cardinality(Acquired') = Cardinality(Acquired) + 1
    BY <2>1, <2>2, MarkAcquiredCounts
  <2>5. TypeOK'
    BY <2>1, <2>3, <2>4 DEF TypeOK
  <2>6. SuspendedOnce'
    <3>1. \A k \in Jobs : (Occurs(k, waiters') \/ k \in woken') => active'[k] = "reserved"
      BY <2>2, <2>3, <2>4, SuspendedOccurs
    <3> QED
      BY <2>3, <3>1 DEF SuspendedOnce, Suspended, InWaiters, Occurs, Injective
  <2>7. Cardinality(woken \ {j}) = Cardinality(woken) - 1
    BY <1>0, <2>1, FS_RemoveElement
  <2>8. Cardinality(woken') \in Nat
    BY <2>3, FS_Subset, FS_CardinalityType DEF GuardAssumption
  <2>9. SlotConservation'
    BY <1>0, <2>3, <2>4, <2>7, <2>8 DEF SlotConservation, TypeOK
  <2> QED
    BY <2>5, <2>6, <2>9
<1>4. ASSUME NEW j \in Jobs, AcquireSlotCancelled(j)
      PROVE  IInv'
  <2> DEFINE Settled(v, ws, wk) ==
               /\ v \in Nat /\ ws \in Seq(Jobs) /\ wk \in SUBSET Jobs
               /\ Injective(ws) /\ \A k \in wk : ~Occurs(k, ws)
               /\ \A k \in Jobs : (Occurs(k, ws) \/ k \in wk) =>
                                    (Occurs(k, waiters) \/ k \in woken)
               /\ v + Cardinality(wk) = value + Cardinality(woken)
               /\ SemWakeAll(v, ws, wk)
  <2>1. UNCHANGED <<active, est, tokens_reserved>>
    BY <1>4 DEF AcquireSlotCancelled
  <2>2. /\ Injective(waiters) /\ \A k \in woken : ~Occurs(k, waiters)
        /\ \A k \in Jobs : (Occurs(k, waiters) \/ k \in woken) => active[k] = "reserved"
    BY SuspendedOccurs
  <2>3. ASSUME NEW v, NEW ws, NEW wk, Settled(v, ws, wk)
        PROVE  IInv'
    <3>1. /\ value' \in Nat /\ waiters' \in Seq(Jobs) /\ woken' \in SUBSET Jobs
          /\ Injective(waiters')
          /\ \A k \in woken' : ~Occurs(k, waiters')
          /\ \A k \in Jobs : (Occurs(k, waiters') \/ k \in woken') =>
                               (Occurs(k, ws) \/ k \in wk)
          /\ value' + Cardinality(woken') = v + Cardinality(wk)
      BY <2>3, WakeAll
    <3>2. TypeOK'
      BY <2>1, <3>1 DEF TypeOK
    <3>3. \A k \in Jobs : (Occurs(k, waiters') \/ k \in woken') => active'[k] = "reserved"
      BY <2>1, <2>2, <2>3, <3>1
    <3>4. SuspendedOnce'
      BY <3>1, <3>3 DEF SuspendedOnce, Suspended, InWaiters, Occurs, Injective
    <3>5. Acquired' = Acquired
      BY <2>1 DEF Acquired
    <3>6. value' + Cardinality(woken') = value + Cardinality(woken)
      BY <2>3, <3>1
    <3>7. SlotConservation'
      BY <3>5, <3>6 DEF SlotConservation
    <3> QED
      BY <3>2, <3>4, <3>7
  <2>4. CASE j \in woken /\ SemWakeAll(value + 1, waiters, woken \ {j})
    <3>1. Cardinality(woken \ {j}) = Cardinality(woken) - 1
      BY <1>0, <2>4, FS_RemoveElement
    <3>2. value + 1 + Cardinality(woken \ {j}) = value + Cardinality(woken)
      BY <1>0, <3>1 DEF TypeOK
    <3>3. /\ value + 1 \in Nat /\ waiters \in Seq(Jobs) /\ woken \ {j} \in SUBSET Jobs
          /\ \A k \in woken \ {j} : ~Occurs(k, waiters)
      BY <2>2 DEF TypeOK
    <3>4. Settled(value + 1, waiters, woken \ {j})
      BY <2>2, <2>4, <3>2, <3>3
    <3> HIDE DEF Settled
    <3> QED
      BY <2>3, <3>4
  <2>5. ASSUME NEW i \in DOMAIN waiters,
               waiters[i] = j, SemWakeAll(value, RemoveAt(waiters, i), woken)
        PROVE  IInv'
    <3> DEFINE ws == RemoveAt(waiters, i)
    <3>1. waiters \in Seq(Jobs) /\ i \in 1..Len(waiters)
      BY DEF TypeOK
    <3>2. /\ ws \in Seq(Jobs)
          /\ Len(ws) = Len(waiters) - 1
          /\ \A k \in 1..Len(waiters) - 1 :
               ws[k] = IF k < i THEN waiters[k] ELSE waiters[k + 1]
      BY <3>1, RemoveAtFacts
    <3> HIDE DEF ws
    <3>3. \A k \in DOMAIN ws : /\ k \in 1..Len(waiters) - 1
                               /\ k \in DOMAIN waiters /\ k + 1 \in DOMAIN waiters
      BY <3>1, <3>2
    <3>4. Injective(ws)
      <4> SUFFICES ASSUME NEW a \in DOMAIN ws, NEW b \in DOMAIN ws, ws[a] = ws[b]
                   PROVE  a = b
        BY DEF Injective
      <4>1. (IF a < i THEN a ELSE a + 1) = (IF b < i THEN b ELSE b + 1)
        BY <2>2, <3>2, <3>3 DEF Injective
      <4> QED
        BY <3>1, <3>3, <4>1
    <3>5. \A k : Occurs(k, ws) => Occurs(k, waiters)
      BY <3>2, <3>3 DEF Occurs
    <3>6. Settled(value, ws, woken)
      BY <2>2, <2>5, <3>2, <3>4, <3>5 DEF TypeOK, ws
    <3> HIDE DEF Settled
    <3> QED
      BY <2>3, <3>6
  <2> QED
    BY <1>4, <2>4, <2>5 DEF AcquireSlotCancelled
<1>5. ASSUME NEW j \in Jobs, Finish(j)
      PROVE  IInv'
  <2>1. /\ active' = [active EXCEPT ![j] = "none"]
        /\ est' = [est EXCEPT ![j] = 0]
        /\ tokens_reserved' = tokens_reserved - est[j]
        /\ IF active[j] = "acquired" THEN SemRelease ELSE UNCHANGED semVars
        /\ ~Suspended(j)
    BY <1>5 DEF Finish, Release
  <2>2. /\ Injective(waiters) /\ \A k \in woken : ~Occurs(k, waiters)
        /\ \A k \in Jobs : (Occurs(k, waiters) \/ k \in woken) => active[k] = "reserved"
        /\ ~Occurs(j, waiters) /\ j \notin woken
    BY <2>1, SuspendedOccurs DEF Suspended
  <2>3. /\ active' \in [Jobs -> {"none", "reserved", "acquired"}]
        /\ est' \in [Jobs -> Nat]
        /\ tokens_reserved' \in Int
        /\ Acquired' = Acquired \ {j}
    BY <2>1 DEF TypeOK, Acquired
  <2>4. CASE active[j] # "acquired"
    <3>1. UNCHANGED semVars /\ Acquired' = Acquired
      BY <2>1, <2>3, <2>4 DEF Acquired
    <3>2. TypeOK'
      BY <2>3, <3>1 DEF TypeOK, semVars
    <3>3. SuspendedOnce'
      BY <2>1, <2>2, <3>1
         DEF SuspendedOnce, Suspended, InWaiters, Occurs, Injective, semVars, TypeOK
    <3>4. SlotConservation'
      BY <3>1 DEF SlotConservation, semVars
    <3> QED
      BY <3>2, <3>3, <3>4
  <2>5. CASE active[j] = "acquired"
    <3>0. SemRelease /\ j \in Acquired
      BY <2>1, <2>5 DEF Acquired
    <3>1. SemRelease /\ Cardinality(Acquired') = Cardinality(Acquired) - 1
      BY <1>0, <2>3, <3>0, FS_RemoveElement
    <3>2. CASE waiters = <<>>
      <4>1. value' = value + 1 /\ UNCHANGED <<waiters, woken>>
        BY <3>1, <3>2 DEF SemRelease
      <4>2. TypeOK'
        BY <2>3, <4>1 DEF TypeOK
      <4>3. SuspendedOnce'
        BY <2>1, <2>2, <4>1
           DEF SuspendedOnce, Suspended, InWaiters, Occurs, Injective, TypeOK
      <4>4. SlotConservation'
        BY <1>0, <3>1, <4>1 DEF SlotConservation, TypeOK
      <4> QED
        BY <4>2, <4>3, <4>4
    <3>3. CASE waiters # <<>>
      <4>1. /\ waiters' = Tail(waiters) /\ woken' = woken \cup {Head(waiters)}
            /\ value' = value
        BY <3>1, <3>3 DEF SemRelease
      <4>2. /\ waiters' \in Seq(Jobs) /\ Len(waiters') = Len(waiters) - 1
            /\ \A i \in DOMAIN waiters' : i + 1 \in DOMAIN waiters /\ waiters'[i] = waiters[i + 1]
            /\ 1 \in DOMAIN waiters /\ Head(waiters) = waiters[1]
            /\ \A i \in DOMAIN waiters' : i \in Nat \ {0}
        BY <3>3, <4>1 DEF TypeOK
      <4>3. Occurs(Head(waiters), waiters) /\ Head(waiters) \in Jobs
        <5>1. 1 \in DOMAIN waiters /\ waiters[1] = Head(waiters)
          BY <4>2
        <5>2. Occurs(Head(waiters), waiters)
          BY <5>1, Zenon DEF Occurs
        <5>3. waiters \in Seq(Jobs)
          BY DEF TypeOK
        <5>4. waiters[1] \in Jobs
          BY <5>1, <5>3
        <5> QED
          BY <5>1, <5>2, <5>4
      <4>4. \A k : Occurs(k, waiters') => Occurs(k, waiters)
        BY <4>2 DEF Occurs
      <4>5. ~Occurs(Head(waiters), waiters')
        <5> SUFFICES ASSUME NEW i \in DOMAIN waiters', waiters'[i] = Head(waiters)
                     PROVE  FALSE
          BY DEF Occurs
        <5>1. i + 1 = 1
          BY <2>2, <4>2 DEF Injective
        <5> QED
          BY <4>2, <5>1
      <4>6. TypeOK'
        BY <2>3, <4>1, <4>2, <4>3 DEF TypeOK
      <4>7. Injective(waiters')
        <5> SUFFICES ASSUME NEW a \in DOMAIN waiters', NEW b \in DOMAIN waiters',
                            waiters'[a] = waiters'[b]
                     PROVE  a = b
          BY DEF Injective
        <5>1. a + 1 = b + 1
          BY <2>2, <4>2 DEF Injective
        <5> QED
          BY <4>2, <5>1
      <4>8. \A k \in woken' : ~Occurs(k, waiters')
        BY <2>2, <4>1, <4>4, <4>5
      <4>9. \A k \in Jobs : (Occurs(k, waiters') \/ k \in woken') => active'[k] = "reserved"
        BY <2>1, <2>2, <4>1, <4>3, <4>4 DEF TypeOK
      <4>10. SuspendedOnce'
        BY <4>7, <4>8, <4>9 DEF SuspendedOnce, Suspended, InWaiters, Occurs, Injective
      <4>11. Cardinality(woken') = Cardinality(woken) + 1
        <5>1. Head(waiters) \notin woken
          BY <2>2, <4>3
        <5> QED
          BY <1>0, <4>1, <5>1, FS_AddElement
      <4>12. SlotConservation'
        BY <1>0, <3>1, <4>1, <4>11 DEF SlotConservation, TypeOK
      <4> QED
        BY <4>6, <4>10, <4>12
    <3> QED
      BY <3>2, <3>3
  <2> QED
    BY <2>4, <2>5
<1>6. CASE UNCHANGED guardVars
  BY <1>6 DEF guardVars, TypeOK, SuspendedOnce, Suspended, InWaiters, SlotConservation, Acquired
<1> QED
  BY <1>1, <1>2, <1>3, <1>4, <1>5, <1>6 DEF Next

-----------------------------------------------------------------------------
(* Theorems *)

\* Every state of the guard is well typed, in particular the semaphore's
\* counter is never negative.
THEOREM TypeCorrect == Spec => []TypeOK
<1>1. GuardInit => IInv
  BY InitIInv, GuardAssumption
<1>2. IInv /\ [Next]_guardVars => IInv'
  BY NextIInv, GuardAssumption
<1>3. IInv => TypeOK
  BY DEF IInv
<1> QED
  BY <1>1, <1>2, <1>3, PTL DEF Spec

\* A task waits in the semaphore at most once and with a live reservation.
THEOREM TasksSuspendedOnce == Spec => []SuspendedOnce
<1>1. GuardInit => IInv
  BY InitIInv, GuardAssumption
<1>2. IInv /\ [Next]_guardVars => IInv'
  BY NextIInv, GuardAssumption
<1>3. IInv => SuspendedOnce
  BY DEF IInv
<1> QED
  BY <1>1, <1>2, <1>3, PTL DEF Spec

\* pre_check, acquire_slot, its cancellation and release neither lose a permit
\* of the semaphore nor invent one, for any number of jobs and slots.
THEOREM SlotsConserved == Spec => []SlotConservation
<1>1. GuardInit => IInv
  BY InitIInv, GuardAssumption
<1>2. IInv /\ [Next]_guardVars => IInv'
  BY NextIInv, GuardAssumption
<1>3. IInv => SlotConservation
  BY DEF IInv
<1> QED
  BY <1>1, <1>2, <1>3, PTL DEF Spec

-----------------------------------------------------------------------------
(* The token budget.  Every token on the counter is one that a live        *)
(* reservation has charged, so a sum over the reservations is the number   *)
(* of the pairs in Charged.                                                *)

Budgeted == TokenAccounting /\ IsFiniteSet(Charged)

\* An estimate charges as many tokens as it says.
LEMMA EstimateCharges ==
  ASSUME NEW j, NEW e \in Nat
  PROVE  IsFiniteSet({j} \X (1..e)) /\ Cardinality({j} \X (1..e)) = e
<1>1. IsFiniteSet({j}) /\ Cardinality({j}) = 1
  BY FS_Singleton
<1>2. IsFiniteSet(1..e) /\ Cardinality(1..e) = e
  BY FS_Interval
<1>3. /\ IsFiniteSet({j} \X (1..e))
      /\ Cardinality({j} \X (1..e)) = Cardinality({j}) * Cardinality(1..e)
  BY <1>1, <1>2, FS_Product
<1> QED
  BY <1>1, <1>2, <1>3

\* What is charged depends on the live reservations and their estimates alone.
LEMMA ChargesStand ==
  ASSUME TypeOK, Budgeted, UNCHANGED <<est, tokens_reserved>>, active' \in [Jobs -> {"none", "reserved", "acquired"}],
         \A j \in Jobs : active'[j] = "none" <=> active[j] = "none"
  PROVE  Budgeted'
<1>1. Reserved' = Reserved
  BY DEF Reserved
<1>2. Charged' = Charged
  BY <1>1 DEF Charged
<1> QED
  BY <1>2 DEF Budgeted, TokenAccounting

\* A reservation is charged once, when it is made.
LEMMA SubmitCharges ==
  ASSUME GuardAssumption, TypeOK, Budgeted, NEW j \in Jobs, Submit(j)
  PROVE  Budgeted'
<1>1. PICK e \in Estimates : /\ active[j] = "none" /\ BudgetAllows(e)
                             /\ tokens_reserved' = tokens_reserved + e
                             /\ active' = [active EXCEPT ![j] = "reserved"]
                             /\ est' = [est EXCEPT ![j] = e]
  BY DEF Submit, PreCheck
<1>2. e \in Nat /\ MaxTokens \in Nat
  BY DEF GuardAssumption
<1> DEFINE new == {j} \X (1..e)
<1>3. Charged' = Charged \cup new
  <2>1. Reserved' = Reserved \cup {j} /\ j \notin Reserved
    BY <1>1 DEF Reserved, TypeOK
  <2>2. est'[j] = e /\ \A i \in Reserved : est'[i] = est[i]
    BY <1>1, <2>1 DEF Reserved, TypeOK
  <2>3. {{i} \X (1..est'[i]) : i \in Reserved'} = {{i} \X (1..est[i]) : i \in Reserved} \cup {new}
    BY <2>1, <2>2
  <2> QED
    BY <2>3 DEF Charged
<1>4. Charged \cap new = {}
  BY <1>1 DEF Charged, Reserved
<1>5. IsFiniteSet(new) /\ Cardinality(new) = e
  BY <1>2, EstimateCharges
<1> HIDE DEF new
<1>6. IsFiniteSet(Charged) /\ tokens_reserved = Cardinality(Charged) /\ tokens_reserved <= MaxTokens
  BY DEF Budgeted, TokenAccounting
<1>7. /\ IsFiniteSet(Charged')
      /\ Cardinality(Charged') = Cardinality(Charged) + Cardinality(new) - Cardinality({})
  BY <1>3, <1>4, <1>5, <1>6, FS_Union
<1>8. Cardinality({}) = 0 /\ Cardinality(Charged) \in Nat
  BY <1>6, FS_EmptySet, FS_CardinalityType
<1>9. tokens_reserved' = Cardinality(Charged') /\ tokens_reserved' <= MaxTokens
  BY <1>1, <1>2, <1>5, <1>6, <1>7, <1>8 DEF BudgetAllows
<1>10. \A i \in Jobs : active'[i] = "none" => est'[i] = 0
  BY <1>1 DEF TypeOK, Budgeted, TokenAccounting
<1> QED
  BY <1>7, <1>9, <1>10 DEF Budgeted, TokenAccounting

\* Its charge is returned once, when it is released.
LEMMA FinishReturns ==
  ASSUME GuardAssumption, TypeOK, Budgeted, NEW j \in Jobs, Finish(j)
  PROVE  Budgeted'
<1>1. /\ active[j] # "none" /\ active' = [active EXCEPT ![j] = "none"]
      /\ est' = [est EXCEPT ![j] = 0] /\ tokens_reserved' = tokens_reserved - est[j]
  BY DEF Finish, Release
<1>2. est[j] \in Nat /\ MaxTokens \in Nat
  BY DEF GuardAssumption, TypeOK
<1> DEFINE old == {j} \X (1..est[j])
<1>3. j \in Reserved /\ Reserved' = Reserved \ {j} /\ \A i \in Reserved \ {j} : est'[i] = est[i]
  BY <1>1 DEF Reserved, TypeOK
<1>4. Charged' = Charged \ old
  <2>1. \A p : p \in Charged <=> \E i \in Reserved : p \in {i} \X (1..est[i])
    BY DEF Charged
  <2>2. \A p : p \in Charged' <=> \E i \in Reserved \ {j} : p \in {i} \X (1..est[i])
    BY <1>3 DEF Charged
  <2>3. \A p : p \in old => ~\E i \in Reserved \ {j} : p \in {i} \X (1..est[i])
    OBVIOUS
  <2> QED
    BY <1>3, <2>1, <2>2, <2>3
<1>5. Charged \cap old = old
  BY <1>3 DEF Charged
<1>6. IsFiniteSet(old) /\ Cardinality(old) = est[j]
  BY <1>2, EstimateCharges
<1> HIDE DEF old
<1>7. IsFiniteSet(Charged) /\ tokens_reserved = Cardinality(Charged) /\ tokens_reserved <= MaxTokens
  BY DEF Budgeted, TokenAccounting
<1>8. /\ IsFiniteSet(Charged')
      /\ Cardinality(Charged') = Cardinality(Charged) - Cardinality(old)
  BY <1>4, <1>5, <1>7, FS_Difference
<1>9. Cardinality(Charged) \in Nat
  BY <1>7, FS_CardinalityType
<1>10. tokens_reserved' = Cardinality(Charged') /\ tokens_reserved' <= MaxTokens
  BY <1>1, <1>2, <1>6, <1>7, <1>8, <1>9
<1>11. \A i \in Jobs : active'[i] = "none" => est'[i] = 0
  BY <1>1 DEF TypeOK, Budgeted, TokenAccounting
<1> QED
  BY <1>8, <1>10, <1>11 DEF Budgeted, TokenAccounting

\* For any jobs and estimates, the counter that pre_check compares with
\* max_tokens is what the live reservations have charged: nothing that is
\* rejected, cancelled, released early or twice makes the budget decay or grow.
THEOREM TokensAccounted == Spec => []TokenAccounting
<1>1. GuardInit => Budgeted
  <2> SUFFICES ASSUME GuardInit PROVE Budgeted
    OBVIOUS
  <2>1. Reserved = {}
    BY DEF GuardInit, Reserved
  <2>2. Charged = {}
    BY <2>1 DEF Charged
  <2>3. IsFiniteSet({}) /\ Cardinality({}) = 0
    BY FS_EmptySet
  <2>4. MaxTokens \in Nat
    BY GuardAssumption
  <2> QED
    BY <2>2, <2>3, <2>4 DEF GuardInit, Budgeted, TokenAccounting
<1>2. TypeOK /\ TypeOK' /\ Budgeted /\ [Next]_guardVars => Budgeted'
  <2> SUFFICES ASSUME TypeOK, TypeOK', Budgeted, [Next]_guardVars PROVE Budgeted'
    OBVIOUS
  <2>1. active' \in [Jobs -> {"none", "reserved", "acquired"}]
    BY DEF TypeOK
  <2>2. ASSUME NEW j \in Jobs, Submit(j)
        PROVE  Budgeted'
    BY <2>2, GuardAssumption, SubmitCharges
  <2>3. ASSUME NEW j \in Jobs, Acquire(j) \/ AcquireSlotResume(j) \/ AcquireSlotCancelled(j)
        PROVE  Budgeted'
    <3>1. /\ UNCHANGED <<est, tokens_reserved>>
          /\ active' = active \/ active' = [active EXCEPT ![j] = IF @ = "none" THEN "none" ELSE "acquired"]
      BY <2>3 DEF Acquire, AcquireSlotNow, AcquireSlotWait, AcquireSlotResume, AcquireSlotCancelled,
                  MarkAcquired
    <3>2. \A i \in Jobs : active'[i] = "none" <=> active[i] = "none"
      BY <3>1 DEF TypeOK
    <3> QED
      BY <2>1, <3>1, <3>2, ChargesStand
  <2>4. ASSUME NEW j \in Jobs, Finish(j)
        PROVE  Budgeted'
    BY <2>4, GuardAssumption, FinishReturns
  <2>5. CASE UNCHANGED guardVars
    BY <2>1, <2>5, ChargesStand DEF guardVars
  <2> QED
    BY <2>2, <2>3, <2>4, <2>5 DEF Next
<1>3. Budgeted => TokenAccounting
  BY DEF Budgeted
<1> QED
  BY <1>1, <1>2, <1>3, TypeCorrect, PTL DEF Spec
=============================================================================
