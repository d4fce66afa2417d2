------------------------ MODULE ResultDeliveryProofs ------------------------
(***************************************************************************)
(* Proofs about ResultDelivery and the AgentComm it instantiates: every    *)
(* reader sees its mail once, in order and without a gap, and no persisted *)
(* result is lost, for any numbers of jobs, messages and restarts.         *)
(***************************************************************************)
EXTENDS ResultDelivery, FiniteSetTheorems, WellFoundedInduction, TLAPS

-----------------------------------------------------------------------------
(* The inductive invariant *)

Readers == {"bus", "host"}
Uses(r) == IF r = "bus" THEN Inbox ELSE HostInbox
Messages == [to : {"main"}, type : {"subtask_result", "status"}, body : Nat]
Reads == [at : {"idle", "query", "answer"}, key : C!Keys \cup {<<>>}, after : Nat,
          batch : Seq(Nat)]

LogOK ==
  /\ log \in Seq(Messages)
  /\ \A i \in DOMAIN log : log[i].type = "subtask_result" => log[i].body \in Jobs

\* What a cursor and the list of what its readers were handed say of each other.
KeyOK(k) ==
  /\ cursors[k] \in 0..Len(log)
  /\ C!Ascending(received[k])
  /\ \A n \in DOMAIN received[k] : received[k][n] <= cursors[k]
  /\ \A i \in 1..cursors[k] : C!Matches(log[i], k) => Contains(received[k], i)

\* A batch holds what matches after the cursor, up to its last ordinal.
WholeBatch(events, q, key, after) ==
  /\ \A n \in DOMAIN q : q[n] \in DOMAIN events /\ q[n] > after /\ C!Matches(events[q[n]], key)
  /\ \A i \in DOMAIN events : q # <<>> /\ i > after /\ i <= Last(q) /\ C!Matches(events[i], key)
       => \E n \in DOMAIN q : q[n] = i

\* A read under way: its cursor has not moved since it began.
ReadOK(r, key) ==
  /\ reader[r].at # "idle" => reader[r].key = key /\ reader[r].after = cursors[key]
  /\ reader[r].at = "answer" /\ C!Ascending(reader[r].batch) =>
       WholeBatch(log, reader[r].batch, key, reader[r].after)

CommInv ==
  /\ LogOK
  /\ cursors \in [C!Keys -> Nat] /\ received \in [C!Keys -> Seq(Nat)]
  /\ reader \in [Readers -> Reads]
  /\ \A k \in C!Keys : KeyOK(k)
  /\ \A r \in Readers : ReadOK(r, Uses(r))

\* Where a result is that was marked delivered.
MemoryOK ==
  /\ results \in Seq(Jobs) /\ recovered \in Seq(Jobs)
  /\ delivered \subseteq Jobs /\ handed \in [Jobs -> Nat]
  /\ \A j \in delivered : handed[j] > 0 \/ Contains(recovered, j)

IInv == CommInv /\ MemoryOK /\ NotLost

-----------------------------------------------------------------------------
(* Lists of ordinals *)

\* The library's operators, as AgentComm and as this module extend them.
LEMMA SameCardinality ==
  ASSUME NEW S
  PROVE  C!Cardinality(S) = Cardinality(S)
  BY DEF C!Cardinality, Cardinality, C!IsFiniteSet, IsFiniteSet

\* The same for the operators on sequences.
LEMMA SameLists ==
  ASSUME NEW s, NEW e
  PROVE  /\ C!ToSet(s) = ToSet(s) /\ C!Last(s) = Last(s) /\ C!Reverse(s) = Reverse(s)
         /\ C!Contains(s, e) <=> Contains(s, e)
  BY DEF C!ToSet, ToSet, C!Last, Last, C!Reverse, Reverse, C!Contains, Contains

\* Ascending compares neighbours; so it orders every two positions.
LEMMA Increasing ==
  ASSUME NEW q \in Seq(Nat), C!Ascending(q), NEW i \in DOMAIN q, NEW k \in DOMAIN q, i < k
  PROVE  q[i] < q[k]
<1> DEFINE Bad == {m \in DOMAIN q : i < m /\ ~(q[i] < q[m])}
<1>1. DOMAIN q = 1..Len(q) /\ Len(q) \in Nat
  OBVIOUS
<1>2. \A m \in 1..(Len(q) - 1) : q[m] < q[m + 1]
  BY DEF C!Ascending
<1>3. ASSUME Bad # {}
      PROVE  FALSE
  <2>1. \E m \in Bad : \A y \in Bad : ~(<<y, m>> \in OpToRel(<, Nat))
    <3>1. Bad \subseteq Nat
      BY <1>1
    <3> QED
      BY <1>3, <3>1, NatLessThanWellFounded, WFMin
  <2>2. PICK m \in Bad : \A y \in Bad : ~(<<y, m>> \in OpToRel(<, Nat))
    BY <2>1
  <2>3. m \in 1..Len(q) /\ i < m /\ ~(q[i] < q[m]) /\ i \in 1..Len(q)
    BY <1>1, <2>2
  <2>4. (m - 1) \in 1..Len(q) /\ (m - 1) \in 1..(Len(q) - 1) /\ (m - 1) + 1 = m
    BY <1>1, <2>3
  <2>5. q[m - 1] < q[m] /\ q[m - 1] \in Nat /\ q[m] \in Nat /\ q[i] \in Nat
    BY <1>1, <1>2, <2>3, <2>4
  <2>6. (m - 1) \notin Bad
    <3>1. <<m - 1, m>> \in OpToRel(<, Nat)
      BY <1>1, <2>3, <2>4 DEF OpToRel
    <3> QED
      BY <2>2, <3>1
  <2>7. i = m - 1 \/ q[i] < q[m - 1]
    BY <1>1, <2>3, <2>4, <2>6
  <2> QED
    BY <2>3, <2>5, <2>7
<1> QED
  BY <1>3

\* No ordinal is larger than the last.
LEMMA LastIsLargest ==
  ASSUME NEW q \in Seq(Nat), C!Ascending(q), q # <<>>
  PROVE  /\ Last(q) \in Nat /\ Len(q) \in DOMAIN q /\ Last(q) = q[Len(q)]
         /\ \A n \in DOMAIN q : q[n] \in Nat /\ q[n] <= Last(q)
<1>1. Len(q) \in Nat /\ Len(q) > 0 /\ DOMAIN q = 1..Len(q) /\ Last(q) = q[Len(q)]
  BY DEF Last
<1>2. ASSUME NEW n \in DOMAIN q
      PROVE  q[n] \in Nat /\ q[n] <= Last(q)
  <2>1. n = Len(q) \/ n < Len(q)
    BY <1>1
  <2>2. q[n] \in Nat /\ q[Len(q)] \in Nat
    BY <1>1
  <2>3. n < Len(q) => q[n] < q[Len(q)]
    BY <1>1, Increasing
  <2> QED
    BY <1>1, <2>1, <2>2, <2>3
<1> QED
  BY <1>1, <1>2

\* A list goes on in order with what lies beyond all of it.
LEMMA AscendingGoesOn ==
  ASSUME NEW s \in Seq(Nat), NEW q \in Seq(Nat), C!Ascending(s), C!Ascending(q), NEW c \in Nat,
         \A n \in DOMAIN s : s[n] <= c, \A n \in DOMAIN q : q[n] > c
  PROVE  C!Ascending(s \o q)
<1> SUFFICES ASSUME NEW i \in 1..(Len(s \o q) - 1)
             PROVE  (s \o q)[i] < (s \o q)[i + 1]
  BY DEF C!Ascending
<1>1. /\ Len(s) \in Nat /\ Len(q) \in Nat /\ Len(s \o q) = Len(s) + Len(q)
      /\ DOMAIN s = 1..Len(s) /\ DOMAIN q = 1..Len(q)
  OBVIOUS
<1>2. i \in 1..(Len(s) + Len(q) - 1)
  BY <1>1
<1>3. \A k \in 1..(Len(s) + Len(q)) : (s \o q)[k] = IF k <= Len(s) THEN s[k] ELSE q[k - Len(s)]
  OBVIOUS
<1>4. CASE i + 1 <= Len(s)
  <2>1. s[i] < s[i + 1]
    BY <1>1, <1>2, <1>4 DEF C!Ascending
  <2>2. (s \o q)[i] = s[i] /\ (s \o q)[i + 1] = s[i + 1]
    BY <1>1, <1>2, <1>3, <1>4
  <2> QED
    BY <2>1, <2>2
<1>5. CASE i = Len(s)
  <2>1. (s \o q)[i] = s[i] /\ (s \o q)[i + 1] = q[1]
    BY <1>1, <1>2, <1>3, <1>5
  <2>2. i \in DOMAIN s /\ 1 \in DOMAIN q
    BY <1>1, <1>2, <1>5
  <2>3. s[i] <= c /\ q[1] > c /\ s[i] \in Nat /\ q[1] \in Nat
    BY <2>2
  <2> QED
    BY <2>1, <2>3
<1>6. CASE i > Len(s)
  <2>1. (s \o q)[i] = q[i - Len(s)] /\ (s \o q)[i + 1] = q[(i - Len(s)) + 1]
    BY <1>1, <1>2, <1>3, <1>6
  <2>2. i - Len(s) \in 1..(Len(q) - 1)
    BY <1>1, <1>2, <1>6
  <2> QED
    BY <2>1, <2>2 DEF C!Ascending
<1>7. i + 1 <= Len(s) \/ i = Len(s) \/ i > Len(s)
  <2>1. i \in Int /\ Len(s) \in Int
    BY <1>1, <1>2
  <2> QED
    BY <2>1
<1> QED
  BY <1>4, <1>5, <1>6, <1>7

\* A list of more than one ordinal is not ascending when it is turned round.
LEMMA ReversedIsNot ==
  ASSUME NEW q \in Seq(Nat), C!Ascending(q), Len(q) > 1
  PROVE  Reverse(q) \in Seq(Nat) /\ ~C!Ascending(Reverse(q))
<1> DEFINE t == Reverse(q)
<1>1. Len(q) \in Nat /\ Len(q) > 1 /\ DOMAIN q = 1..Len(q)
  OBVIOUS
<1>2. t = [i \in 1..Len(q) |-> q[(Len(q) - i) + 1]]
  BY DEF Reverse
<1>3. \A i \in 1..Len(q) : (Len(q) - i) + 1 \in 1..Len(q)
  BY <1>1
<1>4. t \in Seq(Nat) /\ Len(t) = Len(q)
  BY <1>1, <1>2, <1>3
<1>5. q[1] < q[2] /\ q[1] \in Nat /\ q[2] \in Nat
  BY <1>1 DEF C!Ascending
<1>6. t[Len(q) - 1] = q[2] /\ t[Len(q)] = q[1]
  <2>1. Len(q) - 1 \in 1..Len(q) /\ (Len(q) - (Len(q) - 1)) + 1 = 2
    BY <1>1
  <2>2. Len(q) \in 1..Len(q) /\ (Len(q) - Len(q)) + 1 = 1
    BY <1>1
  <2> QED
    BY <1>2, <2>1, <2>2
<1> HIDE DEF t
<1>7. C!Ascending(t) => t[Len(q) - 1] < t[Len(q)]
  <2>1. Len(q) - 1 \in 1..(Len(t) - 1) /\ (Len(q) - 1) + 1 = Len(q)
    BY <1>1, <1>4
  <2> QED
    BY <2>1 DEF C!Ascending
<1>8. ~C!Ascending(t)
  BY <1>5, <1>6, <1>7
<1> QED
  BY <1>4, <1>8 DEF t

-----------------------------------------------------------------------------
(* What the store answers *)

\* The limit cuts a batch off at its end: what comes before a hit is a hit.
LEMMA QueryHasNoGap ==
  ASSUME DeliveryAssumption, LogOK, NEW key, NEW after \in Nat, NEW l \in C!Query(key, after),
         NEW e \in DOMAIN log, e > after, e < l, C!Matches(log[e], key)
  PROVE  e \in C!Query(key, after)
<1> DEFINE hits == {i \in DOMAIN log : i > after /\ C!Matches(log[i], key)}
           Below(n) == {k \in hits : k < n}
<1>1. C!Query(key, after) = {i \in hits : C!Cardinality({k \in hits : k < i}) < Limit}
  BY DEF C!Query
<1>2. e \in hits /\ l \in hits /\ Cardinality(Below(l)) < Limit
  BY <1>1, SameCardinality
<1>3. DOMAIN log = 1..Len(log) /\ Len(log) \in Nat
  BY DEF LogOK
<1>4. Below(e) \subseteq Below(l)
  BY <1>2, <1>3
<1>5. IsFiniteSet(Below(l))
  <2>1. IsFiniteSet(1..Len(log)) /\ Below(l) \subseteq 1..Len(log)
    BY <1>3, FS_Interval
  <2> QED
    BY <2>1, FS_Subset
<1>6. Cardinality(Below(e)) <= Cardinality(Below(l)) /\ IsFiniteSet(Below(e))
  BY <1>4, <1>5, FS_Subset
<1>7. Cardinality(Below(e)) \in Nat /\ Cardinality(Below(l)) \in Nat /\ Limit \in Nat
  BY <1>5, <1>6, FS_CardinalityType DEF DeliveryAssumption
<1>8. Cardinality(Below(e)) < Limit
  <2> HIDE DEF Below
  <2> QED
    BY <1>2, <1>6, <1>7
<1> QED
  BY <1>1, <1>2, <1>8, SameCardinality

\* So what the store lists is a whole batch.
LEMMA AnswerIsWhole ==
  ASSUME DeliveryAssumption, LogOK, NEW key, NEW after \in Nat,
         NEW q \in C!Listings(C!Query(key, after))
  PROVE  q \in Seq(Nat) /\ C!Ascending(q) /\ WholeBatch(log, q, key, after)
<1> DEFINE S == C!Query(key, after)
<1>1. S \subseteq DOMAIN log /\ \A i \in S : i > after /\ C!Matches(log[i], key)
  BY DEF C!Query
<1>2. DOMAIN log = 1..Len(log) /\ Len(log) \in Nat
  BY DEF LogOK
<1>3. IsFiniteSet(S)
  <2>1. IsFiniteSet(1..Len(log)) /\ S \subseteq 1..Len(log)
    BY <1>1, <1>2, FS_Interval
  <2> QED
    BY <2>1, FS_Subset
<1>4. Cardinality(S) \in Nat
  BY <1>3, FS_CardinalityType
<1>5. q \in C!Listings(S)
  OBVIOUS
<1>6. \A i \in DOMAIN log : \A k \in S :
        i > after /\ i < k /\ C!Matches(log[i], key) => i \in S
  BY QueryHasNoGap
<1> HIDE DEF S
<1>7. /\ q \in [1..Cardinality(S) -> S] /\ C!Ascending(q)
      /\ S = {q[n] : n \in DOMAIN q}
  BY <1>5, SameCardinality DEF C!Listings, C!ToSet
<1>8. q \in Seq(Nat)
  <2>1. S \subseteq Nat
    BY <1>1, <1>2
  <2>2. q \in [1..Cardinality(S) -> Nat]
    BY <1>7, <2>1
  <2> QED
    BY <1>4, <2>2
<1>9. ASSUME NEW i \in DOMAIN log, q # <<>>, i > after, i <= Last(q), C!Matches(log[i], key)
      PROVE  \E n \in DOMAIN q : q[n] = i
  <2>1. Last(q) \in S /\ Last(q) \in Nat
    BY <1>7, <1>8, <1>9, LastIsLargest
  <2>2. i < Last(q) \/ i = Last(q)
    BY <1>2, <1>9, <2>1
  <2>3. i \in S
    BY <1>6, <1>9, <2>1, <2>2
  <2> QED
    BY <1>7, <2>3
<1>10. \A n \in DOMAIN q : q[n] \in S
  BY <1>7
<1> QED
  BY <1>1, <1>7, <1>8, <1>9, <1>10 DEF WholeBatch

-----------------------------------------------------------------------------
(* The channel *)

\* The two cursors in use.
LEMMA TwoInboxes ==
  /\ \A r \in Readers : Uses(r) \in C!Keys
  /\ \A r \in Readers : \A p \in Readers : Uses(r) = Uses(p) => r = p
  /\ Inbox \in C!Keys /\ HostInbox \in C!Keys
  /\ \A k \in C!Keys : k[1] = "main"
  /\ Uses("bus") = Inbox /\ Uses("host") = HostInbox
  BY DEF Inbox, HostInbox, C!Keys, Uses, Readers

\* A message more changes nothing behind any cursor, nor a batch already read.
LEMMA SendKeeps ==
  ASSUME CommInv, NEW t \in {"subtask_result", "status"}, NEW body \in Nat,
         t = "subtask_result" => body \in Jobs, C!Send("main", t, body)
  PROVE  /\ CommInv' /\ cursors' = cursors
         /\ log' = Append(log, [to |-> "main", type |-> t, body |-> body])
         /\ DOMAIN log' = 1..(Len(log) + 1) /\ DOMAIN log = 1..Len(log) /\ Len(log) \in Nat
         /\ \A i \in DOMAIN log : log'[i] = log[i]
<1> DEFINE m == [to |-> "main", type |-> t, body |-> body]
<1>1. log' = Append(log, m) /\ UNCHANGED <<cursors, reader, received>>
  BY DEF C!Send
<1>2. log \in Seq(Messages) /\ m \in Messages
  BY DEF CommInv, LogOK, Messages
<1>3. m.type = t /\ m.body = body
  OBVIOUS
<1> HIDE DEF m
<1>4. /\ log' \in Seq(Messages) /\ Len(log) \in Nat /\ Len(log') = Len(log) + 1
      /\ DOMAIN log = 1..Len(log) /\ DOMAIN log' = 1..(Len(log) + 1)
      /\ log'[Len(log) + 1] = m
  BY <1>1, <1>2
<1>5. \A i \in DOMAIN log : log'[i] = log[i] /\ i \in DOMAIN log'
  BY <1>1, <1>2, <1>4
<1>6. LogOK'
  <2>1. ASSUME NEW i \in DOMAIN log', log'[i].type = "subtask_result"
        PROVE  log'[i].body \in Jobs
    <3>1. i \in DOMAIN log \/ i = Len(log) + 1
      BY <1>4
    <3> QED
      BY <1>3, <1>4, <1>5, <2>1, <3>1 DEF CommInv, LogOK
  <2> QED
    BY <1>4, <2>1 DEF LogOK, Jobs
<1>7. ASSUME NEW k \in C!Keys
      PROVE  KeyOK(k)'
  <2>1. KeyOK(k) /\ cursors'[k] = cursors[k] /\ received'[k] = received[k]
    BY <1>1, <1>7 DEF CommInv
  <2>2. cursors[k] \in 0..(Len(log) + 1) /\ 1..cursors[k] \subseteq DOMAIN log
    BY <1>4, <2>1 DEF KeyOK
  <2>3. \A i \in 1..cursors[k] : C!Matches(log'[i], k) => Contains(received[k], i)
    BY <1>5, <2>1, <2>2 DEF KeyOK
  <2> QED
    BY <1>4, <2>1, <2>2, <2>3 DEF KeyOK, C!Matches, C!Ascending
<1>8. ASSUME NEW q \in Seq(Nat), NEW key, NEW after \in Nat, C!Ascending(q), WholeBatch(log, q, key, after)
      PROVE  WholeBatch(log', q, key, after)
  <2>1. \A n \in DOMAIN q : q[n] \in DOMAIN log /\ q[n] > after /\ C!Matches(log[q[n]], key)
    BY <1>8 DEF WholeBatch
  <2>2. \A n \in DOMAIN q : q[n] \in DOMAIN log' /\ q[n] > after /\ C!Matches(log'[q[n]], key)
    BY <1>5, <2>1
  <2>3. ASSUME NEW i \in DOMAIN log', q # <<>>, i > after, i <= Last(q), C!Matches(log'[i], key)
        PROVE  \E n \in DOMAIN q : q[n] = i
    <3>1. Last(q) \in DOMAIN log
      BY <1>8, <2>1, <2>3, LastIsLargest
    <3>2. i \in DOMAIN log
      BY <1>4, <2>3, <3>1
    <3> QED
      BY <1>5, <1>8, <2>3, <3>2 DEF WholeBatch
  <2> QED
    BY <2>2, <2>3 DEF WholeBatch
<1>9. ASSUME NEW r \in Readers, NEW key, ReadOK(r, key)
      PROVE  ReadOK(r, key)'
  <2>1. reader[r].batch \in Seq(Nat) /\ reader[r].after \in Nat
    BY DEF CommInv, Reads
  <2> QED
    BY <1>1, <1>8, <1>9, <2>1 DEF ReadOK
<1>10. \A r \in Readers : ReadOK(r, Uses(r))'
  BY <1>9 DEF CommInv, Uses
<1> QED
  BY <1>1, <1>4, <1>5, <1>6, <1>7, <1>10 DEF CommInv, m

\* A step that leaves the log, the cursors and the reads alone.
LEMMA ChannelStays ==
  ASSUME CommInv, UNCHANGED <<log, cursors, reader, received>>
  PROVE  CommInv'
<1>1. LogOK'
  BY DEF CommInv, LogOK
<1>2. \A k \in C!Keys : KeyOK(k)'
  BY DEF CommInv, KeyOK
<1>3. \A r \in Readers : ReadOK(r, Uses(r))'
  BY DEF CommInv, ReadOK
<1> QED
  BY <1>1, <1>2, <1>3 DEF CommInv

\* One read goes on; the log and the cursors stay.
LEMMA ReadGoesOn ==
  ASSUME CommInv, UNCHANGED <<log, cursors, received>>, NEW r \in Readers, NEW l \in Reads,
         reader' = [reader EXCEPT ![r] = l],
         l.at # "idle" => l.key = Uses(r) /\ l.after = cursors[Uses(r)],
         l.at = "answer" /\ C!Ascending(l.batch) => WholeBatch(log, l.batch, Uses(r), l.after)
  PROVE  CommInv'
<1>1. LogOK'
  BY DEF CommInv, LogOK
<1>2. \A k \in C!Keys : KeyOK(k)'
  BY DEF CommInv, KeyOK
<1>3. reader \in [Readers -> Reads]
  BY DEF CommInv
<1>4. reader'[r] = l /\ \A p \in Readers \ {r} : reader'[p] = reader[p]
  BY <1>3
<1>5. reader' \in [Readers -> Reads]
  BY <1>3
<1>6. ASSUME NEW p \in Readers
      PROVE  ReadOK(p, Uses(p))'
  <2>1. CASE p = r
    BY <1>4, <2>1 DEF ReadOK
  <2>2. CASE p # r
    <3>1. reader'[p] = reader[p] /\ ReadOK(p, Uses(p))
      BY <1>4, <1>6, <2>2 DEF CommInv
    <3> QED
      BY <3>1 DEF ReadOK
  <2> QED
    BY <2>1, <2>2
<1> QED
  BY <1>1, <1>2, <1>5, <1>6 DEF CommInv

\* consume awaits the store: it remembers the cursor it has read.
LEMMA StartKeeps ==
  ASSUME CommInv, NEW r \in Readers, C!ConsumeStart(r, Uses(r))
  PROVE  CommInv' /\ UNCHANGED <<log, cursors>>
<1> DEFINE l == [at |-> "query", key |-> Uses(r), after |-> cursors[Uses(r)], batch |-> <<>>]
<1>1. reader' = [reader EXCEPT ![r] = l] /\ UNCHANGED <<log, cursors, received>>
  BY DEF C!ConsumeStart
<1>2. Uses(r) \in C!Keys /\ cursors[Uses(r)] \in Nat
  BY TwoInboxes DEF CommInv
<1>3. <<>> \in Seq(Nat)
  OBVIOUS
<1>4. l \in Reads
  BY <1>2, <1>3 DEF Reads
<1>5. l.at = "query" /\ l.key = Uses(r) /\ l.after = cursors[Uses(r)]
  OBVIOUS
<1> HIDE DEF l
<1> QED
  BY <1>1, <1>4, <1>5, ReadGoesOn

\* The store looks at its log; what it lists out of order is not ascending.
LEMMA AnswerKeeps ==
  ASSUME DeliveryAssumption, CommInv, NEW r \in Readers, C!StoreAnswer(r)
  PROVE  CommInv' /\ UNCHANGED <<log, cursors>>
<1> DEFINE key == reader[r].key
           after == reader[r].after
<1>1. reader[r] \in Reads /\ ReadOK(r, Uses(r)) /\ LogOK
  BY DEF CommInv
<1>2. after \in Nat /\ reader[r].at = "query" /\ key = Uses(r) /\ after = cursors[Uses(r)]
  BY <1>1 DEF Reads, ReadOK, C!StoreAnswer, C!AnswersInOrder, C!AnswersMisordered
<1>3. PICK q \in C!Listings(C!Query(key, after)) :
        C!Answers(r, q) \/ (Len(q) > 1 /\ C!Answers(r, C!Reverse(q)))
  BY DEF C!StoreAnswer, C!AnswersInOrder, C!AnswersMisordered
<1>4. q \in Seq(Nat) /\ C!Ascending(q) /\ WholeBatch(log, q, key, after)
  BY <1>1, <1>2, <1>3, AnswerIsWhole
<1>5. ASSUME NEW b \in Seq(Nat), C!Answers(r, b), C!Ascending(b) => WholeBatch(log, b, key, after)
      PROVE  CommInv' /\ UNCHANGED <<log, cursors>>
  <2> DEFINE l == [reader[r] EXCEPT !.at = "answer", !.batch = b]
  <2>1. reader' = [reader EXCEPT ![r] = l] /\ UNCHANGED <<log, cursors, received>>
    BY <1>5 DEF C!Answers, CommInv
  <2>2. l \in Reads /\ l.key = key /\ l.after = after /\ l.batch = b
    BY <1>1, <1>5 DEF Reads
  <2> HIDE DEF l
  <2> QED
    BY <1>2, <1>5, <2>1, <2>2, ReadGoesOn
<1>6. CASE C!Answers(r, q)
  BY <1>4, <1>5, <1>6
<1>7. CASE Len(q) > 1 /\ C!Answers(r, C!Reverse(q))
  <2>1. Reverse(q) \in Seq(Nat) /\ ~C!Ascending(Reverse(q)) /\ C!Answers(r, Reverse(q))
    BY <1>4, <1>7, ReversedIsNot, SameLists
  <2> QED
    BY <1>5, <2>1
<1> QED
  BY <1>3, <1>6, <1>7

\* The cursor moves to the last ordinal of a whole batch, or stays.
LEMMA ReturnKeeps ==
  ASSUME CommInv, NEW r \in Readers, C!ConsumeReturn(r)
  PROVE  /\ CommInv' /\ log' = log
         /\ \A k \in C!Keys : k # Uses(r) => cursors'[k] = cursors[k]
         /\ reader[r].batch \in Seq(Nat)
         /\ \/ /\ C!Ascending(reader[r].batch) /\ reader[r].batch # <<>>
               /\ WholeBatch(log, reader[r].batch, Uses(r), cursors[Uses(r)])
               /\ cursors'[Uses(r)] = Last(reader[r].batch)
            \/ cursors' = cursors
<1> DEFINE key == Uses(r)
           q == reader[r].batch
           l == C!NotReading
<1>1. /\ reader[r] \in Reads /\ ReadOK(r, key) /\ LogOK /\ KeyOK(key) /\ key \in C!Keys
      /\ cursors \in [C!Keys -> Nat] /\ received \in [C!Keys -> Seq(Nat)]
      /\ reader \in [Readers -> Reads]
  BY TwoInboxes DEF CommInv
<1>2. /\ reader[r].at = "answer" /\ reader' = [reader EXCEPT ![r] = l] /\ log' = log
      /\ reader[r].key = key /\ reader[r].after = cursors[key] /\ q \in Seq(Nat)
  BY <1>1 DEF C!ConsumeReturn, ReadOK, Reads
<1>3. l \in Reads /\ l.at = "idle"
  BY DEF C!NotReading, Reads
<1> HIDE DEF l
<1>4. CASE UNCHANGED <<cursors, received>>
  <2>1. CommInv'
    BY <1>2, <1>3, <1>4, ReadGoesOn
  <2> QED
    BY <1>2, <1>4, <2>1
<1>5. CASE /\ q # <<>> /\ C!Ascending(q)
           /\ cursors' = [cursors EXCEPT ![key] = Last(q)]
           /\ received' = [received EXCEPT ![key] = @ \o q]
  <2>1. WholeBatch(log, q, key, cursors[key])
    BY <1>1, <1>2, <1>5 DEF ReadOK
  <2>2. /\ Last(q) \in Nat /\ Len(q) \in DOMAIN q /\ Last(q) = q[Len(q)]
        /\ \A n \in DOMAIN q : q[n] \in Nat /\ q[n] <= Last(q)
    BY <1>2, <1>5, LastIsLargest
  <2> DEFINE c == cursors[key]
             s == received[key]
  <2>3. /\ c \in Nat /\ s \in Seq(Nat) /\ C!Ascending(s)
        /\ \A n \in DOMAIN s : s[n] <= c
        /\ \A i \in 1..c : C!Matches(log[i], key) => Contains(s, i)
    BY <1>1 DEF KeyOK
  <2>4. /\ \A n \in DOMAIN q : q[n] \in DOMAIN log /\ q[n] > c
        /\ \A i \in DOMAIN log : i > c /\ i <= Last(q) /\ C!Matches(log[i], key)
             => \E n \in DOMAIN q : q[n] = i
    BY <1>5, <2>1 DEF WholeBatch
  <2>5. /\ cursors'[key] = Last(q) /\ received'[key] = s \o q
        /\ \A k \in C!Keys \ {key} : cursors'[k] = cursors[k] /\ received'[k] = received[k]
        /\ cursors' \in [C!Keys -> Nat]
    BY <1>1, <1>5, <2>2
  <2>6. received' \in [C!Keys -> Seq(Nat)]
    BY <1>1, <1>2, <1>5
  <2> HIDE DEF c, s
  <2>7. Last(q) \in DOMAIN log /\ Last(q) > c
    BY <2>2, <2>4
  <2>8. Last(q) \in 0..Len(log) /\ DOMAIN log = 1..Len(log) /\ Len(log) \in Nat
    BY <1>1, <2>7 DEF LogOK
  <2>9. C!Ascending(s \o q)
    BY <1>2, <1>5, <2>3, <2>4, AscendingGoesOn
  <2>10. /\ DOMAIN (s \o q) = 1..(Len(s) + Len(q)) /\ Len(s) \in Nat /\ Len(q) \in Nat
         /\ DOMAIN s = 1..Len(s) /\ DOMAIN q = 1..Len(q) /\ Len(s \o q) = Len(s) + Len(q)
         /\ \A n \in 1..(Len(s) + Len(q)) :
              (s \o q)[n] = IF n <= Len(s) THEN s[n] ELSE q[n - Len(s)]
    BY <1>2, <2>3
  <2>11. ASSUME NEW n \in DOMAIN (s \o q)
         PROVE  (s \o q)[n] <= Last(q)
    <3>1. CASE n <= Len(s)
      <4>1. (s \o q)[n] = s[n] /\ n \in DOMAIN s
        BY <2>10, <3>1
      <4>2. s[n] <= c /\ s[n] \in Nat
        BY <2>3, <4>1
      <4> QED
        BY <2>2, <2>3, <2>7, <4>1, <4>2
    <3>2. CASE n > Len(s)
      <4>1. (s \o q)[n] = q[n - Len(s)] /\ n - Len(s) \in DOMAIN q
        BY <2>10, <3>2
      <4> QED
        BY <2>2, <4>1
    <3>3. n \in Nat
      BY <2>10
    <3> QED
      BY <2>10, <3>1, <3>2, <3>3
  <2>12. ASSUME NEW i \in 1..Last(q), C!Matches(log[i], key)
         PROVE  Contains(s \o q, i)
    <3>1. CASE i <= c
      <4>1. Contains(s, i)
        BY <2>3, <2>12, <3>1
      <4>2. PICK n \in 1..Len(s) : s[n] = i
        BY <4>1 DEF Contains
      <4>3. n \in 1..Len(s \o q) /\ (s \o q)[n] = i
        BY <2>10, <4>2
      <4> QED
        BY <4>3 DEF Contains
    <3>2. CASE i > c
      <4>1. i \in DOMAIN log /\ i <= Last(q)
        BY <2>2, <2>8, <2>12
      <4>2. PICK n \in DOMAIN q : q[n] = i
        BY <2>4, <2>12, <3>2, <4>1
      <4>3. Len(s) + n \in 1..(Len(s) + Len(q)) /\ ~(Len(s) + n <= Len(s)) /\ (Len(s) + n) - Len(s) = n
        BY <2>10, <4>2
      <4>4. (s \o q)[Len(s) + n] = i
        BY <2>10, <4>2, <4>3
      <4> QED
        BY <2>10, <4>3, <4>4 DEF Contains
    <3> QED
      BY <2>2, <2>3, <3>1, <3>2
  <2>13. ASSUME NEW k \in C!Keys
         PROVE  KeyOK(k)'
    <3>1. CASE k = key
      BY <1>2, <2>5, <2>8, <2>9, <2>11, <2>12, <3>1 DEF KeyOK
    <3>2. CASE k # key
      <4>1. KeyOK(k) /\ cursors'[k] = cursors[k] /\ received'[k] = received[k]
        BY <2>5, <2>13, <3>2 DEF CommInv
      <4> QED
        BY <1>2, <4>1 DEF KeyOK
    <3> QED
      BY <3>1, <3>2
  <2>14. ASSUME NEW p \in Readers
         PROVE  ReadOK(p, Uses(p))'
    <3>1. CASE p = r
      <4>1. reader'[p].at = "idle"
        BY <1>1, <1>2, <1>3, <3>1
      <4> QED
        BY <4>1 DEF ReadOK
    <3>2. CASE p # r
      <4>1. reader'[p] = reader[p] /\ ReadOK(p, Uses(p)) /\ Uses(p) \in C!Keys /\ Uses(p) # key
        BY <1>1, <1>2, <2>14, <3>2, TwoInboxes DEF CommInv
      <4>2. cursors'[Uses(p)] = cursors[Uses(p)]
        BY <2>5, <4>1
      <4> QED
        BY <1>2, <4>1, <4>2 DEF ReadOK
    <3> QED
      BY <3>1, <3>2
  <2>15. LogOK' /\ reader' \in [Readers -> Reads]
    BY <1>1, <1>2, <1>3 DEF LogOK
  <2>16. CommInv'
    BY <2>5, <2>6, <2>13, <2>14, <2>15 DEF CommInv
  <2> QED
    BY <1>2, <1>5, <2>1, <2>5, <2>16 DEF c
<1>6. \/ UNCHANGED <<cursors, received>>
      \/ /\ q # <<>> /\ C!Ascending(q)
         /\ cursors' = [cursors EXCEPT ![key] = Last(q)]
         /\ received' = [received EXCEPT ![key] = @ \o q]
  BY <1>2, SameLists DEF C!ConsumeReturn
<1> QED
  BY <1>4, <1>5, <1>6

\* A replay or a restart: no read is under way, and the cursors start again.
LEMMA RewindKeeps ==
  ASSUME CommInv, log' = log, reader' \in [Readers -> Reads],
         \A r \in Readers : reader'[r].at = "idle",
         cursors' = [k \in C!Keys |-> 0], received' = [k \in C!Keys |-> <<>>]
  PROVE  CommInv'
<1>1. LogOK' /\ Len(log) \in Nat
  BY DEF CommInv, LogOK
<1>2. ASSUME NEW k \in C!Keys
      PROVE  KeyOK(k)'
  <2>1. cursors'[k] = 0 /\ received'[k] = <<>>
    BY <1>2
  <2> QED
    BY <1>1, <2>1 DEF KeyOK, C!Ascending
<1>3. ASSUME NEW r \in Readers
      PROVE  ReadOK(r, Uses(r))'
  BY <1>3 DEF ReadOK
<1>4. cursors' \in [C!Keys -> Nat] /\ received' \in [C!Keys -> Seq(Nat)]
  OBVIOUS
<1> QED
  BY <1>1, <1>2, <1>3, <1>4 DEF CommInv

-----------------------------------------------------------------------------
(* The results in memory *)

\* A result the coordinator has, or will be handed from memory.
Kept(j) == handed[j] > 0 \/ Contains(results, j) \/ Contains(recovered, j)

\* What the operators on sequences keep.
LEMMA StillContained ==
  ASSUME NEW s \in Seq(Jobs), NEW t \in Seq(Jobs), NEW e \in Jobs, NEW j
  PROVE  /\ Contains(s, j) => Contains(Append(s, e), j)
         /\ Contains(s, j) => Contains(s \o t, j)
         /\ Contains(t, j) => Contains(s \o t, j)
         /\ Contains(s, j) => s # <<>> /\ (j = Head(s) \/ Contains(Tail(s), j))
<1>1. Contains(s, j) => Contains(Append(s, e), j)
  <2> SUFFICES ASSUME Contains(s, j) PROVE Contains(Append(s, e), j)
    OBVIOUS
  <2>1. PICK n \in 1..Len(s) : s[n] = j
    BY DEF Contains
  <2>2. n \in 1..Len(Append(s, e)) /\ Append(s, e)[n] = j
    BY <2>1
  <2> QED
    BY <2>2 DEF Contains
<1>2. Contains(s, j) => Contains(s \o t, j)
  <2> SUFFICES ASSUME Contains(s, j) PROVE Contains(s \o t, j)
    OBVIOUS
  <2>1. PICK n \in 1..Len(s) : s[n] = j
    BY DEF Contains
  <2>2. n \in 1..Len(s \o t) /\ (s \o t)[n] = j
    BY <2>1
  <2> QED
    BY <2>2 DEF Contains
<1>3. Contains(t, j) => Contains(s \o t, j)
  <2> SUFFICES ASSUME Contains(t, j) PROVE Contains(s \o t, j)
    OBVIOUS
  <2>1. PICK n \in 1..Len(t) : t[n] = j
    BY DEF Contains
  <2>2. /\ Len(s) \in Nat /\ Len(t) \in Nat /\ Len(s \o t) = Len(s) + Len(t)
        /\ \A k \in 1..(Len(s) + Len(t)) :
              (s \o t)[k] = IF k <= Len(s) THEN s[k] ELSE t[k - Len(s)]
    OBVIOUS
  <2>3. /\ Len(s) + n \in 1..(Len(s) + Len(t)) /\ ~(Len(s) + n <= Len(s))
        /\ (Len(s) + n) - Len(s) = n
    BY <2>1, <2>2
  <2>4. (s \o t)[Len(s) + n] = j
    BY <2>1, <2>2, <2>3
  <2> QED
    BY <2>2, <2>3, <2>4 DEF Contains
<1>4. Contains(s, j) => s # <<>> /\ (j = Head(s) \/ Contains(Tail(s), j))
  <2> SUFFICES ASSUME Contains(s, j) PROVE s # <<>> /\ (j = Head(s) \/ Contains(Tail(s), j))
    OBVIOUS
  <2>1. PICK n \in 1..Len(s) : s[n] = j
    BY DEF Contains
  <2>2. s # <<>> /\ Len(s) \in Nat /\ Len(s) > 0
    BY <2>1
  <2>3. CASE n = 1
    BY <2>1, <2>2, <2>3
  <2>4. CASE n > 1
    <3>1. n - 1 \in 1..Len(Tail(s)) /\ Tail(s)[n - 1] = j
      BY <2>1, <2>2, <2>4
    <3> QED
      BY <2>2, <3>1 DEF Contains
  <2> QED
    BY <2>1, <2>2, <2>3, <2>4
<1> QED
  BY <1>1, <1>2, <1>3, <1>4

\* Handing over the head of a list keeps what was in it.
LEMMA HandKeeps ==
  ASSUME handed \in [Jobs -> Nat], NEW s \in Seq(Jobs), s # <<>>, Hand(Head(s))
  PROVE  /\ Head(s) \in Jobs /\ Tail(s) \in Seq(Jobs) /\ handed' \in [Jobs -> Nat]
         /\ \A j \in Jobs : handed[j] > 0 => handed'[j] > 0
         /\ \A j : Contains(s, j) => Contains(Tail(s), j) \/ handed'[j] > 0
         /\ handed'[Head(s)] > 0
<1>1. Head(s) \in Jobs /\ Tail(s) \in Seq(Jobs)
  OBVIOUS
<1> DEFINE h == Head(s)
<1> HIDE DEF h
<1>2. handed' = [handed EXCEPT ![h] = handed[h] + 1] /\ h \in Jobs
  BY <1>1 DEF Hand, h
<1>3. /\ handed' \in [Jobs -> Nat] /\ handed'[h] > 0
      /\ \A j \in Jobs : handed[j] > 0 => handed'[j] > 0
  BY <1>2
<1>4. ASSUME NEW j, Contains(s, j)
      PROVE  Contains(Tail(s), j) \/ handed'[j] > 0
  <2>1. j = Head(s) \/ Contains(Tail(s), j)
    BY <1>1, <1>4, StillContained
  <2> QED
    BY <1>3, <2>1 DEF h
<1> QED
  BY <1>1, <1>3, <1>4 DEF h

\* A step that moves no cursor loses nothing that memory keeps.
LEMMA MemoryStep ==
  ASSUME IInv, CommInv', MemoryOK', log' = log, cursors'[Inbox] = cursors[Inbox],
         \A j \in Jobs : Kept(j) => Kept(j)'
  PROVE  IInv'
<1>1. NotLost'
  <2> SUFFICES ASSUME NEW i \in DOMAIN log', log'[i].type = "subtask_result"
               PROVE  Kept(log[i].body)' \/ i > cursors'[Inbox]
    BY DEF NotLost, Kept
  <2>1. i \in DOMAIN log /\ log[i].type = "subtask_result" /\ log[i].body \in Jobs
    BY DEF IInv, CommInv, LogOK
  <2>2. Kept(log[i].body) \/ i > cursors[Inbox]
    BY <2>1 DEF IInv, NotLost, Kept
  <2>3. Kept(log[i].body) => Kept(log[i].body)'
    <3> DEFINE j == log[i].body
    <3>1. j \in Jobs /\ j' = j
      BY <2>1
    <3> QED
      BY <3>1 DEF Kept
  <2> QED
    BY <2>2, <2>3
<1> QED
  BY <1>1 DEF IInv

\* wait_any_session finds a ready result.
LEMMA PopKeeps ==
  ASSUME MemoryOK, PopReadyResult, recovered' = recovered
  PROVE  MemoryOK' /\ \A j \in Jobs : Kept(j) => Kept(j)'
<1>1. /\ results \in Seq(Jobs) /\ recovered \in Seq(Jobs) /\ delivered \subseteq Jobs
      /\ handed \in [Jobs -> Nat] /\ \A j \in delivered : handed[j] > 0 \/ Contains(recovered, j)
  BY DEF MemoryOK
<1>2. /\ results # <<>> /\ Hand(Head(results)) /\ results' = Tail(results)
      /\ delivered' = delivered \cup {Head(results)}
  BY DEF PopReadyResult
<1>3. /\ Head(results) \in Jobs /\ results' \in Seq(Jobs) /\ handed' \in [Jobs -> Nat]
      /\ \A j \in Jobs : handed[j] > 0 => handed'[j] > 0
      /\ \A j : Contains(results, j) => Contains(results', j) \/ handed'[j] > 0
      /\ handed'[Head(results)] > 0
  BY <1>1, <1>2, HandKeeps
<1>4. \A j \in delivered' : handed'[j] > 0 \/ Contains(recovered', j)
  BY <1>1, <1>2, <1>3
<1>5. \A j \in Jobs : Kept(j) => Kept(j)'
  BY <1>3 DEF Kept
<1> QED
  BY <1>1, <1>2, <1>3, <1>4, <1>5 DEF MemoryOK

\* The memory is left alone.
LEMMA MemoryStays ==
  ASSUME MemoryOK, UNCHANGED <<results, delivered, recovered, handed>>
  PROVE  MemoryOK' /\ \A j \in Jobs : Kept(j) => Kept(j)'
  BY DEF MemoryOK, Kept

-----------------------------------------------------------------------------
(* One lemma per way the system moves *)

\* The job's coroutine.
LEMMA JobKeeps ==
  ASSUME IInv, NEW j \in Jobs, StartJob(j) \/ Publish(j) \/ SendResult(j)
  PROVE  IInv'
<1>0. CommInv /\ MemoryOK /\ NotLost
  BY DEF IInv
<1>1. CASE StartJob(j)
  <2>1. CommInv' /\ MemoryOK' /\ \A i \in Jobs : Kept(i) => Kept(i)'
    BY <1>0, <1>1, ChannelStays, MemoryStays DEF StartJob, commVars
  <2> QED
    BY <1>1, <2>1, MemoryStep DEF StartJob, commVars
<1>2. CASE Publish(j)
  <2>1. /\ results' = Append(results, j) /\ UNCHANGED <<delivered, recovered, handed>>
        /\ UNCHANGED <<log, cursors, reader, received>>
    BY <1>2 DEF Publish, commVars
  <2>2. results \in Seq(Jobs) /\ results' \in Seq(Jobs)
    BY <1>0, <2>1 DEF MemoryOK
  <2>3. CommInv' /\ MemoryOK'
    BY <1>0, <2>1, <2>2, ChannelStays DEF MemoryOK
  <2>4. \A i : Contains(results, i) => Contains(results', i)
    BY <2>1, <2>2, StillContained
  <2>5. \A i \in Jobs : Kept(i) => Kept(i)'
    BY <2>1, <2>4 DEF Kept
  <2> QED
    BY <2>1, <2>3, <2>5, MemoryStep
<1>3. CASE SendResult(j)
  <2>1. UNCHANGED <<results, delivered, recovered, handed>>
    BY <1>3 DEF SendResult
  <2>2. MemoryOK' /\ \A i \in Jobs : Kept(i) => Kept(i)'
    BY <1>0, <2>1, MemoryStays
  <2>3. CASE UNCHANGED commVars
    <3>1. CommInv'
      BY <1>0, <2>3, ChannelStays DEF commVars
    <3> QED
      BY <2>2, <2>3, <3>1, MemoryStep DEF commVars
  <2>4. CASE C!Send("main", "subtask_result", j)
    <3>1. j \in Nat
      BY DEF Jobs
    <3>2. /\ CommInv' /\ cursors' = cursors
          /\ DOMAIN log' = 1..(Len(log) + 1) /\ DOMAIN log = 1..Len(log) /\ Len(log) \in Nat
          /\ \A i \in DOMAIN log : log'[i] = log[i]
      BY <1>0, <2>4, <3>1, SendKeeps
    <3>3. cursors[Inbox] \in 0..Len(log)
      BY <1>0, TwoInboxes DEF CommInv, KeyOK
    <3>4. NotLost'
      <4> SUFFICES ASSUME NEW i \in DOMAIN log', log'[i].type = "subtask_result"
                   PROVE  \/ handed'[log'[i].body] > 0
                          \/ Contains(results', log'[i].body) \/ Contains(recovered', log'[i].body)
                          \/ i > cursors'[Inbox]
        BY DEF NotLost
      <4>1. CASE i \in DOMAIN log
        BY <1>0, <2>1, <3>2, <4>1 DEF NotLost
      <4>2. CASE i = Len(log) + 1
        BY <3>2, <3>3, <4>2
      <4> QED
        BY <3>2, <4>1, <4>2
    <3> QED
      BY <2>2, <3>2, <3>4 DEF IInv
  <2> QED
    BY <1>3, <2>3, <2>4 DEF SendResult
<1> QED
  BY <1>1, <1>2, <1>3

\* The coordinator waits, and is woken.
LEMMA WaitKeeps ==
  ASSUME IInv, Wait \/ Unblock
  PROVE  IInv'
<1>0. CommInv /\ MemoryOK
  BY DEF IInv
<1>1. CASE PopReadyResult /\ UNCHANGED <<recovered, commVars>>
  <2>1. MemoryOK' /\ \A j \in Jobs : Kept(j) => Kept(j)'
    BY <1>0, <1>1, PopKeeps
  <2>2. UNCHANGED <<log, cursors, reader, received>>
    BY <1>1 DEF commVars
  <2>3. CommInv'
    BY <1>0, <2>2, ChannelStays
  <2> QED
    BY <2>1, <2>2, <2>3, MemoryStep
<1>2. CASE UNCHANGED <<results, delivered, recovered, handed, commVars>>
  <2>1. MemoryOK' /\ \A j \in Jobs : Kept(j) => Kept(j)'
    BY <1>0, <1>2, MemoryStays
  <2>2. UNCHANGED <<log, cursors, reader, received>>
    BY <1>2 DEF commVars
  <2>3. CommInv'
    BY <1>0, <2>2, ChannelStays
  <2> QED
    BY <2>1, <2>2, <2>3, MemoryStep
<1>3. CASE /\ recovered # <<>> /\ Hand(Head(recovered)) /\ recovered' = Tail(recovered)
           /\ UNCHANGED <<results, delivered, commVars>>
  <2>1. UNCHANGED <<log, cursors, reader, received, results, delivered>>
    BY <1>3 DEF commVars
  <2>2. /\ recovered \in Seq(Jobs) /\ handed \in [Jobs -> Nat] /\ delivered \subseteq Jobs
        /\ \A j \in delivered : handed[j] > 0 \/ Contains(recovered, j)
    BY <1>0 DEF MemoryOK
  <2>3. /\ recovered' \in Seq(Jobs) /\ handed' \in [Jobs -> Nat]
        /\ \A j \in Jobs : handed[j] > 0 => handed'[j] > 0
        /\ \A j : Contains(recovered, j) => Contains(recovered', j) \/ handed'[j] > 0
    BY <1>3, <2>2, HandKeeps
  <2>4. MemoryOK'
    BY <1>0, <2>1, <2>2, <2>3 DEF MemoryOK
  <2>5. \A j \in Jobs : Kept(j) => Kept(j)'
    BY <2>1, <2>3 DEF Kept
  <2>6. CommInv'
    BY <1>0, <2>1, ChannelStays
  <2> QED
    BY <2>1, <2>4, <2>5, <2>6, MemoryStep
<1>4. CASE C!ConsumeStart("bus", Inbox) /\ UNCHANGED <<results, delivered, recovered, handed>>
  <2>1. CommInv' /\ UNCHANGED <<log, cursors>>
    BY <1>0, <1>4, StartKeeps, TwoInboxes DEF Readers
  <2>2. MemoryOK' /\ \A j \in Jobs : Kept(j) => Kept(j)'
    BY <1>0, <1>4, MemoryStays
  <2> QED
    BY <2>1, <2>2, MemoryStep
<1> QED
  BY <1>1, <1>2, <1>3, <1>4 DEF Wait, Unblock

\* What a batch brings: its jobs that were not delivered, each of them.
LEMMA UnknownJobs ==
  ASSUME CommInv, NEW fresh \in Unknown, reader["bus"].at = "answer",
         NEW q, q = reader["bus"].batch
  PROVE  /\ fresh \in Seq(Jobs)
         /\ C!Ascending(q) => \A n \in DOMAIN q :
              /\ log[q[n]].body \in Jobs
              /\ log[q[n]].body \in delivered \/ log[q[n]].body \in ToSet(fresh)
<1> DEFINE batch == IF C!Ascending(q) THEN q ELSE <<>>
           body(i) == log[batch[i]].body
           new == {i \in DOMAIN batch : body(i) \notin delivered}
<1>1. PICK at \in C!Listings(new) : fresh = [i \in DOMAIN at |-> body(at[i])]
  BY DEF Unknown
<1>2. q \in Seq(Nat) /\ ReadOK("bus", Inbox) /\ LogOK
  <2>1. reader["bus"] \in Reads /\ ReadOK("bus", Uses("bus"))
    BY DEF CommInv, Readers
  <2> QED
    BY <2>1, TwoInboxes DEF CommInv, Reads
<1>3. C!Ascending(q) => \A n \in DOMAIN q :
        q[n] \in DOMAIN log /\ C!Matches(log[q[n]], Inbox)
  BY <1>2 DEF ReadOK, WholeBatch
<1>4. C!Ascending(q) => \A n \in DOMAIN q : log[q[n]].body \in Jobs
  <2>1. \A i \in DOMAIN log : C!Matches(log[i], Inbox) => log[i].type = "subtask_result"
    BY DEF C!Matches, Inbox
  <2> QED
    BY <1>2, <1>3, <2>1 DEF LogOK
<1>5. batch \in Seq(Nat) /\ DOMAIN batch = 1..Len(batch) /\ Len(batch) \in Nat
  BY <1>2
<1>6. \A i \in DOMAIN batch : body(i) \in Jobs
  BY <1>4
<1>7. \A i : i \in new <=> i \in DOMAIN batch /\ body(i) \notin delivered
  OBVIOUS
<1>8. C!Ascending(q) => batch = q
  OBVIOUS
<1> HIDE DEF new, batch
<1>9. IsFiniteSet(new)
  <2>1. Len(batch) \in Int
    BY <1>5
  <2>2. IsFiniteSet(1..Len(batch))
    BY <2>1, FS_Interval
  <2>3. new \subseteq 1..Len(batch)
    BY <1>5, <1>7
  <2> QED
    BY <2>2, <2>3, FS_Subset
<1>10. Cardinality(new) \in Nat
  BY <1>9, FS_CardinalityType
<1>11. at \in [1..Cardinality(new) -> new] /\ new = {at[n] : n \in DOMAIN at}
  BY <1>1, SameCardinality DEF C!Listings, C!ToSet
<1>12. fresh \in Seq(Jobs)
  <2>1. \A n \in DOMAIN at : body(at[n]) \in Jobs
    BY <1>6, <1>7, <1>11
  <2>2. DOMAIN at = 1..Cardinality(new)
    BY <1>11
  <2>3. fresh \in [1..Cardinality(new) -> Jobs]
    BY <1>1, <2>1, <2>2
  <2> QED
    BY <1>10, <2>3
<1>13. ASSUME NEW i \in new
       PROVE  body(i) \in ToSet(fresh)
  <2>1. PICK n \in DOMAIN at : at[n] = i
    BY <1>11
  <2>2. n \in DOMAIN fresh /\ fresh[n] = body(i)
    BY <1>1, <2>1
  <2> QED
    BY <2>2 DEF ToSet
<1>14. ASSUME C!Ascending(q), NEW n \in DOMAIN q
       PROVE  log[q[n]].body \in delivered \/ log[q[n]].body \in ToSet(fresh)
  <2>1. batch = q
    BY <1>8, <1>14
  <2>2. body(n) \in delivered \/ n \in new
    BY <1>7, <1>14, <2>1
  <2> QED
    BY <1>13, <2>1, <2>2
<1> QED
  BY <1>4, <1>12, <1>14

\* The batch is in: what the cursor passed is delivered now, or was.
LEMMA RecoverKeeps ==
  ASSUME IInv, Recover
  PROVE  IInv'
<1>0. CommInv /\ MemoryOK /\ NotLost
  BY DEF IInv
<1> DEFINE q == reader["bus"].batch
<1>1. C!ConsumeReturn("bus") /\ reader["bus"].at = "answer" /\ results' = results
  BY DEF Recover, C!ConsumeReturn
<1>2. PICK fresh \in Unknown :
        /\ delivered' = delivered \cup ToSet(fresh)
        /\ IF recovered \o fresh = <<>> THEN UNCHANGED <<handed, recovered>>
           ELSE Hand(Head(recovered \o fresh)) /\ recovered' = Tail(recovered \o fresh)
  BY DEF Recover
<1>3. /\ CommInv' /\ log' = log
      /\ \/ /\ C!Ascending(q) /\ q # <<>> /\ WholeBatch(log, q, Inbox, cursors[Inbox])
            /\ cursors'[Inbox] = Last(q)
         \/ cursors' = cursors
  BY <1>0, <1>1, ReturnKeeps, TwoInboxes DEF Readers
<1>4. /\ fresh \in Seq(Jobs)
      /\ C!Ascending(q) => \A n \in DOMAIN q :
           /\ log[q[n]].body \in Jobs
           /\ log[q[n]].body \in delivered \/ log[q[n]].body \in ToSet(fresh)
  BY <1>0, <1>1, UnknownJobs
<1>5. /\ recovered \in Seq(Jobs) /\ handed \in [Jobs -> Nat] /\ delivered \subseteq Jobs
      /\ \A j \in delivered : handed[j] > 0 \/ Contains(recovered, j)
  BY <1>0 DEF MemoryOK
<1> DEFINE all == recovered \o fresh
<1>6. all \in Seq(Jobs)
  BY <1>4, <1>5
<1>7. /\ \A j : Contains(recovered, j) => Contains(all, j)
      /\ \A j : j \in ToSet(fresh) => Contains(all, j) /\ j \in Jobs
  <2>1. ASSUME NEW j, j \in ToSet(fresh)
        PROVE  Contains(fresh, j) /\ j \in Jobs
    <3>1. PICK n \in DOMAIN fresh : fresh[n] = j
      BY <2>1 DEF ToSet
    <3>2. n \in 1..Len(fresh) /\ j \in Jobs
      BY <1>4, <3>1
    <3> QED
      BY <3>1, <3>2 DEF Contains
  <2>2. ASSUME NEW j
        PROVE  (Contains(recovered, j) => Contains(all, j)) /\ (Contains(fresh, j) => Contains(all, j))
    <3>1. CASE Jobs = {}
      <4>1. recovered = <<>> /\ fresh = <<>>
        BY <1>4, <1>5, <3>1
      <4> QED
        BY <4>1 DEF Contains
    <3>2. CASE Jobs # {}
      BY <1>4, <1>5, <3>2, StillContained
    <3> QED
      BY <3>1, <3>2
  <2> QED
    BY <2>1, <2>2
<1>8. ASSUME all = <<>>
      PROVE  MemoryOK' /\ \A j \in Jobs : Kept(j) => Kept(j)'
  <2>1. UNCHANGED <<handed, recovered>> /\ \A j : ~Contains(all, j)
    BY <1>2, <1>8 DEF Contains
  <2>2. MemoryOK'
    BY <1>0, <1>1, <1>2, <1>5, <1>7, <2>1 DEF MemoryOK
  <2>3. \A j \in Jobs : Kept(j) => Kept(j)'
    BY <1>1, <2>1 DEF Kept
  <2> QED
    BY <2>2, <2>3
<1>9. ASSUME all # <<>>
      PROVE  MemoryOK' /\ \A j \in Jobs : Kept(j) => Kept(j)'
  <2> HIDE DEF all
  <2>1. Hand(Head(all)) /\ recovered' = Tail(all)
    BY <1>2, <1>9 DEF all
  <2>2. /\ recovered' \in Seq(Jobs) /\ handed' \in [Jobs -> Nat]
        /\ \A j \in Jobs : handed[j] > 0 => handed'[j] > 0
        /\ \A j : Contains(all, j) => Contains(recovered', j) \/ handed'[j] > 0
    BY <1>5, <1>6, <1>9, <2>1, HandKeeps
  <2>3. \A j \in delivered' : j \in Jobs /\ (handed'[j] > 0 \/ Contains(recovered', j))
    BY <1>2, <1>5, <1>7, <2>2
  <2>4. MemoryOK'
    BY <1>0, <1>1, <2>2, <2>3 DEF MemoryOK
  <2>5. \A j \in Jobs : Kept(j) => Kept(j)'
    BY <1>1, <1>7, <2>2 DEF Kept
  <2> QED
    BY <2>4, <2>5
<1>10. MemoryOK' /\ \A j \in Jobs : Kept(j) => Kept(j)'
  BY <1>8, <1>9
<1>11. CASE cursors' = cursors
  BY <1>3, <1>10, <1>11, MemoryStep
<1>12. CASE /\ C!Ascending(q) /\ q # <<>> /\ WholeBatch(log, q, Inbox, cursors[Inbox])
            /\ cursors'[Inbox] = Last(q)
  <2>1. NotLost'
    <3> SUFFICES ASSUME NEW i \in DOMAIN log', log'[i].type = "subtask_result",
                        ~(i > cursors'[Inbox])
                 PROVE  Kept(log[i].body)'
      BY <1>3 DEF NotLost, Kept
    <3> DEFINE j == log[i].body
    <3>1. /\ i \in DOMAIN log /\ log[i].type = "subtask_result" /\ j \in Jobs /\ j' = j
          /\ log[i] \in Messages /\ i \in Nat
      BY <1>0, <1>3 DEF CommInv, LogOK
    <3>2. C!Matches(log[i], Inbox)
      BY <3>1 DEF C!Matches, Inbox, Messages
    <3>3. Last(q) \in Nat /\ cursors[Inbox] \in Nat
      <4>1. q \in Seq(Nat)
        BY <1>0 DEF CommInv, Reads, Readers
      <4> QED
        BY <1>0, <1>12, <4>1, LastIsLargest, TwoInboxes DEF CommInv
    <3>4. CASE i > cursors[Inbox]
      <4>1. i <= Last(q)
        BY <1>12, <3>1, <3>3
      <4>2. PICK n \in DOMAIN q : q[n] = i
        BY <1>12, <3>1, <3>2, <3>4, <4>1 DEF WholeBatch
      <4>3. j \in delivered'
        BY <1>2, <1>4, <1>12, <4>2
      <4> QED
        BY <1>10, <3>1, <4>3 DEF MemoryOK, Kept
    <3>5. CASE ~(i > cursors[Inbox])
      <4>1. Kept(j)
        BY <1>0, <3>1, <3>5 DEF NotLost, Kept
      <4> QED
        BY <1>10, <3>1, <4>1 DEF Kept
    <3> QED
      BY <3>4, <3>5
  <2> QED
    BY <1>3, <1>10, <2>1 DEF IInv
<1> QED
  BY <1>3, <1>11, <1>12

\* The host's side of the channel, and the store.
LEMMA HostKeeps ==
  ASSUME DeliveryAssumption, IInv, StoreAnswer \/ HostSends \/ HostReads \/ HostResets
  PROVE  IInv'
<1>0. CommInv /\ MemoryOK /\ NotLost
  BY DEF IInv
<1>1. UNCHANGED <<results, delivered, recovered, handed>>
  BY DEF StoreAnswer, HostSends, HostReads, HostResets, busVars
<1>2. MemoryOK' /\ \A j \in Jobs : Kept(j) => Kept(j)'
  BY <1>0, <1>1, MemoryStays
<1>3. CASE StoreAnswer
  <2>1. PICK r \in Readers : C!StoreAnswer(r)
    BY <1>3 DEF StoreAnswer, Readers
  <2>2. CommInv' /\ UNCHANGED <<log, cursors>>
    BY <1>0, <2>1, AnswerKeeps
  <2> QED
    BY <1>2, <2>2, MemoryStep
<1>4. CASE HostSends
  <2>1. C!Send("main", "status", 0)
    BY <1>4 DEF HostSends, NoJob
  <2>2. /\ CommInv' /\ cursors' = cursors
        /\ log' = Append(log, [to |-> "main", type |-> "status", body |-> 0])
        /\ DOMAIN log' = 1..(Len(log) + 1) /\ DOMAIN log = 1..Len(log) /\ Len(log) \in Nat
        /\ \A i \in DOMAIN log : log'[i] = log[i]
    BY <1>0, <2>1, SendKeeps
  <2>3. log'[Len(log) + 1].type = "status"
    BY <1>0, <2>2 DEF CommInv, LogOK
  <2>4. NotLost'
    <3> SUFFICES ASSUME NEW i \in DOMAIN log', log'[i].type = "subtask_result"
                 PROVE  \/ handed'[log'[i].body] > 0
                        \/ Contains(results', log'[i].body) \/ Contains(recovered', log'[i].body)
                        \/ i > cursors'[Inbox]
      BY DEF NotLost
    <3>1. i \in DOMAIN log
      BY <2>2, <2>3
    <3> QED
      BY <1>0, <1>1, <2>2, <3>1 DEF NotLost
  <2> QED
    BY <1>2, <2>2, <2>4 DEF IInv
<1>5. CASE HostReads
  <2>1. CASE C!ConsumeStart("host", HostInbox)
    <3>1. CommInv' /\ UNCHANGED <<log, cursors>>
      BY <1>0, <2>1, StartKeeps, TwoInboxes DEF Readers
    <3> QED
      BY <1>2, <3>1, MemoryStep
  <2>2. CASE C!ConsumeReturn("host")
    <3>1. CommInv' /\ log' = log /\ cursors'[Inbox] = cursors[Inbox]
      BY <1>0, <2>2, ReturnKeeps, TwoInboxes DEF Readers
    <3> QED
      BY <1>2, <3>1, MemoryStep
  <2>3. CASE (\E n \in sending : C!SendHot(n)) \/ C!HotGet("main")
    <3>1. UNCHANGED <<log, cursors, reader, received>>
      BY <2>3 DEF C!SendHot, C!HotGet
    <3>2. CommInv'
      BY <1>0, <3>1, ChannelStays
    <3> QED
      BY <1>2, <3>1, <3>2, MemoryStep
  <2> QED
    BY <1>5, <2>1, <2>2, <2>3 DEF HostReads
<1>6. CASE HostResets
  <2>1. /\ \A r \in Readers : reader[r].at = "idle"
        /\ C!ResetCursor("main", "any")
    BY <1>6 DEF HostResets, Readers
  <2>2. /\ log' = log /\ reader' = reader
        /\ cursors' = [k \in C!Keys |-> 0] /\ received' = [k \in C!Keys |-> <<>>]
    BY <2>1, TwoInboxes DEF C!ResetCursor
  <2>3. CommInv'
    BY <1>0, <2>1, <2>2, RewindKeeps DEF CommInv
  <2>4. NotLost'
    <3>1. \A i \in DOMAIN log' : i > cursors'[Inbox]
      BY <1>0, <2>2, TwoInboxes DEF CommInv, LogOK
    <3> QED
      BY <3>1 DEF NotLost
  <2> QED
    BY <1>2, <2>3, <2>4 DEF IInv
<1> QED
  BY <1>3, <1>4, <1>5, <1>6

\* After a restart everything persisted lies ahead of the cursors.
LEMMA RestartKeeps ==
  ASSUME IInv, Restart
  PROVE  IInv'
<1>0. CommInv
  BY DEF IInv
<1>1. /\ results' = <<>> /\ recovered' = <<>> /\ delivered' = {}
      /\ handed' = [j \in Jobs |-> 0] /\ log' = log
      /\ cursors' = [k \in C!Keys |-> 0] /\ received' = [k \in C!Keys |-> <<>>]
      /\ reader' = [r \in Readers |-> C!NotReading]
  BY DEF Restart, Readers
<1>2. C!NotReading \in Reads /\ C!NotReading.at = "idle"
  BY DEF C!NotReading, Reads
<1>3. CommInv'
  BY <1>0, <1>1, <1>2, RewindKeeps
<1>4. MemoryOK'
  BY <1>1 DEF MemoryOK
<1>5. NotLost'
  <2>1. \A i \in DOMAIN log' : i > cursors'[Inbox]
    BY <1>0, <1>1, TwoInboxes DEF CommInv, LogOK
  <2> QED
    BY <2>1 DEF NotLost
<1> QED
  BY <1>3, <1>4, <1>5 DEF IInv

-----------------------------------------------------------------------------
(* Theorems *)

\* The inductive invariant of result delivery.
THEOREM DeliveryInvariant == Spec => []IInv
<1>1. Init => IInv
  <2> SUFFICES ASSUME Init PROVE IInv
    OBVIOUS
  <2>1. /\ log = <<>> /\ cursors = [k \in C!Keys |-> 0] /\ received = [k \in C!Keys |-> <<>>]
        /\ reader = [r \in Readers |-> C!NotReading]
        /\ results = <<>> /\ recovered = <<>> /\ delivered = {} /\ handed = [j \in Jobs |-> 0]
    BY DEF Init, C!CommInit, Readers
  <2>2. C!NotReading \in Reads /\ C!NotReading.at = "idle"
    BY DEF C!NotReading, Reads
  <2>3. \A r \in Readers : ReadOK(r, Uses(r))
    BY <2>1, <2>2 DEF ReadOK
  <2>4. ASSUME NEW k \in C!Keys
        PROVE  KeyOK(k)
    BY <2>1, <2>4 DEF KeyOK, C!Ascending
  <2>5. LogOK
    BY <2>1 DEF LogOK
  <2>6. CommInv
    BY <2>1, <2>2, <2>3, <2>4, <2>5 DEF CommInv
  <2>7. MemoryOK /\ NotLost
    BY <2>1 DEF MemoryOK, NotLost
  <2> QED
    BY <2>6, <2>7 DEF IInv
<1>2. IInv /\ [Next]_vars => IInv'
  <2> SUFFICES ASSUME IInv, [Next]_vars PROVE IInv'
    OBVIOUS
  <2>1. CASE Next
    BY <2>1, DeliveryAssumption, JobKeeps, WaitKeeps, RecoverKeeps, HostKeeps, RestartKeeps DEF Next
  <2>2. CASE UNCHANGED vars
    <3>1. /\ UNCHANGED <<log, cursors, reader, received>>
          /\ UNCHANGED <<results, delivered, recovered, handed>>
      BY <2>2 DEF vars, busVars, commVars
    <3>2. CommInv'
      BY <3>1, ChannelStays DEF IInv
    <3>3. MemoryOK' /\ \A j \in Jobs : Kept(j) => Kept(j)'
      BY <3>1, MemoryStays DEF IInv
    <3> QED
      BY <3>1, <3>2, <3>3, MemoryStep
  <2> QED
    BY <2>1, <2>2
<1> QED
  BY <1>1, <1>2, PTL DEF Spec

\* bus.py, _reconcile_from_messages: a persisted result was handed over, waits
\* in memory, or lies ahead of the cursor, whatever is popped, recovered in
\* batches, replayed or restarted.
THEOREM ResultsAreNotLost == Spec => []NotLost
<1>1. IInv => NotLost
  BY DEF IInv
<1> QED
  BY <1>1, DeliveryInvariant, PTL

\* agent_comm.py, consume: every reader is handed the messages of its type
\* exactly once, in order and without a gap.
THEOREM MailIsExact == Spec => []MailExact
<1>1. IInv => MailExact
  <2> SUFFICES ASSUME IInv PROVE MailExact
    OBVIOUS
  <2>1. \A k \in C!Keys : KeyOK(k)
    BY DEF IInv, CommInv
  <2>2. C!ExactlyOnceInOrder
    BY <2>1 DEF KeyOK, C!ExactlyOnceInOrder
  <2>3. C!NothingSkipped
    BY <2>1, SameLists DEF KeyOK, C!NothingSkipped
  <2> QED
    BY <2>2, <2>3 DEF MailExact, MailOnceInOrder, MailNotSkipped
<1> QED
  BY <1>1, DeliveryInvariant, PTL
=============================================================================
