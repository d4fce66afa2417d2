----------------------- MODULE WriteAuditCycleProofs -----------------------
(***************************************************************************)
(* Proofs about WriteAuditCycle: the trail of a cycle is complete, success *)
(* is what the judges of the last round said of a finished output, and the *)
(* budget is only overrun where it could not be foreseen, for any number   *)
(* of rounds and judges, under every auditor.                              *)
(***************************************************************************)
EXTENDS WriteAuditCycle, SequenceTheorems, FiniteSetTheorems, WellFoundedInduction, TLAPS

IsList(s) == \E S : s \in Seq(S)
Working == {"generate", "write", "written", "audit"}

\* Where run() stands.
Place ==
  /\ pc \in Working \cup {"top", "ended", "chosen", "raised"}
  /\ round \in Nat /\ round <= MaxRounds /\ (pc \in Working => round < MaxRounds)
  /\ mode \in Modes /\ artifact \in Nat /\ (pc = "audit" => artifact # 0)

\* The trail up to now, the prompts that were made of it and the report the
\* next one will be made of.
Trail ==
  /\ IsList(history) /\ IsList(asked)
  /\ files = [r \in Rounds |-> files[r]]
  /\ \A i \in DOMAIN asked : asked[i][1] \in 0..Len(history)
  /\ ~Ended => prev = IF Len(history) = 0 THEN NoAudit ELSE history[Len(history)].audit
  /\ TrailComplete

\* The writer's session has this round's job last, and nothing once it is done.
Queue ==
  /\ writer \in Seq(Nat)
  /\ pc \in {"written", "audit"} => writer = <<>>
  /\ pc \in {"top", "generate"} => \A i \in DOMAIN writer : writer[i] < round
  /\ pc = "write" => /\ Len(writer) > 0 /\ writer[Len(writer)] = round
                     /\ \A i \in 1..(Len(writer) - 1) : writer[i] < round

\* No judge passes what it did not like, and a pipeline goes on only past the
\* members that passed.
Honest(c) == c.verdict \in Success => c.kind = "audit" \/ c.score >= PassThreshold
Panel ==
  /\ IsList(calls) /\ \A k \in DOMAIN calls : Honest(calls[k])
  /\ pc \in {"generate", "write", "written"} => calls = <<>>
  /\ pc = "audit" =>
       /\ mode \in Gathered \cup {"pipeline"} => Len(calls) <= Members
       /\ mode = "bare" => Len(calls) <= 1
       /\ mode = "pipeline" => \A i \in 1..(Len(calls) - 1) : calls[i].verdict = "success"

\* Success is the end of it.
Earned == SuccessEarned /\ (output.success => Ended)

\* A round is only begun when the longest of the last rounds still fits.
Clock ==
  /\ elapsed \in Nat /\ durations \in Seq(Nat) /\ Len(durations) <= 3
  /\ Len(history) = 0 <=> Len(durations) = 0
  /\ pc \in Working /\ MaxWall # 0 =>
       \A i \in 1..Len(durations) : durations[i] * RatioPct <= (MaxWall - elapsed) * 100
  /\ WallRespected

IInv == Place /\ Trail /\ Queue /\ Panel /\ Earned /\ Clock

-----------------------------------------------------------------------------
(* Lists *)

\* What append does to a list.
LEMMA Appended ==
  ASSUME NEW s, IsList(s), NEW e
  PROVE  /\ IsList(Append(s, e)) /\ Len(s) \in Nat /\ DOMAIN s = 1..Len(s)
         /\ Len(Append(s, e)) = Len(s) + 1 /\ DOMAIN Append(s, e) = 1..(Len(s) + 1)
         /\ Append(s, e)[Len(s) + 1] = e
         /\ \A i \in 1..Len(s) : Append(s, e)[i] = s[i]
<1>1. PICK S : s \in Seq(S)
  BY DEF IsList
<1> DEFINE T == S \cup {e}
<1>2. s \in Seq(T) /\ e \in T
  BY <1>1, SeqMonotonic
<1> HIDE DEF T
<1>3. Append(s, e) \in Seq(T)
  BY <1>2
<1> QED
  BY <1>2, <1>3 DEF IsList

\* What replacing an entry does.
LEMMA Replaced ==
  ASSUME NEW s, NEW e, NEW t, IsList(s), DOMAIN t = DOMAIN s, t = [i \in DOMAIN t |-> t[i]],
         \A i \in DOMAIN s : t[i] \in {e, s[i]}
  PROVE  IsList(t) /\ Len(t) = Len(s)
<1>1. PICK S : s \in Seq(S)
  BY DEF IsList
<1> DEFINE T == S \cup {e}
<1>2. DOMAIN s = 1..Len(s) /\ Len(s) \in Nat /\ \A i \in DOMAIN s : s[i] \in S
  BY <1>1
<1>3. t \in [1..Len(s) -> T]
  BY <1>2
<1> HIDE DEF T
<1>4. t \in Seq(T) /\ Len(t) = Len(s)
  BY <1>2, <1>3
<1> QED
  BY <1>4 DEF IsList

\* The empty list.
LEMMA EmptyList == IsList(<<>>) /\ Len(<<>>) = 0 /\ DOMAIN <<>> = {}
<1>1. <<>> \in Seq({})
  OBVIOUS
<1> QED
  BY <1>1 DEF IsList

\* A list without entries is the empty one.
LEMMA NoEntries ==
  ASSUME NEW s, IsList(s)
  PROVE  Len(s) \in Nat /\ DOMAIN s = 1..Len(s) /\ (s = <<>> <=> Len(s) = 0)
<1>1. PICK S : s \in Seq(S)
  BY DEF IsList
<1> QED
  BY <1>1

-----------------------------------------------------------------------------
(* The end of a round *)

\* What closing a round comes to: the entry is added, and run() ends or goes on
\* to the next round.
Closes(out, audit, success) ==
  /\ history' = Append(history, [out |-> out, audit |-> audit])
  /\ files' = [files EXCEPT ![round] = IF round \in Unwritable THEN @ ELSE audit]
  /\ calls' = calls
  /\ \/ /\ pc' = "ended" /\ round' = round /\ prev' = prev
        /\ \E reason : output' = [success |-> success, rounds |-> round + 1, out |-> out,
                                  audit |-> audit, reason |-> reason]
     \/ pc' = "top" /\ round' = round + 1 /\ prev' = audit /\ output' = output

\* Success is only reported on a verdict that is one.
LEMMA Closing ==
  ASSUME NEW out, NEW audit, NEW synthetic \in BOOLEAN, CloseRound(out, audit, synthetic)
  PROVE  \E success \in BOOLEAN :
           /\ Closes(out, audit, success)
           /\ success => ~synthetic /\ audit.verdict \in Success
<1>1. /\ history' = Append(history, [out |-> out, audit |-> audit])
      /\ files' = [files EXCEPT ![round] = IF round \in Unwritable THEN @ ELSE audit]
      /\ calls' = calls
  BY DEF CloseRound, Persist
<1>2. AfterAudit(out, audit, synthetic)
  BY DEF CloseRound
<1>3. CASE /\ Finalize(FALSE, round + 1, out, audit, "observer_aborted")
           /\ UNCHANGED <<round, prev>>
  <2>1. Closes(out, audit, FALSE)
    BY <1>1, <1>3 DEF Closes, Finalize
  <2>2. FALSE \in BOOLEAN
    BY Zenon
  <2> QED
    BY <2>1, <2>2, Zenon
<1>4. CASE /\ ~synthetic
           /\ Finalize(audit.verdict \in Success, round + 1, out, audit, "verdict")
           /\ UNCHANGED <<round, prev>>
  <2>1. Closes(out, audit, audit.verdict \in Success)
    BY <1>1, <1>4 DEF Closes, Finalize
  <2>2. (audit.verdict \in Success) \in BOOLEAN
    OBVIOUS
  <2> QED
    BY <1>4, <2>1, <2>2, Zenon
<1>5. CASE pc' = "top" /\ round' = round + 1 /\ prev' = audit /\ UNCHANGED output
  <2>1. Closes(out, audit, FALSE)
    BY <1>1, <1>5 DEF Closes
  <2>2. FALSE \in BOOLEAN
    BY Zenon
  <2> QED
    BY <2>1, <2>2, Zenon
<1> QED
  BY <1>2, <1>3, <1>4, <1>5 DEF AfterAudit

\* A closed round is the next entry of the trail.
LEMMA ClosedTrail ==
  ASSUME CycleAssumption, IInv, pc \in Working, NEW out, NEW audit, NEW success,
         Closes(out, audit, success), asked' = asked
  PROVE  Trail'
<1> DEFINE n == Len(history)
           entry == [out |-> out, audit |-> audit]
<1>1. /\ history' = Append(history, entry) /\ entry.audit = audit
      /\ files' = [files EXCEPT ![round] = IF round \in Unwritable THEN files[round] ELSE audit]
  BY DEF Closes
<1>2. n \in Nat /\ n = round /\ round \in Rounds
  <2>1. n \in Nat
    BY NoEntries DEF IInv, Trail
  <2>2. n = round
    BY DEF IInv, Trail, TrailComplete, Ended, Working
  <2>3. round \in Nat /\ round < MaxRounds /\ MaxRounds \in Nat
    BY DEF IInv, Place, CycleAssumption, ValidCycle
  <2> QED
    BY <2>1, <2>2, <2>3 DEF Rounds
<1>3. /\ IsList(history') /\ Len(history') = n + 1 /\ history'[n + 1] = entry
      /\ \A i \in 1..n : history'[i] = history[i]
  <2> HIDE DEF entry
  <2> QED
    BY <1>1, Appended DEF IInv, Trail
<1> HIDE DEF n, entry
<1>4. files' = [r \in Rounds |-> files'[r]]
      /\ \A r \in Rounds : files'[r] = IF r = round /\ round \notin Unwritable THEN audit ELSE files[r]
  BY <1>1, <1>2 DEF IInv, Trail
<1>5. \A r \in Rounds : files[r] = IF r < n /\ r \notin Unwritable THEN history[r + 1].audit ELSE NoAudit
  BY DEF IInv, Trail, TrailComplete, n
<1>6. \A r \in Rounds : files'[r] = IF r < n + 1 /\ r \notin Unwritable THEN history'[r + 1].audit
                                    ELSE NoAudit
  <2> TAKE r \in Rounds
  <2>1. r \in Nat
    BY DEF Rounds, CycleAssumption, ValidCycle
  <2>2. CASE r < n
    <3>1. history'[r + 1] = history[r + 1] /\ r # round /\ r < n + 1
      BY <1>2, <1>3, <2>1, <2>2
    <3> QED
      BY <1>4, <1>5, <2>2, <3>1
  <2>3. CASE r = n
    <3>1. history'[r + 1].audit = audit /\ r = round /\ r < n + 1 /\ ~(r < n)
      BY <1>1, <1>2, <1>3, <2>1, <2>3
    <3> QED
      BY <1>4, <1>5, <3>1
  <2>4. CASE r > n
    <3>1. r # round /\ ~(r < n + 1) /\ ~(r < n)
      BY <1>2, <2>1, <2>4
    <3> QED
      BY <1>4, <1>5, <3>1
  <2> QED
    BY <1>2, <2>1, <2>2, <2>3, <2>4
<1>7. /\ IsList(asked')
      /\ \A i \in DOMAIN asked' : asked'[i][1] \in 0..(n + 1)
      /\ \A i \in DOMAIN asked' :
           asked'[i][1] > 0 => asked'[i][2] = Render(history'[asked'[i][1]].audit)
  <2>1. /\ IsList(asked)
        /\ \A i \in DOMAIN asked : /\ asked[i][1] \in 0..n
                                   /\ asked[i][1] > 0 => asked[i][2] = Render(history[asked[i][1]].audit)
    BY DEF IInv, Trail, TrailComplete, n
  <2>2. \A i \in DOMAIN asked : /\ asked[i][1] \in 0..(n + 1)
                                /\ asked[i][1] > 0 => history'[asked[i][1]] = history[asked[i][1]]
    BY <1>2, <1>3, <2>1
  <2> QED
    BY <2>1, <2>2
<1>8. CASE pc' = "top"
  <2>1. round' = n + 1 /\ prev' = audit
    BY <1>2, <1>8 DEF Closes
  <2>2. TrailComplete'
    BY <1>3, <1>6, <1>7, <1>8, <2>1 DEF TrailComplete, Ended
  <2>3. ~Ended'
    BY <1>8 DEF Ended
  <2>4. prev' = IF Len(history') = 0 THEN NoAudit ELSE history'[Len(history')].audit
    BY <1>1, <1>2, <1>3, <2>1
  <2> QED
    BY <1>3, <1>4, <1>7, <2>2, <2>3, <2>4 DEF Trail
<1>9. CASE pc' = "ended"
  <2>1. output'.rounds = n + 1 /\ output'.audit = audit
    BY <1>2, <1>9 DEF Closes
  <2>2. Ended' /\ ~StoppedByWriterHook'
    BY <1>2, <1>3, <1>9, <2>1 DEF Ended, StoppedByWriterHook
  <2>3. Last(history').audit = audit
    BY <1>1, <1>3 DEF Last
  <2>4. TrailComplete'
    BY <1>2, <1>3, <1>6, <1>7, <2>1, <2>2, <2>3 DEF TrailComplete
  <2> QED
    BY <1>3, <1>4, <1>7, <2>2, <2>4 DEF Trail
<1> QED
  BY <1>8, <1>9 DEF Closes

\* A round that overran the budget took longer than was to be foreseen.
LEMMA ClosedClock ==
  ASSUME CycleAssumption, HostAssumption, IInv, pc \in Working, NEW out, NEW audit, NEW synthetic,
         CloseRound(out, audit, synthetic), pc' \in {"top", "ended"}
  PROVE  Clock'
<1>1. PICK d \in Durations :
        /\ elapsed' = elapsed + d
        /\ durations' = IF Len(durations) = 3 THEN Append(Tail(durations), d) ELSE Append(durations, d)
  BY DEF CloseRound
<1>2. /\ elapsed \in Nat /\ durations \in Seq(Nat) /\ Len(durations) <= 3 /\ d \in Nat
      /\ MaxWall \in Nat /\ RatioPct \in Nat
  BY DEF IInv, Clock, HostAssumption, CycleAssumption, ValidCycle
<1>3. /\ durations' \in Seq(Nat) /\ Len(durations') \in 1..3 /\ durations'[Len(durations')] = d
      /\ \A i \in 1..(Len(durations') - 1) : \E j \in 1..Len(durations) : durations'[i] = durations[j]
  <2>1. CASE Len(durations) = 3
    <3>1. durations' = Append(Tail(durations), d)
      BY <1>1, <2>1
    <3>2. Tail(durations) \in Seq(Nat) /\ Len(Tail(durations)) = 2
          /\ \A i \in 1..2 : Tail(durations)[i] = durations[i + 1]
      <4>1. durations # <<>>
        BY <2>1
      <4>2. /\ Tail(durations) \in Seq(Nat) /\ Len(Tail(durations)) = Len(durations) - 1
            /\ \A i \in 1..Len(Tail(durations)) : Tail(durations)[i] = durations[i + 1]
        BY <1>2, <4>1, HeadTailProperties
      <4>3. Len(Tail(durations)) = 2
        BY <2>1, <4>2
      <4> QED
        BY <4>2, <4>3
    <3> DEFINE t == Tail(durations)
    <3>3. /\ durations' \in Seq(Nat) /\ Len(durations') = Len(t) + 1 /\ durations'[Len(t) + 1] = d
          /\ \A i \in 1..Len(t) : durations'[i] = t[i]
      <4> HIDE DEF t
      <4>1. t \in Seq(Nat) /\ durations' = Append(t, d)
        BY <3>1, <3>2 DEF t
      <4> QED
        BY <1>2, <4>1, AppendProperties
    <3>4. /\ durations' \in Seq(Nat) /\ Len(durations') = 3 /\ durations'[3] = d
          /\ \A i \in 1..2 : durations'[i] = durations[i + 1]
      <4>1. Len(t) = 2 /\ \A i \in 1..2 : t[i] = durations[i + 1]
        BY <3>2
      <4> HIDE DEF t
      <4> QED
        BY <3>3, <4>1
    <3> QED
      BY <2>1, <3>4
  <2>2. CASE Len(durations) # 3
    <3>1. durations' = Append(durations, d) /\ Len(durations) \in 0..2
      <4>1. durations' = Append(durations, d)
        BY <1>1, <2>2
      <4> DEFINE m == Len(durations)
      <4>2. m \in Nat /\ m <= 3 /\ m # 3
        BY <1>2, <2>2
      <4> HIDE DEF m
      <4>3. m \in 0..2
        BY <4>2
      <4> QED
        BY <4>1, <4>3 DEF m
    <3> QED
      BY <1>2, <3>1
  <2> QED
    BY <2>1, <2>2
<1>4. Len(history') \in Nat /\ Len(history') = Len(history) + 1 /\ Len(history) \in Nat
  <2>1. history' = Append(history, [out |-> out, audit |-> audit])
    BY DEF CloseRound
  <2> QED
    BY <2>1, Appended DEF IInv, Trail
<1>5. WallRespected'
  <2> SUFFICES ASSUME MaxWall # 0, elapsed' > MaxWall, NEW i \in 1..(Len(durations') - 1)
               PROVE  d * 100 > durations'[i] * RatioPct
    BY <1>3 DEF WallRespected, Last
  <2>1. PICK j \in 1..Len(durations) : durations'[i] = durations[j]
    BY <1>3
  <2>2. durations[j] * RatioPct <= (MaxWall - elapsed) * 100
    BY DEF IInv, Clock
  <2>3. durations[j] \in Nat
    BY <1>2
  <2> DEFINE x == durations[j] * RatioPct
  <2>4. x \in Int /\ x <= (MaxWall - elapsed) * 100
    BY <1>2, <2>2, <2>3
  <2> HIDE DEF x
  <2>5. d * 100 > x
    BY <1>1, <1>2, <2>4
  <2> QED
    BY <2>1, <2>5 DEF x
<1>6. elapsed' \in Nat /\ Len(durations') <= 3 /\ Len(durations') # 0 /\ Len(history') # 0
      /\ pc' \notin Working
  <2>1. elapsed' \in Nat
    BY <1>1, <1>2
  <2>2. Len(durations') <= 3 /\ Len(durations') # 0
    <3>1. \A m \in 1..3 : m <= 3 /\ m # 0
      OBVIOUS
    <3> QED
      BY <1>3, <3>1
  <2>3. Len(history') # 0
    BY <1>4
  <2> QED
    BY <2>1, <2>2, <2>3 DEF Working
<1> QED
  BY <1>3, <1>5, <1>6 DEF Clock

\* Whether a verdict is backed depends on the judges' answers alone.
LEMMA BackedStands ==
  ASSUME UNCHANGED <<mode, calls>>
  PROVE  Backed' <=> Backed
<1>1. Passing' = Passing
  BY DEF Passing
<1>2. Valid' = Valid
  BY DEF Valid, Answered
<1>3. \A v : Cardinality({k \in Valid' : calls'[k].verdict = v}) = Cardinality({k \in Valid : calls[k].verdict = v})
  BY <1>2
<1>4. (\E v \in Success : Votes(v) > 0 /\ \A k \in Valid : Votes(calls[k].verdict) <= Votes(v))'
       <=> \E v \in Success : Votes(v) > 0 /\ \A k \in Valid : Votes(calls[k].verdict) <= Votes(v)
  BY <1>2, <1>3 DEF Votes
<1>5. (\E t \in {calls[k].score : k \in Valid} \ {NoScore} :
         Cardinality({k \in Valid : calls[k].score = t}) * 2 > Cardinality(Valid))'
       <=> \E t \in {calls[k].score : k \in Valid} \ {NoScore} :
             Cardinality({k \in Valid : calls[k].score = t}) * 2 > Cardinality(Valid)
  BY <1>2
<1> QED
  BY <1>1, <1>4, <1>5 DEF Backed

\* A round that is closed on what its judges said.
LEMMA CloseRoundKeeps ==
  ASSUME CycleAssumption, HostAssumption, IInv, pc \in Working, NEW out, NEW audit,
         NEW synthetic \in BOOLEAN, CloseRound(out, audit, synthetic),
         UNCHANGED <<mode, writer, asked, artifact>>,
         ~synthetic /\ audit.verdict \in Success => out = round /\ artifact # 0 /\ Backed
  PROVE  IInv'
<1>1. PICK success \in BOOLEAN : /\ Closes(out, audit, success)
                                 /\ success => ~synthetic /\ audit.verdict \in Success
  BY Closing
<1>2. /\ pc' \in {"top", "ended"} /\ calls' = calls /\ round' \in {round, round + 1}
      /\ pc' = "top" => round' = round + 1
  BY <1>1 DEF Closes
<1>3. round \in Nat /\ round < MaxRounds /\ MaxRounds \in Nat
  BY DEF IInv, Place, CycleAssumption, ValidCycle
<1>4. Place'
  BY <1>2, <1>3 DEF IInv, Place, Working
<1>5. Trail'
  BY <1>1, ClosedTrail
<1>6. Queue'
  <2>1. writer \in Seq(Nat)
    BY DEF IInv, Queue
  <2>2. \A i \in DOMAIN writer : writer[i] < round + 1
    <3>1. CASE pc = "generate"
      BY <1>3, <2>1, <3>1 DEF IInv, Queue
    <3>2. CASE pc = "write"
      BY <1>3, <2>1, <3>2 DEF IInv, Queue
    <3>3. CASE pc \in {"written", "audit"}
      BY <3>3 DEF IInv, Queue
    <3> QED
      BY <3>1, <3>2, <3>3 DEF Working
  <2> QED
    BY <1>2, <2>1, <2>2 DEF Queue
<1>7. Panel'
  BY <1>2 DEF IInv, Panel
<1>8. Earned'
  <2>1. ~output.success
    BY DEF IInv, Earned, Ended, Working
  <2>2. CASE pc' = "top"
    <3>1. output' = output
      BY <1>1, <2>2 DEF Closes
    <3> QED
      BY <2>1, <3>1 DEF Earned, SuccessEarned
  <2>3. CASE pc' = "ended"
    <3>1. output'.success = success /\ output'.rounds = round + 1 /\ output'.out = out
          /\ output'.audit = audit
      BY <1>1, <2>3 DEF Closes
    <3>2. ASSUME success
          PROVE  SuccessEarned'
      <4>1. audit.verdict \in Success /\ out = round /\ artifact # 0 /\ Backed
        BY <1>1, <3>2
      <4>2. Backed'
        BY <1>2, <4>1, BackedStands
      <4>3. \A k \in Passing' : calls'[k].kind = "audit" \/ calls'[k].score >= PassThreshold
        BY <1>2 DEF IInv, Panel, Honest, Passing
      <4>4. output'.out = output'.rounds - 1
        BY <1>3, <3>1, <4>1
      <4> QED
        BY <3>1, <4>1, <4>2, <4>3, <4>4 DEF SuccessEarned
    <3>3. ~success => SuccessEarned'
      BY <3>1 DEF SuccessEarned
    <3> QED
      BY <2>3, <3>2, <3>3 DEF Earned, Ended
  <2> QED
    BY <1>2, <2>2, <2>3
<1>9. Clock'
  BY <1>2, ClosedClock
<1> QED
  BY <1>4, <1>5, <1>6, <1>7, <1>8, <1>9 DEF IInv

-----------------------------------------------------------------------------
(* The steps of a round *)

\* What the steps inside a round leave alone.
LEMMA TrailStands ==
  ASSUME Trail, UNCHANGED <<history, asked, files, prev, output, round>>, Ended' <=> Ended
  PROVE  Trail'
<1>1. StoppedByWriterHook' <=> StoppedByWriterHook
  BY DEF StoppedByWriterHook
<1>2. TrailComplete'
  BY <1>1 DEF Trail, TrailComplete
<1> QED
  BY <1>2 DEF Trail

\* A success that was reported stays one.
LEMMA EarnedStands ==
  ASSUME Earned, UNCHANGED <<mode, output>>, Ended' <=> Ended,
         output.success => calls' = calls /\ artifact' # 0
  PROVE  Earned'
<1>1. CASE ~output.success
  BY <1>1 DEF Earned, SuccessEarned
<1>2. CASE output.success
  <2>1. Backed'
    BY <1>2, BackedStands DEF Earned, SuccessEarned
  <2>2. Passing' = Passing
    BY <1>2 DEF Passing
  <2> QED
    BY <1>2, <2>1, <2>2 DEF Earned, SuccessEarned
<1> QED
  BY <1>1, <1>2

\* So does the account of time.
LEMMA ClockStands ==
  ASSUME Clock, UNCHANGED <<elapsed, durations, history>>, pc' \in Working => pc \in Working
  PROVE  Clock'
  BY DEF Clock, WallRespected

\* While run() is in a round there is no output yet.
LEMMA NoSuccessYet ==
  ASSUME IInv, ~Ended
  PROVE  ~output.success
  BY DEF IInv, Earned

\* Initially nothing has been written.
LEMMA InitHolds ==
  ASSUME CycleAssumption, Init
  PROVE  IInv
<1>1. /\ pc = "top" /\ round = 0 /\ prev = NoAudit /\ history = <<>> /\ files = [r \in Rounds |-> NoAudit]
      /\ elapsed = 0 /\ durations = <<>> /\ writer = <<>> /\ asked = <<>> /\ artifact = 0
      /\ calls = <<>> /\ mode \in Modes /\ output = NoOutput
  BY DEF Init
<1>2. MaxRounds \in Nat
  BY DEF CycleAssumption, ValidCycle
<1>3. ~output.success
  BY <1>1 DEF NoOutput
<1>4. Place
  BY <1>1, <1>2 DEF Place, Working
<1>5. Trail
  <2>1. ~Ended
    BY <1>1 DEF Ended
  <2>2. \A r \in Rounds : files[r] = NoAudit /\ ~(r < 0)
    BY <1>1, <1>2 DEF Rounds
  <2>3. TrailComplete
    BY <1>1, <2>1, <2>2, EmptyList DEF TrailComplete
  <2>4. files = [r \in Rounds |-> files[r]]
    BY <1>1
  <2> QED
    BY <1>1, <2>1, <2>3, <2>4, EmptyList DEF Trail
<1>6. Queue
  BY <1>1 DEF Queue
<1>7. Panel
  BY <1>1, EmptyList DEF Panel
<1>8. Earned
  BY <1>3 DEF Earned, SuccessEarned
<1>9. Clock
  BY <1>1, EmptyList DEF Clock, WallRespected, Working
<1> QED
  BY <1>4, <1>5, <1>6, <1>7, <1>8, <1>9 DEF IInv

\* A bounded set of numbers has a greatest one.
LEMMA Greatest ==
  ASSUME NEW S, S \subseteq Nat, S # {}, NEW b \in Nat, \A x \in S : x <= b
  PROVE  Max(S) \in S /\ \A x \in S : x <= Max(S)
<1> DEFINE U == {u \in Nat : \A x \in S : x <= u}
<1>1. U # {} /\ U \subseteq Nat
  OBVIOUS
<1>2. \E m \in U : \A x \in U : ~(<<x, m>> \in OpToRel(<, Nat))
  BY <1>1, NatLessThanWellFounded, WFMin
<1>3. \A x, y \in Nat : <<y, x>> \in OpToRel(<, Nat) <=> y < x
  BY DEF OpToRel
<1>4. PICK m \in U : \A x \in U : ~(x < m)
  BY <1>1, <1>2, <1>3
<1>5. m \in S
  <2> SUFFICES ASSUME m \notin S PROVE FALSE
    OBVIOUS
  <2>1. \A x \in S : x \in Nat /\ x < m
    BY <1>4
  <2>2. m - 1 \in U
    <3>1. m \in Nat /\ \E x \in S : TRUE
      BY <1>4
    <3>2. m - 1 \in Nat
      BY <2>1, <3>1
    <3>3. \A x \in S : x <= m - 1
      <4>1. \A c, d \in Nat : c < d => c <= d - 1
        OBVIOUS
      <4> QED
        BY <2>1, <3>1, <4>1
    <3> QED
      BY <3>2, <3>3
  <2> QED
    BY <1>4, <2>2
<1>6. \E x \in S : \A y \in S : x >= y
  BY <1>4, <1>5
<1> QED
  BY <1>6 DEF Max

\* A round that is begun fits as long as it takes no longer than the last ones.
LEMMA Estimates ==
  ASSUME CycleAssumption, Clock, ~WallExhausted, MaxWall # 0
  PROVE  \A i \in 1..Len(durations) : durations[i] * RatioPct <= (MaxWall - elapsed) * 100
<1> SUFFICES ASSUME NEW i \in 1..Len(durations)
             PROVE  durations[i] * RatioPct <= (MaxWall - elapsed) * 100
  OBVIOUS
<1> DEFINE S == {durations[k] : k \in DOMAIN durations}
<1>1. durations \in Seq(Nat) /\ Len(durations) \in 1..3 /\ DOMAIN durations = 1..Len(durations)
  <2> DEFINE m == Len(durations)
  <2>1. durations \in Seq(Nat) /\ m \in Nat /\ m <= 3 /\ DOMAIN durations = 1..m /\ i \in 1..m
    BY DEF Clock
  <2> HIDE DEF m
  <2>2. m \in 1..3
    BY <2>1
  <2> QED
    BY <2>1, <2>2 DEF m
<1>2. S \subseteq Nat /\ durations[i] \in S
  BY <1>1
<1>3. \E b \in Nat : \A x \in S : x <= b
  <2>1. CASE Len(durations) = 1
    BY <1>1, <2>1
  <2>2. CASE Len(durations) = 2
    <3>1. durations[1] \in Nat /\ durations[2] \in Nat
      <4>1. 1 \in 1..2 /\ 2 \in 1..2
        OBVIOUS
      <4> QED
        BY <1>1, <2>2, <4>1, ElementOfSeq
    <3>2. durations[1] + durations[2] \in Nat /\ \A x \in S : x <= durations[1] + durations[2]
      BY <1>1, <2>2, <3>1
    <3> QED
      BY <3>2
  <2>3. CASE Len(durations) = 3
    <3>1. durations[1] \in Nat /\ durations[2] \in Nat /\ durations[3] \in Nat
      <4>1. 1 \in 1..3 /\ 2 \in 1..3 /\ 3 \in 1..3
        OBVIOUS
      <4> QED
        BY <1>1, <2>3, <4>1, ElementOfSeq
    <3>2. durations[1] + durations[2] + durations[3] \in Nat
          /\ \A x \in S : x <= durations[1] + durations[2] + durations[3]
      BY <1>1, <2>3, <3>1
    <3> QED
      BY <3>2
  <2>4. \A m \in 1..3 : m = 1 \/ m = 2 \/ m = 3
    OBVIOUS
  <2> QED
    BY <1>1, <2>1, <2>2, <2>3, <2>4
<1>4. Max(S) \in Nat /\ durations[i] <= Max(S) /\ durations[i] \in Nat
  <2>1. PICK b \in Nat : \A x \in S : x <= b
    BY <1>3
  <2>2. Max(S) \in S /\ \A x \in S : x <= Max(S)
    BY <1>2, <2>1, Greatest
  <2> QED
    BY <1>2, <2>2
<1>5. EstimatedNext = Max(S) * RatioPct
  BY DEF EstimatedNext
<1>6. MaxWall \in Nat /\ elapsed \in Nat /\ RatioPct \in Nat /\ durations # <<>>
  BY <1>1 DEF CycleAssumption, ValidCycle, Clock
<1> HIDE DEF S
<1>7. (MaxWall - elapsed) * 100 >= Max(S) * RatioPct
  <2> DEFINE y == Max(S) * RatioPct
  <2>1. y \in Int
    BY <1>4, <1>6
  <2>2. ~((MaxWall - elapsed) * 100 < y)
    BY <1>5, <1>6 DEF WallExhausted
  <2> HIDE DEF y
  <2>3. (MaxWall - elapsed) * 100 >= y
    BY <1>6, <2>1, <2>2
  <2> QED
    BY <2>3 DEF y
<1>8. \A a, b, c \in Nat : a <= b => a * c <= b * c
  OBVIOUS
<1>9. durations[i] * RatioPct <= Max(S) * RatioPct
  BY <1>4, <1>6, <1>8
<1> DEFINE x == durations[i] * RatioPct
           y == Max(S) * RatioPct
           z == (MaxWall - elapsed) * 100
<1>10. x \in Int /\ y \in Int /\ z \in Int /\ x <= y /\ y <= z
  BY <1>4, <1>6, <1>7, <1>9
<1> HIDE DEF x, y, z
<1>11. x <= z
  BY <1>10
<1> QED
  BY <1>11 DEF x, z

\* A round begins, or the cycle ends with the trail it has.
LEMMA TopKeeps ==
  ASSUME CycleAssumption, IInv, Top
  PROVE  IInv'
<1>1. /\ pc = "top"
      /\ UNCHANGED <<mode, round, prev, history, files, elapsed, durations, writer, asked, artifact>>
  BY DEF Top
<1>2. round \in Nat /\ round <= MaxRounds /\ MaxRounds \in Nat /\ ~output.success
  BY <1>1 DEF IInv, Place, CycleAssumption, ValidCycle, Earned, Ended
<1>3. ASSUME NEW reason, Finalize(FALSE, round, LastOut, prev, reason), calls' = calls
      PROVE  IInv'
  <2>1. pc' = "ended" /\ ~output'.success /\ output'.rounds = round /\ output'.audit = prev
        /\ output'.reason = reason
    BY <1>3 DEF Finalize
  <2>2. Place'
    BY <1>1, <2>1 DEF IInv, Place, Working
  <2>3. Trail'
    <3>1. Len(history) = round /\ IsList(history)
          /\ prev = IF Len(history) = 0 THEN NoAudit ELSE history[Len(history)].audit
      BY <1>1 DEF IInv, Trail, TrailComplete, Ended
    <3>2. Ended' /\ ~StoppedByWriterHook'
      BY <1>1, <1>2, <2>1, <3>1 DEF Ended, StoppedByWriterHook
    <3>3. Len(history') = IF Ended' THEN output'.rounds - (IF StoppedByWriterHook' THEN 1 ELSE 0)
                          ELSE round'
      BY <1>1, <1>2, <2>1, <3>1, <3>2
    <3>4. history # <<>> => output'.audit = Last(history).audit
      BY <2>1, <3>1, NoEntries DEF Last
    <3>5. TrailComplete'
      BY <1>1, <3>3, <3>4 DEF IInv, Trail, TrailComplete
    <3> QED
      BY <1>1, <3>2, <3>5 DEF IInv, Trail
  <2>4. Queue' /\ Panel' /\ Earned'
    BY <1>1, <1>3, <2>1 DEF IInv, Queue, Panel, Earned, SuccessEarned
  <2>5. Clock'
    BY <1>1, <2>1, ClockStands DEF IInv, Working
  <2> QED
    BY <2>2, <2>3, <2>4, <2>5 DEF IInv
<1>4. CASE round < MaxRounds /\ ~WallExhausted /\ pc' = "generate" /\ calls' = <<>> /\ UNCHANGED output
  <2>1. Place'
    BY <1>1, <1>4 DEF IInv, Place, Working
  <2>2. Trail'
    BY <1>1, <1>4, TrailStands DEF IInv, Ended
  <2>3. Queue'
    BY <1>1, <1>4 DEF IInv, Queue
  <2>4. Panel'
    BY <1>4, EmptyList DEF Panel
  <2>5. Earned'
    BY <1>2, <1>4 DEF Earned, SuccessEarned
  <2>6. Clock'
    <3>1. Clock
      BY DEF IInv
    <3>2. MaxWall # 0 =>
            \A i \in 1..Len(durations) : durations[i] * RatioPct <= (MaxWall - elapsed) * 100
      BY <1>4, <3>1, Estimates
    <3> QED
      BY <1>1, <3>1, <3>2 DEF Clock, WallRespected
  <2> QED
    BY <2>1, <2>2, <2>3, <2>4, <2>5, <2>6 DEF IInv
<1> QED
  BY <1>3, <1>4 DEF Top

\* The writer is asked, with the report of the round before.
LEMMA SubmitKeeps ==
  ASSUME IInv, Submit
  PROVE  IInv'
<1> DEFINE prompt == <<round, IF round = 0 THEN "initial" ELSE Render(prev)>>
<1>1. /\ pc = "generate" /\ pc' = "write"
      /\ writer' = Append(writer, round) /\ asked' = Append(asked, prompt)
      /\ UNCHANGED <<mode, round, prev, history, files, elapsed, durations, artifact, calls, output>>
  BY DEF Submit
<1>2. prompt[1] = round /\ (round # 0 => prompt[2] = Render(prev))
  OBVIOUS
<1> HIDE DEF prompt
<1>3. round \in Nat /\ Len(history) = round /\ ~output.success /\ ~Ended /\ ~Ended'
  BY <1>1 DEF IInv, Place, Trail, TrailComplete, Earned, Ended
<1>4. Place'
  BY <1>1 DEF IInv, Place, Working
<1>5. Trail'
  <2> DEFINE m == Len(asked)
  <2>1. /\ IsList(asked') /\ m \in Nat /\ DOMAIN asked = 1..m /\ DOMAIN asked' = 1..(m + 1)
        /\ asked'[m + 1] = prompt /\ \A i \in 1..m : asked'[i] = asked[i]
    BY <1>1, Appended DEF IInv, Trail
  <2> HIDE DEF m
  <2>2. /\ \A i \in 1..m : asked[i][1] \in 0..Len(history)
        /\ \A i \in 1..m : asked[i][1] > 0 => asked[i][2] = Render(history[asked[i][1]].audit)
    BY <2>1 DEF IInv, Trail, TrailComplete
  <2>3. round # 0 => prompt[2] = Render(history[round].audit)
    BY <1>2, <1>3 DEF IInv, Trail
  <2>4. \A i \in 1..(m + 1) : i \in 1..m \/ i = m + 1
    BY <2>1
  <2>5. \A i \in DOMAIN asked' : asked'[i][1] \in 0..Len(history)
    BY <1>2, <1>3, <2>1, <2>2, <2>4
  <2>6. \A i \in DOMAIN asked' :
          asked'[i][1] > 0 => asked'[i][2] = Render(history[asked'[i][1]].audit)
    BY <1>2, <1>3, <2>1, <2>2, <2>3, <2>4
  <2>7. TrailComplete'
    BY <1>1, <1>3, <2>6 DEF IInv, Trail, TrailComplete
  <2> QED
    BY <1>1, <1>3, <2>1, <2>5, <2>7 DEF IInv, Trail
<1>6. Queue'
  <2>1. writer \in Seq(Nat) /\ \A i \in DOMAIN writer : writer[i] < round
    BY <1>1 DEF IInv, Queue
  <2> DEFINE m == Len(writer)
  <2>2. /\ writer' \in Seq(Nat) /\ Len(writer') = m + 1 /\ writer'[m + 1] = round /\ m \in Nat
        /\ DOMAIN writer = 1..m /\ \A i \in 1..m : writer'[i] = writer[i]
    BY <1>1, <1>3, <2>1
  <2> HIDE DEF m
  <2>3. Len(writer') > 0 /\ writer'[Len(writer')] = round
        /\ \A i \in 1..(Len(writer') - 1) : writer'[i] < round
    BY <2>1, <2>2
  <2> QED
    BY <1>1, <2>2, <2>3 DEF Queue
<1>7. Panel'
  BY <1>1 DEF IInv, Panel
<1>8. Earned'
  BY <1>1, <1>3, EarnedStands DEF IInv
<1>9. Clock'
  BY <1>1, ClockStands DEF IInv, Working
<1> QED
  BY <1>4, <1>5, <1>6, <1>7, <1>8, <1>9 DEF IInv

\* The round is closed when the writer cannot be asked, or is waited for in vain.
LEMMA WriterFailsKeeps ==
  ASSUME CycleAssumption, HostAssumption, IInv, SubmitRaises \/ WriterTimesOut
  PROVE  IInv'
<1>1. /\ pc \in Working /\ CloseRound(Empty, WriterExceptionAudit, TRUE)
      /\ UNCHANGED <<mode, writer, asked, artifact>>
  BY DEF SubmitRaises, WriterTimesOut, Working
<1>2. TRUE \in BOOLEAN
  BY Zenon
<1> QED
  BY <1>1, <1>2, CloseRoundKeeps

\* The session ends its first job; only the last one may be this round's.
LEMMA WriterJobEndsKeeps ==
  ASSUME IInv, WriterJobEnds
  PROVE  IInv'
<1>1. /\ writer # <<>> /\ writer' = Tail(writer)
      /\ artifact' \in {Head(writer) + 1, artifact}
      /\ pc' = IF pc = "write" /\ Head(writer) = round THEN "written" ELSE pc
      /\ UNCHANGED <<mode, round, prev, history, files, elapsed, durations, asked, calls, output>>
  BY DEF WriterJobEnds
<1>2. writer \in Seq(Nat) /\ artifact \in Nat /\ round \in Nat
  BY DEF IInv, Queue, Place
<1> DEFINE m == Len(writer)
<1>3. /\ Head(writer) = writer[1] /\ Head(writer) \in Nat /\ m \in Nat /\ m > 0
      /\ DOMAIN writer = 1..m
  BY <1>1, <1>2
<1>4. /\ writer' \in Seq(Nat) /\ Len(writer') = m - 1 /\ DOMAIN writer' = 1..(m - 1)
      /\ \A i \in 1..(m - 1) : writer'[i] = writer[i + 1]
  BY <1>1, <1>2, HeadTailProperties
<1> HIDE DEF m
<1>5. artifact' \in Nat /\ (artifact # 0 => artifact' # 0)
  <2> DEFINE h == Head(writer)
  <2>1. h \in Nat /\ artifact' \in {h + 1, artifact}
    BY <1>1, <1>3
  <2> HIDE DEF h
  <2> QED
    BY <1>2, <2>1
<1>6. pc \notin {"written", "audit"}
  BY <1>1 DEF IInv, Queue
<1>7. Ended' <=> Ended
  BY <1>1 DEF Ended
<1>8. Place'
  BY <1>1, <1>5, <1>6 DEF IInv, Place, Working
<1>9. Trail'
  BY <1>1, <1>7, TrailStands DEF IInv
<1>10. Queue'
  <2>1. CASE pc = "write" /\ writer[1] = round
    <3>1. pc' = "written"
      BY <1>1, <1>3, <2>1
    <3>2. m = 1
      <4>1. \A i \in 1..(m - 1) : writer[i] < round
        BY <2>1 DEF IInv, Queue, m
      <4>2. m > 1 => 1 \in 1..(m - 1)
        BY <1>3
      <4>3. ~(round < round)
        BY <1>2
      <4> QED
        BY <1>3, <2>1, <4>1, <4>2, <4>3
    <3>3. writer' = <<>>
      BY <1>4, <3>2
    <3> QED
      BY <1>4, <3>1, <3>3 DEF Queue
  <2>2. CASE pc = "write" /\ writer[1] # round
    <3>1. pc' = "write"
      BY <1>1, <1>3, <2>2
    <3>2. writer[m] = round /\ \A i \in 1..(m - 1) : writer[i] < round
      BY <2>2 DEF IInv, Queue, m
    <3>3. m > 1
      BY <1>3, <2>2, <3>2
    <3>4. /\ m - 1 \in 1..(m - 1) /\ (m - 1) + 1 = m
          /\ \A i \in 1..(m - 2) : i \in 1..(m - 1) /\ i + 1 \in 1..(m - 1)
          /\ (m - 1) - 1 = m - 2
      BY <1>3, <3>3
    <3>5. writer'[m - 1] = round /\ \A i \in 1..(m - 2) : writer'[i] < round
      BY <1>4, <3>2, <3>4
    <3>6. Len(writer') > 0
      BY <1>3, <1>4, <3>3
    <3> QED
      BY <1>1, <1>4, <3>1, <3>4, <3>5, <3>6 DEF Queue
  <2>3. CASE pc # "write"
    <3>1. pc' = pc
      BY <1>1, <2>3
    <3>2. pc \in {"top", "generate"} => \A i \in 1..(m - 1) : writer'[i] < round
      <4>1. \A i \in 1..(m - 1) : i + 1 \in 1..m
        BY <1>3
      <4> QED
        BY <1>3, <1>4, <4>1 DEF IInv, Queue
    <3> QED
      BY <1>1, <1>4, <1>6, <2>3, <3>1, <3>2 DEF Queue
  <2> QED
    BY <2>1, <2>2, <2>3
<1>11. Panel'
  BY <1>1, <1>6 DEF IInv, Panel
<1>12. Earned'
  <2>1. output.success => artifact' # 0
    BY <1>5 DEF IInv, Earned, SuccessEarned
  <2> QED
    BY <1>1, <1>7, <2>1, EarnedStands DEF IInv
<1>13. Clock'
  BY <1>1, ClockStands DEF IInv, Working
<1> QED
  BY <1>8, <1>9, <1>10, <1>11, <1>12, <1>13 DEF IInv

\* An output is audited, found missing, or not looked at.
LEMMA WriterDoneKeeps ==
  ASSUME CycleAssumption, HostAssumption, IInv, WriterDone
  PROVE  IInv'
<1>1. pc = "written" /\ UNCHANGED <<mode, writer, asked, artifact, chosen>>
  BY DEF WriterDone
<1>2. /\ round \in Nat /\ Len(history) = round /\ IsList(history) /\ ~output.success
      /\ prev = IF Len(history) = 0 THEN NoAudit ELSE history[Len(history)].audit
  BY <1>1 DEF IInv, Place, Trail, TrailComplete, Earned, Ended
<1>3. CASE /\ Finalize(FALSE, round + 1, round, prev, "observer_aborted")
           /\ UNCHANGED <<round, prev, history, files, elapsed, durations, calls, grader, seen, best>>
  <2>1. /\ pc' = "ended" /\ ~output'.success /\ output'.rounds = round + 1
        /\ output'.audit = prev /\ output'.reason = "observer_aborted"
    BY <1>3 DEF Finalize
  <2>2. Place'
    BY <1>1, <1>3, <2>1 DEF IInv, Place, Working
  <2>3. Trail'
    <3>1. Ended' /\ StoppedByWriterHook'
      BY <1>2, <1>3, <2>1 DEF Ended, StoppedByWriterHook
    <3>2. Len(history') = IF Ended' THEN output'.rounds - (IF StoppedByWriterHook' THEN 1 ELSE 0)
                          ELSE round'
      BY <1>2, <1>3, <2>1, <3>1
    <3>3. history # <<>> => output'.audit = Last(history).audit
      BY <1>2, <2>1, NoEntries DEF Last
    <3>4. TrailComplete'
      BY <1>1, <1>3, <3>2, <3>3 DEF IInv, Trail, TrailComplete
    <3> QED
      BY <1>1, <1>3, <3>1, <3>4 DEF IInv, Trail
  <2>4. Queue' /\ Panel' /\ Earned'
    BY <1>1, <1>3, <2>1 DEF IInv, Queue, Panel, Earned, SuccessEarned
  <2>5. Clock'
    BY <1>1, <1>3, <2>1, ClockStands DEF IInv, Working
  <2> QED
    BY <2>2, <2>3, <2>4, <2>5 DEF IInv
<1>4. CASE CloseRound(round, OutputMissingAudit, TRUE)
  <2>1. TRUE \in BOOLEAN /\ pc \in Working
    BY <1>1, Zenon DEF Working
  <2> QED
    BY <1>1, <1>4, <2>1, CloseRoundKeeps
<1>5. CASE /\ artifact # 0 /\ pc' = "audit"
           /\ UNCHANGED <<round, prev, history, files, elapsed, durations, calls, grader, seen, best, output>>
  <2>1. Place'
    BY <1>1, <1>5 DEF IInv, Place, Working
  <2>2. Trail'
    BY <1>1, <1>5, TrailStands DEF IInv, Ended
  <2>3. Queue'
    BY <1>1, <1>5 DEF IInv, Queue
  <2>4. Panel'
    <3>1. calls' = <<>>
      BY <1>1, <1>5 DEF IInv, Panel
    <3>2. Members \in Nat \ {0}
      BY ComposerAssumption DEF ValidComposer
    <3> QED
      BY <3>1, <3>2, EmptyList DEF Panel
  <2>5. Earned'
    BY <1>1, <1>2, <1>5, EarnedStands DEF IInv, Ended
  <2>6. Clock'
    BY <1>1, <1>5, ClockStands DEF IInv, Working
  <2> QED
    BY <2>1, <2>2, <2>3, <2>4, <2>5, <2>6 DEF IInv
<1> QED
  BY <1>3, <1>4, <1>5 DEF WriterDone

-----------------------------------------------------------------------------
(* The steps of an audit *)

\* A step among the judges.
LEMMA PanelSteps ==
  ASSUME IInv, pc = "audit", Panel', pc' \in {"audit", "raised"},
         UNCHANGED <<mode, round, prev, history, files, elapsed, durations, writer, asked,
                     artifact, output>>
  PROVE  IInv'
<1>1. ~Ended /\ ~Ended' /\ ~output.success
  BY DEF IInv, Earned, Ended
<1>2. Place'
  BY DEF IInv, Place, Working
<1>3. Trail'
  BY <1>1, TrailStands DEF IInv
<1>4. Queue'
  BY DEF IInv, Queue
<1>5. Earned'
  BY <1>1, EarnedStands DEF IInv
<1>6. Clock'
  BY ClockStands DEF IInv, Working
<1> QED
  BY <1>2, <1>3, <1>4, <1>5, <1>6 DEF IInv

\* A judge that has not answered has passed nothing.
LEMMA SilentJudges ==
  ASSUME HostAssumption
  PROVE  /\ Honest(Waiting) /\ Honest(RaisedCall) /\ Honest(RuntimeErrorAudit)
         /\ Waiting.verdict # "success" /\ RaisedCall.verdict # "success"
  BY DEF HostAssumption, Honest, Waiting, RaisedCall, RuntimeErrorAudit, Synthetic, Report

\* What a reply is read as passes only what the grader scored high enough, or
\* what an auditor said in so many words.
LEMMA RepliesHonest ==
  ASSUME HostAssumption, NEW r
  PROVE  Honest(JudgeReport(r))
<1>1. "iterate" \notin Success /\ FailVerdict \notin Success
  BY DEF HostAssumption
<1>2. Honest(ParseAuditReport(r))
  BY <1>1 DEF Honest, ParseAuditReport, Synthetic, Report
<1>3. Honest(ParseScoreResponse(r))
  <2> DEFINE score == ExtractFirstNumber(r)
             confidence == ConfidenceFromScore(score)
  <2>1. ParseScoreResponse(r) =
          IF ~TryParseJson(r)
          THEN Report("grader_parse_failure", FailVerdict, NoScore, 0, TRUE, r.answer)
          ELSE IF score = NoScore
          THEN Report("grader_score_missing", FailVerdict, NoScore, 0, TRUE, r.answer)
          ELSE Report("grade", IF score >= PassThreshold THEN PassVerdict ELSE FailVerdict,
                      score, confidence, TRUE, r.answer)
    BY DEF ParseScoreResponse
  <2> HIDE DEF score, confidence
  <2> QED
    BY <1>1, <2>1 DEF Honest, Report
<1> QED
  BY <1>2, <1>3 DEF JudgeReport

\* Another judge is asked, and answers later or not at all.
LEMMA AskJudgeKeeps ==
  ASSUME HostAssumption, IInv, AskJudge
  PROVE  IInv'
<1>1. /\ pc = "audit" /\ pc' = pc /\ mode' = mode
      /\ Gathering \/ Answered = DOMAIN calls
      /\ RaisedCall \in Range(calls) => Gathering
      /\ MoreCalls(mode, Len(calls), Verdicts)
      /\ UNCHANGED <<round, prev, history, files, elapsed, durations, writer, asked, artifact, output>>
  BY DEF AskJudge
<1>2. PICK e \in {Waiting, RaisedCall} : calls' = Append(calls, e)
  BY DEF AskJudge
<1>3. IsList(calls) /\ \A k \in DOMAIN calls : Honest(calls[k])
  BY DEF IInv, Panel
<1>4. Members \in Nat \ {0}
  BY ComposerAssumption DEF ValidComposer
<1> DEFINE n == Len(calls)
<1>5. /\ IsList(calls') /\ n \in Nat /\ DOMAIN calls = 1..n /\ DOMAIN calls' = 1..(n + 1)
      /\ Len(calls') = n + 1 /\ calls'[n + 1] = e /\ \A i \in 1..n : calls'[i] = calls[i]
  BY <1>2, <1>3, Appended
<1>6. \A k \in DOMAIN calls' : Honest(calls'[k])
  <2>1. Honest(e)
    BY SilentJudges
  <2>2. \A k \in 1..(n + 1) : k \in 1..n \/ k = n + 1
    BY <1>5
  <2> QED
    BY <1>3, <1>5, <2>1, <2>2
<1>7. /\ mode \in Gathered \cup {"pipeline"} => n + 1 <= Members
      /\ mode = "bare" => n + 1 <= 1
  <2>1. /\ mode \in Gathered \cup {"pipeline"} => n < Members
        /\ mode = "bare" => n < 1
    BY <1>1 DEF MoreCalls, Gathered
  <2> HIDE DEF n
  <2> QED
    BY <1>4, <1>5, <2>1
<1>8. ASSUME mode = "pipeline", NEW i \in 1..n
      PROVE  calls'[i].verdict = "success"
  <2>1. ~Gathering
    BY <1>8 DEF Gathering, Gathered
  <2>2. i \in Valid
    BY <1>1, <1>5, <1>8, <2>1 DEF Valid, Range
  <2>3. Verdicts[i].passed
    BY <1>1, <1>8, <2>2 DEF MoreCalls, Gathered, Verdicts
  <2>4. Verdicts[i].passed = (calls[i].verdict = "success")
    BY <2>2 DEF Verdicts, VerdictFromAuditReport, Verdict
  <2> QED
    BY <1>5, <1>8, <2>3, <2>4
<1>9. n + 1 - 1 = n
  BY <1>5
<1>10. Panel'
  <2> HIDE DEF n
  <2> QED
    BY <1>1, <1>5, <1>6, <1>7, <1>8, <1>9 DEF Panel
<1> QED
  BY <1>1, <1>10, PanelSteps

\* An answer goes to a judge that has not answered.
LEMMA AnswerKeeps ==
  ASSUME HostAssumption, IInv, pc = "audit", pc' = pc, NEW k \in DOMAIN calls, NEW e, Honest(e),
         calls[k] = Waiting, calls' = [calls EXCEPT ![k] = e],
         UNCHANGED <<mode, round, prev, history, files, elapsed, durations, writer, asked,
                     artifact, output>>
  PROVE  IInv'
<1>1. IsList(calls) /\ \A i \in DOMAIN calls : Honest(calls[i])
  BY DEF IInv, Panel
<1>2. /\ IsList(calls') /\ Len(calls') = Len(calls) /\ DOMAIN calls' = DOMAIN calls
      /\ \A i \in DOMAIN calls : calls'[i] = IF i = k THEN e ELSE calls[i]
  <2>1. calls' = [i \in DOMAIN calls |-> IF i = k THEN e ELSE calls[i]]
    OBVIOUS
  <2>2. IsList(calls') /\ Len(calls') = Len(calls)
    <3>1. DOMAIN calls' = DOMAIN calls
      BY <2>1
    <3>2. calls' = [i \in DOMAIN calls' |-> calls'[i]]
      BY <2>1
    <3>3. \A i \in DOMAIN calls : calls'[i] \in {e, calls[i]}
      BY <2>1
    <3>4. IsList(calls)
      BY <1>1
    <3>5. IsList(calls') /\ Len(calls') = Len(calls)
      BY ONLY <3>1, <3>2, <3>3, <3>4, Replaced, Zenon
    <3> QED
      BY <3>5
  <2> QED
    BY <2>1, <2>2
<1>3. DOMAIN calls = 1..Len(calls) /\ Len(calls) \in Nat
  BY <1>1, NoEntries
<1>4. \A i \in DOMAIN calls' : Honest(calls'[i])
  BY <1>1, <1>2
<1>5. ASSUME mode = "pipeline", NEW i \in 1..(Len(calls) - 1)
      PROVE  calls'[i].verdict = "success"
  <2>1. calls[i].verdict = "success"
    BY <1>5 DEF IInv, Panel
  <2>2. i \in DOMAIN calls /\ i # k
    BY <1>3, <2>1, SilentJudges
  <2> QED
    BY <1>2, <2>1, <2>2
<1>6. Panel'
  BY <1>2, <1>4, <1>5 DEF IInv, Panel
<1> QED
  BY <1>6, PanelSteps

\* A judge's job ends; its result counts if somebody still waits for it.
LEMMA JudgeJobEndsKeeps ==
  ASSUME HostAssumption, IInv, JudgeJobEnds
  PROVE  IInv'
<1>1. /\ pc = "audit" /\ pc' = pc
      /\ UNCHANGED <<mode, round, prev, history, files, elapsed, durations, writer, asked,
                     artifact, output>>
  BY DEF JudgeJobEnds
<1> DEFINE k == Head(grader)
<1>2. PICK r \in Replies : calls' = IF calls[k] # Waiting THEN calls
                                    ELSE [calls EXCEPT ![k] = JudgeReport(r)]
  BY DEF JudgeJobEnds
<1> HIDE DEF k
<1>3. CASE calls' = calls
  <2>1. Panel'
    BY <1>1, <1>3 DEF IInv, Panel
  <2> QED
    BY <1>1, <2>1, PanelSteps
<1>4. CASE calls[k] = Waiting /\ k \in DOMAIN calls
  BY <1>1, <1>2, <1>4, RepliesHonest, AnswerKeeps
<1>5. CASE k \notin DOMAIN calls
  <2>1. PICK S : calls \in Seq(S)
    BY DEF IInv, Panel, IsList
  <2>2. calls' = calls
    BY <1>2, <1>5, <2>1
  <2> QED
    BY <1>3, <2>2
<1> QED
  BY <1>2, <1>3, <1>4, <1>5

\* A judge that is waited for too long.
LEMMA JudgeTimesOutKeeps ==
  ASSUME HostAssumption, IInv, JudgeTimesOut
  PROVE  IInv'
<1>1. /\ pc = "audit" /\ pc' = pc
      /\ UNCHANGED <<mode, round, prev, history, files, elapsed, durations, writer, asked,
                     artifact, output>>
  BY DEF JudgeTimesOut
<1>2. PICK k \in DOMAIN calls : calls[k] = Waiting /\ calls' = [calls EXCEPT ![k] = RuntimeErrorAudit]
  BY DEF JudgeTimesOut
<1> QED
  BY <1>1, <1>2, SilentJudges, AnswerKeeps

\* An exception leaves run() with what the judges had said.
LEMMA AuditorRaisesKeeps ==
  ASSUME IInv, AuditorRaises
  PROVE  IInv'
<1>1. /\ pc = "audit" /\ pc' = "raised"
      /\ UNCHANGED <<mode, round, prev, history, files, elapsed, durations, writer, asked,
                     artifact, calls, output>>
  BY DEF AuditorRaises
<1>2. Panel'
  BY <1>1 DEF IInv, Panel
<1> QED
  BY <1>1, <1>2, PanelSteps

-----------------------------------------------------------------------------
(* The verdict of a round *)

\* A set of numbers has a least one.
LEMMA Least ==
  ASSUME NEW S, S \subseteq Nat, S # {}
  PROVE  Min(S) \in S
<1>1. \E m \in S : \A x \in S : ~(<<x, m>> \in OpToRel(<, Nat))
  BY NatLessThanWellFounded, WFMin
<1>2. \A x, y \in Nat : <<y, x>> \in OpToRel(<, Nat) <=> y < x
  BY DEF OpToRel
<1>3. PICK m \in S : \A x \in S : ~(x < m)
  BY <1>1, <1>2
<1>4. \E x \in S : \A y \in S : x <= y
  BY <1>3
<1> QED
  BY <1>4 DEF Min

\* The parts of a list's positions can be counted.
LEMMA Counting ==
  ASSUME NEW n \in Nat, NEW S \in SUBSET (1..n)
  PROVE  /\ IsFiniteSet(S) /\ Cardinality(S) \in Nat /\ Cardinality(S) <= n
         /\ \A T \in SUBSET S : Cardinality(T) \in Nat /\ Cardinality(T) <= Cardinality(S)
         /\ (S # {} => Cardinality(S) > 0) /\ (S = 1..n <=> Cardinality(S) = n)
<1>1. IsFiniteSet(1..n) /\ Cardinality(1..n) = n
  <2>1. 1 \in Int /\ n \in Int
    OBVIOUS
  <2> QED
    BY <2>1, FS_Interval
<1>2. IsFiniteSet(S) /\ Cardinality(S) <= n /\ (Cardinality(S) = n => S = 1..n)
  BY <1>1, FS_Subset
<1>3. Cardinality(S) \in Nat /\ (Cardinality(S) = 0 <=> S = {})
  BY <1>2, FS_CardinalityType, FS_EmptySet
<1>4. \A T \in SUBSET S : Cardinality(T) \in Nat /\ Cardinality(T) <= Cardinality(S)
  BY <1>2, FS_Subset, FS_CardinalityType
<1>5. S # {} => Cardinality(S) > 0
  <2>1. \A a \in Nat : a # 0 => a > 0
    OBVIOUS
  <2> QED
    BY <1>3, <2>1, Zenon
<1>6. S = 1..n <=> Cardinality(S) = n
  BY <1>1, <1>2, Zenon
<1> QED
  BY <1>2, <1>3, <1>4, <1>5, <1>6, Zenon

\* How often a label was given.
Tally(labels, l) == Cardinality({i \in DOMAIN labels : labels[i] = l})

\* The label that most_common returns was given, and none was given more often.
LEMMA MostCommonIs ==
  ASSUME NEW labels, NEW n \in Nat, DOMAIN labels \subseteq 1..n, DOMAIN labels # {}
  PROVE  \E i \in DOMAIN labels :
           /\ MostCommon(labels) = labels[i] /\ Tally(labels, labels[i]) > 0
           /\ \A k \in DOMAIN labels : Tally(labels, labels[k]) <= Tally(labels, labels[i])
<1> DEFINE D == DOMAIN labels
           C(i) == Tally(labels, labels[i])
           M == {i \in D : \A k \in D : C(i) >= C(k)}
<1>1. \A i \in D : C(i) \in Nat /\ C(i) <= n /\ C(i) > 0
  <2> SUFFICES ASSUME NEW i \in D PROVE C(i) \in Nat /\ C(i) <= n /\ C(i) > 0
    OBVIOUS
  <2> DEFINE S == {k \in D : labels[k] = labels[i]}
  <2>1. S \in SUBSET (1..n) /\ S # {}
    OBVIOUS
  <2>2. C(i) = Cardinality(S)
    BY DEF Tally
  <2> HIDE DEF S
  <2> QED
    BY <2>1, <2>2, Counting
<1>2. M # {}
  <2> DEFINE V == {C(i) : i \in D}
  <2> HIDE DEF C
  <2>1. V \subseteq Nat /\ V # {} /\ \A x \in V : x <= n
    BY <1>1
  <2>2. Max(V) \in V /\ \A x \in V : x <= Max(V)
    BY <2>1, Greatest
  <2>3. PICK i \in D : C(i) = Max(V)
    BY <2>2
  <2>4. \A k \in D : C(i) >= C(k)
    BY <1>1, <2>2, <2>3
  <2> QED
    BY <2>4
<1>3. M \subseteq Nat
  OBVIOUS
<1>4. Min(M) \in M
  <2> HIDE DEF M
  <2> QED
    BY <1>2, <1>3, Least
<1>5. MostCommon(labels) = labels[Min(M)]
  BY DEF MostCommon, Tally
<1>6. \A k \in D : C(k) <= C(Min(M))
  <2> HIDE DEF C
  <2> QED
    BY <1>1, <1>4
<1> QED
  BY <1>1, <1>4, <1>5, <1>6

\* When a round's audit is done.
Heard ==
  /\ pc = "audit" /\ calls # <<>> /\ ~Raises /\ Answered = DOMAIN calls
  /\ ~MoreCalls(mode, Len(calls), Verdicts)

\* What is known of the panel by then.
LEMMA Hearing ==
  ASSUME IInv, Heard
  PROVE  /\ IsList(calls) /\ Len(calls) \in Nat /\ Len(calls) > 0 /\ DOMAIN calls = 1..Len(calls)
         /\ Valid = {k \in DOMAIN calls : calls[k] # RaisedCall}
         /\ mode \notin Tolerant => Valid = DOMAIN calls
         /\ mode \in Gathered => Len(calls) = Members
         /\ DOMAIN Verdicts = Valid
         /\ \A k \in Valid : /\ Verdicts[k].passed <=> calls[k].verdict = "success"
                             /\ Verdicts[k].answer = calls[k].score
<1>1. IsList(calls) /\ Len(calls) \in Nat /\ Len(calls) # 0 /\ DOMAIN calls = 1..Len(calls)
  BY NoEntries DEF IInv, Panel, Heard
<1>2. Valid = {k \in DOMAIN calls : calls[k] # RaisedCall}
  BY DEF Heard, Valid
<1>3. mode \notin Tolerant => Valid = DOMAIN calls
  BY <1>2 DEF Heard, Raises, Range
<1>4. mode \in Gathered => Len(calls) = Members
  <2>1. Members \in Nat
    BY ComposerAssumption DEF ValidComposer
  <2>2. mode \in Gathered => Len(calls) <= Members /\ ~(Len(calls) < Members)
    BY DEF IInv, Panel, Heard, MoreCalls
  <2>3. \A a, b \in Nat : a <= b /\ ~(a < b) => a = b
    OBVIOUS
  <2> QED
    BY <1>1, <2>1, <2>2, <2>3, Zenon
<1>5. DOMAIN Verdicts = Valid
  BY DEF Verdicts
<1>6. \A k \in Valid : /\ Verdicts[k].passed <=> calls[k].verdict = "success"
                       /\ Verdicts[k].answer = calls[k].score
  BY DEF Verdicts, VerdictFromAuditReport, Verdict
<1> QED
  BY <1>1, <1>2, <1>3, <1>4, <1>5, <1>6

\* A composer's verdict becomes a success only if it passed.
LEMMA Bridged ==
  ASSUME HostAssumption, NEW v, v.label = NoLabel, AuditReportFromVerdict(v).verdict \in Success
  PROVE  v.passed /\ "success" \in Success
  BY DEF HostAssumption, AuditReportFromVerdict, Report

\* The member asked last.
LEMMA LastAnswer ==
  ASSUME IInv, Heard, mode \notin Tolerant
  PROVE  Latest(Verdicts).passed <=> calls[Len(calls)].verdict = "success"
<1> DEFINE n == Len(calls)
<1>1. n \in Nat /\ n > 0 /\ DOMAIN Verdicts = 1..n
  BY Hearing
<1>2. Max(1..n) = n
  <2> HIDE DEF n
  <2>1. 1..n \subseteq Nat /\ 1..n # {} /\ n \in 1..n /\ \A x \in 1..n : x <= n
    BY <1>1
  <2>2. Max(1..n) \in 1..n /\ n <= Max(1..n)
    BY <1>1, <2>1, Greatest
  <2> QED
    BY <1>1, <2>2
<1>3. n \in Valid
  BY <1>1, Hearing
<1> QED
  BY <1>1, <1>2, <1>3, Hearing DEF Latest

\* Success is what the judges said, as many as the auditor asks for.
LEMMA AuditBacked ==
  ASSUME HostAssumption, IInv, Heard, Audit.verdict \in Success
  PROVE  Backed
<1> DEFINE n == Len(calls)
<1>1. /\ n \in Nat /\ n > 0 /\ DOMAIN calls = 1..n /\ DOMAIN Verdicts = Valid
      /\ mode \notin Tolerant => Valid = 1..n
      /\ mode \in Gathered => n = Members
      /\ Valid \subseteq 1..n
  BY Hearing
<1>2. mode \in Sequential \cup Gathered /\ Members \in Nat \ {0}
  BY ComposerAssumption DEF HostAssumption, IInv, Place, ValidComposer
<1>3. Passing \in SUBSET (1..n)
  BY <1>1 DEF Passing
<1>4. Cardinality(Passing) \in Nat /\ (Passing = 1..n => Cardinality(Passing) = n)
  BY <1>1, <1>3, Counting
<1> HIDE DEF n
<1>5. CASE mode = "bare"
  <2>1. ~(n < 1) /\ n <= 1
    BY <1>5 DEF IInv, Panel, Heard, MoreCalls, n
  <2>2. n = 1
    BY <1>1, <2>1
  <2>3. calls[1].verdict \in Success
    BY <1>5 DEF Audit
  <2>4. 1 \in Passing
    BY <1>1, <2>2, <2>3 DEF Passing
  <2> QED
    BY <1>5, <2>2, <2>4 DEF Backed, n
<1>6. CASE mode \in {"pipeline", "fallback", "cascade"}
  <2>1. mode \notin Tolerant
    BY <1>6 DEF Tolerant
  <2>2. PICK score, answer, findings :
          Audit = AuditReportFromVerdict(Composite(Latest(Verdicts).passed, score, answer, findings))
    BY <1>6 DEF Audit, Composed, Pipeline, Fallback, Cascade
  <2>3. Latest(Verdicts).passed /\ "success" \in Success
    <3> DEFINE v == Composite(Latest(Verdicts).passed, score, answer, findings)
    <3>1. v.label = NoLabel /\ v.passed = Latest(Verdicts).passed
      BY DEF Composite, Verdict
    <3> HIDE DEF v
    <3> QED
      BY <2>2, <3>1, Bridged DEF v
  <2>4. calls[n].verdict = "success"
    BY <2>1, <2>3, LastAnswer DEF n
  <2>5. n \in Passing
    BY <1>1, <2>3, <2>4 DEF Passing
  <2>6. CASE mode = "pipeline"
    <3>1. \A i \in 1..n : calls[i].verdict = "success"
      <4>1. \A i \in 1..n : i \in 1..(n - 1) \/ i = n
        BY <1>1
      <4>2. \A i \in 1..(n - 1) : calls[i].verdict = "success"
        BY <2>6 DEF IInv, Panel, Heard, n
      <4> QED
        BY <2>4, <4>1, <4>2
    <3>2. n <= Members
      BY <2>6 DEF IInv, Panel, Heard, n
    <3>3. \A i \in DOMAIN Verdicts : Verdicts[i].passed
      BY <1>1, <2>1, <3>1, Hearing
    <3>4. ~(n < Members)
      BY <2>6, <3>3 DEF Heard, MoreCalls, n
    <3>5. n = Members
      BY <1>1, <1>2, <3>2, <3>4
    <3>6. Passing = 1..n
      BY <1>1, <2>3, <3>1 DEF Passing
    <3> QED
      BY <1>4, <2>6, <3>5, <3>6 DEF Backed
  <2>7. CASE mode \in {"fallback", "cascade"}
    BY <2>5, <2>7 DEF Backed, n
  <2> QED
    BY <1>6, <2>6, <2>7
<1>7. CASE mode \in {"parallel", "ensemble"}
  <2> DEFINE passed == {i \in DOMAIN Verdicts : Verdicts[i].passed}
  <2>1. n = Members /\ DOMAIN Verdicts = 1..n
    BY <1>1, <1>7 DEF Gathered, Tolerant
  <2> DEFINE Enough ==
               IF mode = "ensemble" /\ Aggregator = "majority"
               THEN Cardinality(passed) * 2 > Cardinality(DOMAIN Verdicts)
               ELSE passed = DOMAIN Verdicts \/ Cardinality(passed) = Cardinality(DOMAIN Verdicts)
  <2>2. \E v : Audit = AuditReportFromVerdict(v) /\ v.label = NoLabel /\ (v.passed => Enough)
    <3>1. CASE mode = "parallel"
      <4>1. Audit = AuditReportFromVerdict(Parallel(Verdicts))
        BY <3>1 DEF Audit, Composed
      <4>2. /\ Parallel(Verdicts).label = NoLabel
            /\ Parallel(Verdicts).passed = \A i \in DOMAIN Verdicts : Verdicts[i].passed
        BY DEF Parallel, Composite, Verdict
      <4>3. Parallel(Verdicts).passed => passed = DOMAIN Verdicts
        BY <4>2
      <4> QED
        BY <3>1, <4>1, <4>2, <4>3
    <3>2. CASE mode = "ensemble"
      <4>1. Audit = AuditReportFromVerdict(Ensemble(Verdicts))
        BY <3>2 DEF Audit, Composed
      <4>2. /\ Ensemble(Verdicts).label = NoLabel
            /\ Ensemble(Verdicts).passed =
                 IF Aggregator = "majority" THEN Cardinality(passed) * 2 > Cardinality(DOMAIN Verdicts)
                 ELSE Cardinality(passed) = Cardinality(DOMAIN Verdicts)
        BY DEF Ensemble, Composite, Verdict
      <4>3. Ensemble(Verdicts).passed => Enough
        BY <3>2, <4>2
      <4> HIDE DEF Enough
      <4> QED
        BY <4>1, <4>2, <4>3
    <3> QED
      BY <1>7, <3>1, <3>2
  <2>3. Enough /\ "success" \in Success
    <3> HIDE DEF Enough
    <3> QED
      BY <2>2, Bridged
  <2>4. passed \in SUBSET Passing
    BY <1>1, <2>1, <2>3, Hearing DEF Passing
  <2>5. passed \in SUBSET (1..n) /\ Cardinality(1..n) = n
    BY <1>1, <2>1, Counting
  <2>6. Cardinality(passed) \in Nat /\ Cardinality(passed) <= Cardinality(Passing)
         /\ (Cardinality(passed) = n => passed = 1..n)
    BY <1>1, <1>3, <2>4, <2>5, Counting
  <2>7. CASE mode = "ensemble" /\ Aggregator = "majority"
    <3>1. Cardinality(passed) * 2 > n
      BY <2>1, <2>3, <2>5, <2>7
    <3>2. Cardinality(Passing) * 2 > Members
      <4> HIDE DEF passed
      <4> QED
        BY <1>1, <1>4, <2>1, <2>6, <3>1
    <3> QED
      BY <2>7, <3>2 DEF Backed
  <2>8. CASE ~(mode = "ensemble" /\ Aggregator = "majority")
    <3>1. passed = 1..n
      BY <2>1, <2>3, <2>5, <2>6, <2>8
    <3>2. Passing = 1..n
      BY <1>3, <2>4, <3>1
    <3>3. Cardinality(Passing) = Members
      BY <1>4, <2>1, <3>2
    <3>4. Members * 2 > Members
      BY <1>2
    <3> QED
      BY <1>7, <3>3, <3>4 DEF Backed
  <2> QED
    BY <2>7, <2>8
<1>8. CASE mode = "majority"
  <2> DEFINE labels == [i \in Valid |-> calls[i].verdict]
  <2>1. Valid # {} /\ Audit.verdict = MostCommon(labels)
    <3>1. Valid = {k \in DOMAIN calls : calls[k] # RaisedCall} /\ Audit = MajorityVote(calls)
      BY <1>8, Hearing DEF Audit
    <3>2. MajorityVote(calls).verdict = IF Valid = {} THEN "iterate" ELSE MostCommon(labels)
      BY <3>1 DEF MajorityVote, Synthetic, Report
    <3> QED
      BY <3>1, <3>2 DEF HostAssumption
  <2>2. DOMAIN labels = Valid
    OBVIOUS
  <2>3. PICK i \in Valid : /\ MostCommon(labels) = labels[i] /\ Tally(labels, labels[i]) > 0
                           /\ \A k \in Valid : Tally(labels, labels[k]) <= Tally(labels, labels[i])
    <3> HIDE DEF labels
    <3> QED
      BY <1>1, <2>1, <2>2, MostCommonIs
  <2>4. \A v : Tally(labels, v) = Votes(v)
    <3>1. \A v : {k \in DOMAIN labels : labels[k] = v} = {k \in Valid : calls[k].verdict = v}
      OBVIOUS
    <3> QED
      BY <3>1 DEF Tally, Votes
  <2>5. \A k \in Valid : labels[k] = calls[k].verdict
    OBVIOUS
  <2> HIDE DEF labels
  <2>6. Votes(labels[i]) > 0 /\ \A k \in Valid : Votes(calls[k].verdict) <= Votes(labels[i])
    BY <2>3, <2>4, <2>5
  <2>7. labels[i] \in Success
    BY <2>1, <2>3
  <2> QED
    BY <1>8, <2>6, <2>7 DEF Backed
<1>9. CASE mode = "consensus"
  <2> DEFINE D == {i \in DOMAIN Verdicts : Verdicts[i].answer # NoScore}
             labels == [i \in D |-> Verdicts[i].answer]
             top == MostCommon(labels)
  <2> DEFINE Enough ==
               /\ D # {} /\ DOMAIN labels = D
               /\ Cardinality({i \in DOMAIN labels : labels[i] = top}) * 2 > Cardinality(DOMAIN Verdicts)
  <2>1. Enough
    <3>1. Audit = AuditReportFromVerdict(Consensus(Verdicts))
      BY <1>9 DEF Audit, Composed
    <3>2. DOMAIN labels = D
      OBVIOUS
    <3>3. CASE D = {}
      <4>1. Consensus(Verdicts).label = NoLabel /\ Consensus(Verdicts).passed = FALSE
        BY <3>2, <3>3 DEF Consensus, Composite, Verdict
      <4> QED
        BY <3>1, <4>1, Bridged
    <3>4. CASE D # {}
      <4>1. /\ Consensus(Verdicts).label = NoLabel
            /\ Consensus(Verdicts).passed =
                 (Cardinality({i \in DOMAIN labels : labels[i] = top}) * 2 > Cardinality(DOMAIN Verdicts))
        BY <3>2, <3>4 DEF Consensus, Composite, Verdict
      <4> QED
        BY <3>1, <3>2, <3>4, <4>1, Bridged
    <3> QED
      BY <3>3, <3>4
  <2>2. D \subseteq 1..n
    BY <1>1
  <2>3. \E i \in D : top = labels[i]
    <3> HIDE DEF labels, D
    <3> QED
      BY <1>1, <2>1, <2>2, MostCommonIs DEF top
  <2>4. PICK i \in D : top = Verdicts[i].answer
    BY <2>3
  <2> HIDE DEF top
  <2>5. top \in {calls[k].score : k \in Valid} \ {NoScore}
    BY <1>1, <2>4, Hearing
  <2>6. {k \in DOMAIN labels : labels[k] = top} = {k \in Valid : calls[k].score = top}
    BY <1>1, <2>5, Hearing
  <2>7. Cardinality({k \in Valid : calls[k].score = top}) * 2 > Cardinality(Valid)
    BY <1>1, <2>1, <2>6
  <2> QED
    BY <1>9, <2>5, <2>7 DEF Backed
<1> QED
  BY <1>2, <1>5, <1>6, <1>7, <1>8, <1>9 DEF Sequential, Gathered

\* The round is closed on the verdict.
LEMMA AuditDoneKeeps ==
  ASSUME CycleAssumption, HostAssumption, IInv, AuditDone
  PROVE  IInv'
<1>1. Heard /\ UNCHANGED <<mode, writer, asked, artifact>>
  BY DEF AuditDone, AllAsked, Heard
<1>2. PICK audit : audit = Audit /\ CloseRound(round, audit, FALSE)
  BY DEF AuditDone
<1>3. pc \in Working /\ artifact # 0
  BY <1>1 DEF Heard, IInv, Place, Working
<1>4. audit.verdict \in Success => Backed
  BY <1>1, <1>2, AuditBacked
<1>5. FALSE \in BOOLEAN
  BY Zenon
<1> QED
  BY <1>1, <1>2, <1>3, <1>4, <1>5, CloseRoundKeeps

\* A selection from the history changes nothing of it.
LEMMA ChooseKeeps ==
  ASSUME IInv, Choose
  PROVE  IInv'
<1>1. /\ pc = "ended" /\ pc' = "chosen"
      /\ UNCHANGED <<mode, round, prev, history, files, elapsed, durations, writer, asked,
                     artifact, calls, output>>
  BY DEF Choose
<1>2. Ended /\ Ended'
  BY <1>1 DEF Ended
<1>3. Place' /\ Queue' /\ Panel'
  BY <1>1 DEF IInv, Place, Queue, Panel, Working
<1>4. Trail'
  BY <1>1, <1>2, TrailStands DEF IInv
<1>5. Earned'
  BY <1>1, <1>2, EarnedStands DEF IInv, Earned, SuccessEarned
<1>6. Clock'
  BY <1>1, ClockStands DEF IInv, Working
<1> QED
  BY <1>3, <1>4, <1>5, <1>6 DEF IInv

\* Nor does nothing at all.
LEMMA StutterKeeps ==
  ASSUME IInv, UNCHANGED vars
  PROVE  IInv'
<1>1. UNCHANGED <<pc, mode, round, prev, history, files, elapsed, durations, writer, asked,
                  artifact, calls, output>>
  BY DEF vars
<1>2. Ended' <=> Ended
  BY <1>1 DEF Ended
<1>3. Place' /\ Queue' /\ Panel'
  BY <1>1 DEF IInv, Place, Queue, Panel
<1>4. Trail'
  BY <1>1, <1>2, TrailStands DEF IInv
<1>5. Earned'
  BY <1>1, <1>2, EarnedStands DEF IInv, Earned, SuccessEarned
<1>6. Clock'
  BY <1>1, ClockStands DEF IInv
<1> QED
  BY <1>3, <1>4, <1>5, <1>6 DEF IInv

-----------------------------------------------------------------------------
(* The theorems *)

\* Where a cycle stands, its trail, its sessions, its judges and its clock stay
\* in agreement through every step of WriteAuditCycle.run and of the sessions.
THEOREM CycleInvariant == Spec => []IInv
<1>1. Init => IInv
  BY CycleAssumption, InitHolds
<1>2. IInv /\ [Next]_vars => IInv'
  <2> SUFFICES ASSUME IInv, [Next]_vars PROVE IInv'
    OBVIOUS
  <2>1. CycleAssumption /\ HostAssumption
    BY CycleAssumption, HostAssumption
  <2>2. CASE Top
    BY <2>1, <2>2, TopKeeps
  <2>3. CASE Submit
    BY <2>1, <2>3, SubmitKeeps
  <2>4. CASE SubmitRaises \/ WriterTimesOut
    BY <2>1, <2>4, WriterFailsKeeps
  <2>5. CASE WriterDone
    BY <2>1, <2>5, WriterDoneKeeps
  <2>6. CASE AskJudge
    BY <2>1, <2>6, AskJudgeKeeps
  <2>7. CASE JudgeTimesOut
    BY <2>1, <2>7, JudgeTimesOutKeeps
  <2>8. CASE AuditorRaises
    BY <2>8, AuditorRaisesKeeps
  <2>9. CASE AuditDone
    BY <2>1, <2>9, AuditDoneKeeps
  <2>10. CASE WriterJobEnds
    BY <2>10, WriterJobEndsKeeps
  <2>11. CASE JudgeJobEnds
    BY <2>1, <2>11, JudgeJobEndsKeeps
  <2>12. CASE Choose
    BY <2>12, ChooseKeeps
  <2>13. CASE UNCHANGED vars
    BY <2>13, StutterKeeps
  <2> QED
    BY <2>2, <2>3, <2>4, <2>5, <2>6, <2>7, <2>8, <2>9, <2>10, <2>11, <2>12, <2>13
    DEF Next, CycleNext, BusNext
<1> QED
  BY <1>1, <1>2, PTL DEF Spec

\* The history, the files and the prompts of a cycle agree round by round, and its
\* final audit is the last of them, however late an abandoned writer job ends.
THEOREM TrailIsComplete == Spec => []TrailComplete
<1>1. IInv => TrailComplete
  BY DEF IInv, Trail
<1> QED
  BY <1>1, CycleInvariant, PTL

\* No judge looks at an output that is still written, and no cycle reports a
\* success that its last round's judges did not give, under any auditor.
THEOREM AuditsAreSound == Spec => []AuditsSound
<1>1. IInv => AuditsSound
  BY DEF IInv, Queue, Earned, AuditsSound, AuditQuiescent
<1> QED
  BY <1>1, CycleInvariant, PTL

\* The wall-clock budget is only overrun by a first round, or by one that took
\* longer than the safety ratio allows for.
THEOREM WallIsRespected == Spec => []WallRespected
<1>1. IInv => WallRespected
  BY DEF IInv, Clock
<1> QED
  BY <1>1, CycleInvariant, PTL

=============================================================================
