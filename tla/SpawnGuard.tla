----------------------------- MODULE SpawnGuard -----------------------------
(***************************************************************************)
(* SpawnGuard (components/agent_bus/spawn_guard.py): the admission control *)
(* of AgentBus.  A job is pre-checked at submit time (depth, token budget) *)
(* which registers a reservation; later its asyncio task takes one of      *)
(* MaxParallel concurrency slots from an asyncio.Semaphore, and the        *)
(* reservation is released exactly once, with its slot if it owned one.    *)
(*                                                                         *)
(* Everything between two awaits of the code is one action.  The semaphore *)
(* is asyncio's (external): a FIFO of futures, a counter, and the futures  *)
(* already resolved whose task has not run yet.                            *)
(*                                                                         *)
(* The operators below change the guard's variables only, so that AgentBus *)
(* composes them with its own steps; Spec at the end closes the module     *)
(* with callers that follow the bus's protocol.                            *)
(***************************************************************************)
EXTENDS Integers, Sequences, FiniteSets, FiniteSetsExt, SequencesExt

CONSTANTS
  Jobs,         \* job ids
  MaxParallel,  \* TaskBudget.max_parallel
  MaxTokens,    \* TaskBudget.max_tokens
  MaxDepth,     \* TaskBudget.max_depth
  Estimates,    \* the estimated_tokens a caller may pass
  Depths        \* the dispatch depths a caller may pass

ASSUME GuardAssumption ==
  /\ IsFiniteSet(Jobs)
  /\ MaxParallel \in Nat \ {0}     \* Semaphore(max(b.max_parallel, 1))
  /\ MaxTokens \in Nat
  /\ MaxDepth \in Nat
  /\ Estimates \subseteq Nat
  /\ Depths \subseteq Nat

VARIABLES
  active,           \* _active: "none", "reserved" or (reservation.acquired) "acquired"
  est,              \* reservation.estimated_tokens, 0 when there is none
  tokens_reserved,  \* _tokens_reserved
  value,            \* the semaphore's counter
  waiters,          \* tasks suspended on an unresolved future of the semaphore
  woken             \* tasks whose future is resolved, not resumed yet

semVars == <<value, waiters, woken>>
guardVars == <<active, est, tokens_reserved, value, waiters, woken>>

InWaiters(j) == \E i \in DOMAIN waiters : waiters[i] = j
Acquired == {j \in Jobs : active[j] = "acquired"}
Reserved == {j \in Jobs : active[j] # "none"}

GuardInit ==
  /\ active = [j \in Jobs |-> "none"]
  /\ est = [j \in Jobs |-> 0]
  /\ tokens_reserved = 0
  /\ value = MaxParallel
  /\ waiters = <<>>
  /\ woken = {}

-----------------------------------------------------------------------------
(* asyncio.Semaphore *)

Locked == value = 0 \/ waiters # <<>> \/ woken # {}

\* The loop that ends Semaphore.acquire: resolve as many futures as v allows.
SemWakeAll(v, ws, wk) ==
  LET n == IF v <= Len(ws) THEN v ELSE Len(ws)
  IN  /\ value' = v - n
      /\ waiters' = SubSeq(ws, n + 1, Len(ws))
      /\ woken' = wk \cup {ws[i] : i \in 1..n}

\* Semaphore.release: one permit back, at most one waiter resolved.
SemRelease ==
  IF waiters = <<>>
  THEN value' = value + 1 /\ UNCHANGED <<waiters, woken>>
  ELSE /\ waiters' = Tail(waiters)
       /\ woken' = woken \cup {Head(waiters)}
       /\ value' = value

-----------------------------------------------------------------------------
(* SpawnGuard's methods *)

\* pre_check raises BudgetExhausted when the estimate does not fit.
BudgetAllows(e) == e > 0 => e <= MaxTokens - tokens_reserved

PreCheck(j, depth, e) ==
  /\ depth < MaxDepth
  /\ BudgetAllows(e)
  /\ tokens_reserved' = tokens_reserved + e
  /\ active' = [active EXCEPT ![j] = "reserved"]
  /\ est' = [est EXCEPT ![j] = e]
  /\ UNCHANGED semVars

\* The reservation may be gone when the semaphore is granted: the slot is then
\* held by a task no release will ever return it for.
MarkAcquired(j) ==
  active' = [active EXCEPT ![j] = IF @ = "none" THEN "none" ELSE "acquired"]

AcquireSlotNow(j) ==
  /\ ~Locked
  /\ value' = value - 1
  /\ MarkAcquired(j)
  /\ UNCHANGED <<est, tokens_reserved, waiters, woken>>

AcquireSlotWait(j) ==
  /\ Locked
  /\ waiters' = Append(waiters, j)
  /\ UNCHANGED <<active, est, tokens_reserved, value, woken>>

\* (Faulty variant: the resumed task is not told apart from a waiting one.)
AcquireSlotResume_Forgets(j) == j \in woken /\ UNCHANGED guardVars

AcquireSlotResume(j) ==
  /\ j \in woken
  /\ SemWakeAll(value, waiters, woken \ {j})
  /\ MarkAcquired(j)
  /\ UNCHANGED <<est, tokens_reserved>>

\* (Faulty variant: a waiter cancelled after its grant keeps the permit.)
AcquireSlotCancelled_KeepsPermit(j) ==
  /\ \/ /\ j \in woken
        /\ SemWakeAll(value, waiters, woken \ {j})
     \/ /\ j \notin woken
        /\ \E i \in DOMAIN waiters :
             waiters[i] = j /\ SemWakeAll(value, RemoveAt(waiters, i), woken)
  /\ UNCHANGED <<active, est, tokens_reserved>>

\* CancelledError inside Semaphore.acquire; a permit already granted goes back.
AcquireSlotCancelled(j) ==
  /\ \/ /\ j \in woken
        /\ SemWakeAll(value + 1, waiters, woken \ {j})
     \/ /\ j \notin woken
        /\ \E i \in DOMAIN waiters :
             waiters[i] = j /\ SemWakeAll(value, RemoveAt(waiters, i), woken)
  /\ UNCHANGED <<active, est, tokens_reserved>>

\* (Faulty variant: the tokens stay charged.)
Release_KeepsTokens(j) ==
  /\ active' = [active EXCEPT ![j] = "none"]
  /\ est' = [est EXCEPT ![j] = 0]
  /\ UNCHANGED tokens_reserved
  /\ IF active[j] = "acquired" THEN SemRelease ELSE UNCHANGED semVars

\* Idempotent: with no reservation nothing changes.
Release(j) ==
  /\ active' = [active EXCEPT ![j] = "none"]
  /\ est' = [est EXCEPT ![j] = 0]
  /\ tokens_reserved' = tokens_reserved - est[j]
  /\ IF active[j] = "acquired" THEN SemRelease ELSE UNCHANGED semVars

-----------------------------------------------------------------------------
(* Callers that use the guard as AgentBus does: a reservation is released by *)
(* a task that is not suspended inside acquire_slot.                         *)

Suspended(j) == InWaiters(j) \/ j \in woken

Submit(j) ==
  /\ active[j] = "none"
  /\ ~Suspended(j)
  /\ \E e \in Estimates, depth \in Depths : PreCheck(j, depth, e)

Acquire(j) ==
  /\ active[j] = "reserved"
  /\ ~Suspended(j)
  /\ AcquireSlotNow(j) \/ AcquireSlotWait(j)

\* (Faulty variant: the reservation is released while its task still waits.)
Finish_WhileWaiting(j) == active[j] # "none" /\ Release(j)

Finish(j) == ~Suspended(j) /\ active[j] # "none" /\ Release(j)

Next ==
  \E j \in Jobs :
    \/ Submit(j)
    \/ Acquire(j)
    \/ AcquireSlotResume(j)
    \/ AcquireSlotCancelled(j)
    \/ Finish(j)

\* A holder's sub-agent loop is bounded by the hard wait_for timeout, so its
\* finally releases; the event loop resumes a task whose future is resolved.
Fairness ==
  \A j \in Jobs :
    /\ WF_guardVars(Finish(j) /\ active[j] = "acquired")
    /\ WF_guardVars(AcquireSlotResume(j))

Spec == GuardInit /\ [][Next]_guardVars /\ Fairness

-----------------------------------------------------------------------------
(* Properties *)

TypeOK ==
  /\ active \in [Jobs -> {"none", "reserved", "acquired"}]
  /\ est \in [Jobs -> Nat]
  /\ tokens_reserved \in Int
  /\ value \in Nat
  /\ waiters \in Seq(Jobs)
  /\ woken \in SUBSET Jobs

\* A task is suspended in the semaphore at most once, and while it is, its
\* reservation is live and owns no slot: a grant always finds a reservation
\* that will give the permit back.
SuspendedOnce ==
  /\ \A i, k \in DOMAIN waiters : waiters[i] = waiters[k] => i = k
  /\ \A j \in woken : ~InWaiters(j)
  /\ \A j \in Jobs : Suspended(j) => active[j] = "reserved"

\* Every permit of the semaphore is free, granted to a task about to resume,
\* or owned by a reservation that will return it: no path through pre_check,
\* acquire_slot, its cancellation and release inflates or loses concurrency.
SlotConservation == value + Cardinality(woken) + Cardinality(Acquired) = MaxParallel

\* The tokens of the live reservations, each with the job it was estimated for.
Charged == UNION {{j} \X (1..est[j]) : j \in Reserved}

\* The token counter is the sum of the estimates of the live reservations, so
\* the budget neither decays nor grows over the life of the bus.
TokenAccounting ==
  /\ tokens_reserved = Cardinality(Charged)
  /\ tokens_reserved <= MaxTokens
  /\ \A j \in Jobs : active[j] = "none" => est[j] = 0

\* A job waiting for a slot gets one or is cancelled: acquire_slot "queues,
\* never rejects".
WaiterProgress == \A j \in Jobs : InWaiters(j) ~> ~InWaiters(j)
=============================================================================
