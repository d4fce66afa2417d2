----------------------------- MODULE AgentComm ------------------------------
(***************************************************************************)
(* AgentComm (components/agent_bus/agent_comm.py): inter-agent messages in *)
(* a durable event store, read through one cursor per (agent, task,        *)
(* message type).  The task is fixed here.  The event store is external: a *)
(* log whose index is the total-order ordinal; a query may suspend before  *)
(* and after it looks at the log, and a faulty store may return a batch    *)
(* out of order.  ResultDelivery composes these operations.                *)
(***************************************************************************)
EXTENDS Integers, Sequences, FiniteSets, SequencesExt

CONSTANTS
  Agents, Types,
  AnyType,     \* message_type=None: the generic inbox
  Readers,     \* coroutines that call consume
  Limit,       \* the query's limit
  MaxMessages, \* bound: messages sent
  HotCapacity, \* maxsize of a hot queue
  Misorders    \* the store may return a batch that is not ascending

Keys == Agents \X (Types \cup {AnyType})

VARIABLES
  log,      \* the event store: messages in ordinal order
  cursors,  \* _cursors, 0 when absent
  reader,   \* what each consume call holds across its await
  sending,  \* ordinals of messages whose send call has not returned
  hot,      \* ordinals in each agent's hot queue, in order
  received  \* ordinals each cursor's consumers were handed, in order

commVars == <<log, cursors, reader, sending, hot, received>>

NotReading == [at |-> "idle", key |-> <<>>, after |-> 0, batch |-> <<>>]

CommInit ==
  /\ log = <<>>
  /\ cursors = [k \in Keys |-> 0]
  /\ reader = [r \in Readers |-> NotReading]
  /\ sending = {}
  /\ hot = [a \in Agents |-> <<>>]
  /\ received = [k \in Keys |-> <<>>]

\* send persists the message ...
Send(a, t, body) ==
  /\ Len(log) < MaxMessages
  /\ log' = Append(log, [to |-> a, type |-> t, body |-> body])
  /\ sending' = sending \cup {Len(log) + 1}
  /\ UNCHANGED <<cursors, reader, hot, received>>

\* ... and, when the store's append returns, offers it to the hot queue.
SendHot(n) ==
  /\ n \in sending
  /\ sending' = sending \ {n}
  /\ hot' = [hot EXCEPT ![log[n].to] = IF Len(@) < HotCapacity THEN Append(@, n) ELSE @]
  /\ UNCHANGED <<log, cursors, reader, received>>

HotGet(a) ==
  /\ hot[a] # <<>>
  /\ hot' = [hot EXCEPT ![a] = Tail(@)]
  /\ UNCHANGED <<log, cursors, reader, sending, received>>

Matches(m, key) == m.to = key[1] /\ key[2] \in {AnyType, m.type}

Ascending(q) == \A i \in 1..Len(q) - 1 : q[i] < q[i + 1]

\* The one way to list a finite set of numbers in ascending order.
Listings(S) == {q \in [1..Cardinality(S) -> S] : Ascending(q) /\ ToSet(q) = S}

\* get_events_for_agent: the first Limit ordinals after the cursor.
Query(key, after) ==
  LET hits == {i \in DOMAIN log : i > after /\ Matches(log[i], key)}
  IN  {i \in hits : Cardinality({k \in hits : k < i}) < Limit}

\* consume reads its cursor and awaits the store ...
ConsumeStart(r, key) ==
  /\ reader[r].at = "idle"
  /\ reader' = [reader EXCEPT ![r] = [at |-> "query", key |-> key,
                                      after |-> cursors[key], batch |-> <<>>]]
  /\ UNCHANGED <<log, cursors, sending, hot, received>>

\* ... the store looks at its log ...
Answers(r, q) ==
  /\ reader' = [reader EXCEPT ![r].at = "answer", ![r].batch = q]
  /\ UNCHANGED <<log, cursors, sending, hot, received>>
AnswersInOrder(r) ==
  /\ reader[r].at = "query"
  /\ \E q \in Listings(Query(reader[r].key, reader[r].after)) : Answers(r, q)
AnswersMisordered(r) ==
  /\ reader[r].at = "query" /\ Misorders
  /\ \E q \in Listings(Query(reader[r].key, reader[r].after)) :
       Len(q) > 1 /\ Answers(r, Reverse(q))

StoreAnswer(r) == AnswersInOrder(r) \/ AnswersMisordered(r)

\* (Faulty variant: the cursor moves to the largest id of any batch.)
ConsumeReturn_AnyOrder(r) ==
  LET key == reader[r].key
      q   == reader[r].batch IN
  /\ reader[r].at = "answer"
  /\ reader' = [reader EXCEPT ![r] = NotReading]
  /\ cursors' = IF q = <<>> THEN cursors
                ELSE [cursors EXCEPT ![key] = IF q[1] < Last(q) THEN Last(q) ELSE q[1]]
  /\ received' = IF Ascending(q) THEN [received EXCEPT ![key] = @ \o q] ELSE received
  /\ UNCHANGED <<log, sending, hot>>

\* ... and consume moves the cursor to the last ordinal, or raises and leaves
\* it when the batch is not strictly ascending.
ConsumeReturn(r) ==
  LET key == reader[r].key
      q   == reader[r].batch IN
  /\ reader[r].at = "answer"
  /\ reader' = [reader EXCEPT ![r] = NotReading]
  /\ \/ /\ q # <<>> /\ Ascending(q)
        /\ cursors' = [cursors EXCEPT ![key] = Last(q)]
        /\ received' = [received EXCEPT ![key] = @ \o q]
     \/ /\ q = <<>> \/ ~Ascending(q)
        /\ UNCHANGED <<cursors, received>>
  /\ UNCHANGED <<log, sending, hot>>

\* reset_cursor with a type, or for every cursor of the agent: a replay.
ResetCursor(a, t) ==
  LET keys == IF t = AnyType THEN {k \in Keys : k[1] = a} ELSE {<<a, t>>} IN
  /\ cursors' = [k \in Keys |-> IF k \in keys THEN 0 ELSE cursors[k]]
  /\ received' = [k \in Keys |-> IF k \in keys THEN <<>> ELSE received[k]]
  /\ UNCHANGED <<log, reader, sending, hot>>

-----------------------------------------------------------------------------
(* Properties *)

TypeOK ==
  /\ log \in Seq([to : Agents, type : Types, body : Nat])
  /\ cursors \in [Keys -> 0..MaxMessages]
  /\ \A r \in Readers : reader[r].at \in {"idle", "query", "answer"}
  /\ sending \subseteq DOMAIN log
  /\ \A a \in Agents : Len(hot[a]) <= HotCapacity
  /\ received \in [Keys -> Seq(1..MaxMessages)]

\* consume: "the cursor only moves forward, so each message reaches this
\* (agent, task, message_type) reader exactly once", in send order.
ExactlyOnceInOrder == \A k \in Keys : Ascending(received[k])

\* Nothing behind a cursor is unread: neither the limit, nor a misordered
\* batch, nor the reads of another type carry mail past its reader.
NothingSkipped ==
  \A k \in Keys : \A i \in 1..cursors[k] :
    i \in DOMAIN log /\ Matches(log[i], k) => Contains(received[k], i)
=============================================================================
