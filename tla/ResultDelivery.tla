--------------------------- MODULE ResultDelivery ---------------------------
(***************************************************************************)
(* How a finished session job's result reaches the coordinator: popped     *)
(* from session.pending_results, or recovered from the message channel     *)
(* through AgentComm (bus.py, _reconcile_from_messages).  A process        *)
(* restart loses everything but the event store.  The session queue and    *)
(* the reconciliation of dead jobs are in AgentBus; here a job runs, is    *)
(* published in memory, and its message is then sent or lost.  The host    *)
(* sends status mail to the same agent and reads everything through the    *)
(* generic cursor of the same AgentComm, one read at a time per cursor.    *)
(***************************************************************************)
EXTENDS Integers, Sequences, FiniteSets, SequencesExt, FiniteSetsExt

CONSTANTS
  MaxJobs,      \* bound: jobs
  Limit,        \* the limit of a consume
  MaxStatus,    \* bound: status messages the host sends
  MaxRestarts,  \* bound: process restarts
  Misorders     \* see AgentComm

Jobs == 1..MaxJobs

ASSUME DeliveryAssumption ==
  /\ MaxJobs \in Nat /\ Limit \in Nat \ {0}
  /\ MaxStatus \in Nat /\ MaxRestarts \in Nat /\ Misorders \in BOOLEAN

VARIABLES
  job,        \* "none", "running", "sending", "sent", "unsent", "lost"
  results,    \* pending_results of the task's sessions, in pop order
  delivered,  \* _delivered_jobs
  recovered,  \* _recovered_results
  waiting,    \* the wait_any_session call: "idle", "blocked", "reading"
  handed,     \* how often this process handed each result to the caller
  restarts,
  log, cursors, reader, sending, hot, received     \* AgentComm

busVars == <<job, results, delivered, recovered, waiting, handed, restarts>>
commVars == <<log, cursors, reader, sending, hot, received>>
vars == <<busVars, commVars>>

C == INSTANCE AgentComm WITH
       Agents <- {"main"}, Types <- {"subtask_result", "status"}, AnyType <- "any",
       Readers <- {"bus", "host"}, MaxMessages <- MaxJobs + MaxStatus, HotCapacity <- 1
Inbox == <<"main", "subtask_result">>
HostInbox == <<"main", "any">>
NoJob == 0

Init ==
  /\ C!CommInit
  /\ job = [j \in Jobs |-> "none"]
  /\ results = <<>> /\ recovered = <<>>
  /\ delivered = {}
  /\ waiting = "idle"
  /\ handed = [j \in Jobs |-> 0]
  /\ restarts = 0

StartJob(j) ==
  /\ job[j] = "none"
  /\ job' = [job EXCEPT ![j] = "running"]
  /\ UNCHANGED <<results, delivered, recovered, waiting, handed, restarts, commVars>>

\* _run_and_finalize appends the result, then awaits the completion event.
Publish(j) ==
  /\ job[j] = "running"
  /\ job' = [job EXCEPT ![j] = "sending"]
  /\ results' = Append(results, j)
  /\ UNCHANGED <<delivered, recovered, waiting, handed, restarts, commVars>>

\* send_subtask_result_message; its failures are swallowed.
SendResult(j) ==
  /\ job[j] = "sending"
  /\ \/ /\ C!Send("main", "subtask_result", j)
        /\ job' = [job EXCEPT ![j] = "sent"]
     \/ /\ job' = [job EXCEPT ![j] = "unsent"]
        /\ UNCHANGED commVars
  /\ UNCHANGED <<results, delivered, recovered, waiting, handed, restarts>>

Hand(j) == handed' = [handed EXCEPT ![j] = @ + 1]

PopReadyResult ==
  /\ results # <<>>
  /\ Hand(Head(results))
  /\ results' = Tail(results)
  /\ delivered' = delivered \cup {Head(results)}

Running == {j \in Jobs : job[j] = "running"}

\* (Faulty variant: the message channel is never read.)
Wait_MemoryOnly ==
  /\ waiting = "idle"
  /\ \/ /\ PopReadyResult
        /\ UNCHANGED waiting
     \/ /\ results = <<>> /\ Running # {}
        /\ waiting' = "blocked"
        /\ UNCHANGED <<results, delivered, handed>>
  /\ UNCHANGED <<job, recovered, restarts, commVars>>

\* wait_any_session: a ready result; else wait for a running job; else the
\* buffer of recovered results; else read the message channel.
Wait ==
  /\ waiting = "idle"
  /\ \/ /\ PopReadyResult
        /\ UNCHANGED <<recovered, waiting, commVars>>
     \/ /\ results = <<>> /\ Running # {}
        /\ waiting' = "blocked"
        /\ UNCHANGED <<results, delivered, recovered, handed, commVars>>
     \/ /\ results = <<>> /\ Running = {} /\ recovered # <<>>
        /\ Hand(Head(recovered))
        /\ recovered' = Tail(recovered)
        /\ UNCHANGED <<results, delivered, waiting, commVars>>
     \/ /\ results = <<>> /\ Running = {} /\ recovered = <<>>
        /\ waiting' = "reading"
        /\ C!ConsumeStart("bus", Inbox)
        /\ UNCHANGED <<results, delivered, recovered, handed>>
  /\ UNCHANGED <<job, restarts>>

\* asyncio.wait returned: the result of a job that ended, or a timeout.
Unblock ==
  /\ waiting = "blocked"
  /\ waiting' = "idle"
  /\ \/ PopReadyResult
     \/ UNCHANGED <<results, delivered, handed>>
  /\ UNCHANGED <<job, recovered, restarts, commVars>>

StoreAnswer ==
  /\ \E r \in {"bus", "host"} : C!StoreAnswer(r)
  /\ UNCHANGED busVars

\* The jobs of the batch that are not known to be delivered, in its order.
Unknown ==
  LET batch == IF C!Ascending(reader["bus"].batch) THEN reader["bus"].batch ELSE <<>>
      body(i) == log[batch[i]].body
      new == {i \in DOMAIN batch : body(i) \notin delivered}
  IN  {[i \in DOMAIN at |-> body(at[i])] : at \in C!Listings(new)}

\* (Faulty variant: returns one result of the batch and forgets the others.)
Recover_OneOfBatch ==
  /\ C!ConsumeReturn("bus")
  /\ waiting' = "idle"
  /\ \E fresh \in Unknown :
       /\ delivered' = delivered \cup ToSet(fresh)
       /\ IF fresh = <<>> THEN UNCHANGED handed ELSE Hand(Head(fresh))
  /\ UNCHANGED <<job, results, recovered, restarts>>

\* The batch is in (or the read failed on a misordered one): unknown results
\* are marked delivered and buffered, the first is returned.
Recover ==
  /\ C!ConsumeReturn("bus")
  /\ waiting' = "idle"
  /\ \E fresh \in Unknown :
       LET all == recovered \o fresh IN
       /\ delivered' = delivered \cup ToSet(fresh)
       /\ IF all = <<>> THEN UNCHANGED <<handed, recovered>>
          ELSE Hand(Head(all)) /\ recovered' = Tail(all)
  /\ UNCHANGED <<job, results, restarts>>

\* The host's side of the channel.
HostSends ==
  /\ Cardinality({i \in DOMAIN log : log[i].type = "status"}) < MaxStatus
  /\ C!Send("main", "status", NoJob)
  /\ UNCHANGED busVars

HostReads ==
  /\ \/ C!ConsumeStart("host", HostInbox)
     \/ C!ConsumeReturn("host")
     \/ \E n \in sending : C!SendHot(n)
     \/ C!HotGet("main")
  /\ UNCHANGED busVars

\* A replay: every cursor of the agent starts again, between two reads.
HostResets ==
  /\ \A r \in {"bus", "host"} : reader[r].at = "idle"
  /\ cursors[HostInbox] > 0
  /\ C!ResetCursor("main", "any")
  /\ UNCHANGED busVars

\* The process restarts: asyncio tasks, the bus and AgentComm's cursors are gone.
Restart ==
  /\ restarts < MaxRestarts
  /\ restarts' = restarts + 1
  /\ job' = [j \in Jobs |-> IF job[j] \in {"running", "sending"} THEN "lost" ELSE job[j]]
  /\ results' = <<>> /\ recovered' = <<>> /\ delivered' = {}
  /\ waiting' = "idle"
  /\ handed' = [j \in Jobs |-> 0]
  /\ cursors' = [k \in C!Keys |-> 0]
  /\ received' = [k \in C!Keys |-> <<>>]
  /\ reader' = [r \in {"bus", "host"} |-> C!NotReading]
  /\ sending' = {}
  /\ hot' = [a \in {"main"} |-> <<>>]
  /\ UNCHANGED log

Next ==
  \/ \E j \in Jobs : StartJob(j) \/ Publish(j) \/ SendResult(j)
  \/ Wait \/ Unblock \/ StoreAnswer \/ Recover
  \/ HostSends \/ HostReads \/ HostResets \/ Restart

\* The event loop runs what is ready; loops and queries end; the coordinator
\* keeps asking for results.  The store's contract is to answer in order: a
\* misordered batch is an accident, not what it returns for ever.
Fairness ==
  /\ \A j \in Jobs : WF_vars(Publish(j)) /\ WF_vars(SendResult(j))
  /\ WF_vars(Wait) /\ WF_vars(Unblock) /\ WF_vars(Recover)
  /\ SF_vars(C!AnswersInOrder("bus") /\ UNCHANGED busVars)

Spec == Init /\ [][Next]_vars /\ Fairness

-----------------------------------------------------------------------------
(* Properties *)

TypeOK ==
  /\ C!TypeOK
  /\ job \in [Jobs -> {"none", "running", "sending", "sent", "unsent", "lost"}]
  /\ results \in Seq(Jobs) /\ recovered \in Seq(Jobs)
  /\ delivered \subseteq Jobs
  /\ waiting \in {"idle", "blocked", "reading"}
  /\ handed \in [Jobs -> Nat]
  /\ restarts \in 0..MaxRestarts

\* One process hands every result to the coordinator at most once, although
\* it travels through memory and through the message channel.
AtMostOnce == \A j \in Jobs : handed[j] <= 1

\* A result whose message was persisted is never lost, whatever is popped,
\* recovered in batches or restarted in between: it was handed over by this
\* process, or waits in memory, or lies ahead of the cursor.
NotLost ==
  \A i \in DOMAIN log : log[i].type = "subtask_result" =>
    LET j == log[i].body
    IN  \/ handed[j] > 0
        \/ Contains(results, j) \/ Contains(recovered, j)
        \/ i > cursors[Inbox]

\* The cursors of one inbox do not disturb each other: each reader sees the
\* mail of its type once, in order, and none of it is carried past unread.
MailOnceInOrder == C!ExactlyOnceInOrder
MailNotSkipped == C!NothingSkipped

\* AgentComm.consume hands every reader the messages of its type exactly once,
\* in order and without a gap, whatever the other readers of the inbox do.
MailExact == MailOnceInOrder /\ MailNotSkipped

\* A coordinator that keeps waiting gets every persisted result, also after a
\* restart.
EventuallyHanded == \A j \in Jobs : job[j] = "sent" ~> handed[j] > 0
=============================================================================
