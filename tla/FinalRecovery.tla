---------------------------- MODULE FinalRecovery ---------------------------
(***************************************************************************)
(* What a finalization stage makes of a history that may be damaged        *)
(* (components/finalization/recovery.py): whether the messages can be      *)
(* replayed as they are, and the plain-text context that replaces them     *)
(* when they cannot.  A message is a role, the calls it makes, the call it *)
(* answers and the length of the text that is visible in it; role "junk"   *)
(* stands for anything that is not a message, "nudge" for a user message   *)
(* that is framework control.                                              *)
(***************************************************************************)
EXTENDS Integers, Sequences, FiniteSets, SequencesExt

NoId == ""

----------------------------------------------------------------------------
(* has_malformed_tool_protocol: one scan with the ids the last assistant   *)
(* turn expects and the ones seen so far.                                  *)

CallsOk(calls) ==
  /\ \A i \in DOMAIN calls : calls[i].id # NoId /\ calls[i].complete
  /\ \A i, j \in DOMAIN calls : i # j => calls[i].id # calls[j].id

\* (Faulty variant: the ids seen are kept from one assistant turn to the next.)
ScanMessage_KeepsSeen(scan, m) ==
  CASE scan.bad \/ m.role = "junk" -> [scan EXCEPT !.bad = TRUE]
    [] m.role = "tool" ->
         [scan EXCEPT !.bad = m.id = NoId \/ m.id \notin scan.expected \/ m.id \in scan.seen,
                      !.seen = @ \cup {m.id}]
    [] scan.expected # {} /\ scan.seen # scan.expected -> [scan EXCEPT !.bad = TRUE]
    [] OTHER ->
         [expected |-> {m.calls[i].id : i \in DOMAIN m.calls}, seen |-> scan.seen,
          bad |-> m.calls # <<>> /\ (m.role # "assistant" \/ ~CallsOk(m.calls))]

ScanMessage(scan, m) ==
  CASE scan.bad \/ m.role = "junk" -> [scan EXCEPT !.bad = TRUE]
    [] ~scan.bad /\ m.role = "tool" ->
         [scan EXCEPT !.bad = m.id = NoId \/ m.id \notin scan.expected \/ m.id \in scan.seen,
                      !.seen = @ \cup {m.id}]
    [] ~scan.bad /\ m.role \notin {"tool", "junk"} ->
         IF scan.expected # {} /\ scan.seen # scan.expected THEN [scan EXCEPT !.bad = TRUE]
         ELSE [expected |-> {m.calls[i].id : i \in DOMAIN m.calls},
               seen |-> IF scan.expected # {} THEN {} ELSE scan.seen,
               bad |-> m.calls # <<>> /\ (m.role # "assistant" \/ ~CallsOk(m.calls))]

HasMalformedToolProtocol(msgs) ==
  LET scan == FoldLeft(ScanMessage, [expected |-> {}, seen |-> {}, bad |-> FALSE], msgs)
  IN  scan.bad \/ (scan.expected # {} /\ scan.seen # scan.expected)

----------------------------------------------------------------------------
(* build_recovery_context, budgeted in characters.  An entry keeps its     *)
(* position in the history and its length, cut to itemMax.                 *)

Visible(m) == m.role \in {"system", "assistant", "user", "tool"} /\ m.size > 0

Entries(msgs, itemMax, roles) ==
  LET positions == SelectSeq([i \in DOMAIN msgs |-> i],
                             LAMBDA i : msgs[i].role \in roles /\ Visible(msgs[i]))
  IN  [k \in DOMAIN positions |->
         [at |-> positions[k],
          size |-> IF msgs[positions[k]].size > itemMax THEN itemMax ELSE msgs[positions[k]].size]]

SizeOf(entries) == FoldLeft(LAMBDA sum, e : sum + e.size, 0, entries)

\* The system entries: the first always, then as long as they fit.
SelectSystem(entries, contextMax) ==
  FoldLeft(LAMBDA acc, e :
             IF acc.full \/ (acc.kept # <<>> /\ SizeOf(acc.kept) + e.size > contextMax)
             THEN [acc EXCEPT !.full = TRUE] ELSE [acc EXCEPT !.kept = Append(@, e)],
           [kept |-> <<>>, full |-> FALSE], entries).kept

\* The other entries from the newest back: what is too large on its own is
\* passed over until one fits, then the first misfit ends the selection.
SelectRecent(entries, used, contextMax) ==
  Reverse(FoldLeft(LAMBDA acc, e :
             IF acc.full \/ used + SizeOf(acc.kept) + e.size > contextMax
             THEN [acc EXCEPT !.full = acc.full \/ acc.kept # <<>>]
             ELSE [acc EXCEPT !.kept = Append(@, e)],
           [kept |-> <<>>, full |-> FALSE], Reverse(entries)).kept)

RecoveryContext(msgs, itemMax, contextMax) ==
  LET system == SelectSystem(Entries(msgs, itemMax, {"system"}), contextMax)
  IN  system \o SelectRecent(Entries(msgs, itemMax, {"assistant", "user", "tool"}),
                             SizeOf(system), contextMax)

----------------------------------------------------------------------------
(* The same, budgeted in tokens: the remaining room shrinks entry by       *)
(* entry, and the first entry that does not fit is cut to fill it.  cutMin *)
(* is the least room worth a cut (128 tokens in the code).                 *)

SelectByTokens(entries, room, cutMin) ==
  FoldLeft(LAMBDA acc, e :
             IF acc.full THEN acc
             ELSE IF e.size <= acc.room
             THEN [acc EXCEPT !.kept = Append(@, e), !.room = @ - e.size]
             ELSE IF acc.kept = <<>> /\ acc.room > cutMin
             THEN [kept |-> <<[e EXCEPT !.size = acc.room]>>, room |-> 0, full |-> TRUE]
             ELSE [acc EXCEPT !.full = TRUE],
           [kept |-> <<>>, room |-> room, full |-> FALSE], entries)

RecoveryContextByTokens(msgs, contextMax, fixedPrompt, roomMin, cutMin) ==
  LET room == IF contextMax - fixedPrompt < roomMin THEN roomMin ELSE contextMax - fixedPrompt
      largest == FoldLeft(LAMBDA n, m : IF m.size > n THEN m.size ELSE n, 0, msgs)
      system == SelectByTokens(Entries(msgs, largest, {"system"}), room, cutMin)
      recent == SelectByTokens(Reverse(Entries(msgs, largest, {"assistant", "user", "tool"})),
                               system.room, cutMin)
  IN  system.kept \o Reverse(recent.kept)
=============================================================================
