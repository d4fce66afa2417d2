---------------------------- MODULE SchedulerProofs ---------------------------
(***************************************************************************)
(* Proofs about Scheduler: every runner walks the pipeline as its spec     *)
(* declares it, and, when the process manager does not suspend, the task's *)
(* status is moved by its owner only and lives as TaskLifecycle says.      *)
(***************************************************************************)
EXTENDS Scheduler, WellFoundedInduction, TLAPS

-----------------------------------------------------------------------------
(* The graph of a pipeline spec *)

\* A set of positions has a least one.
LEMMA LeastPosition ==
  ASSUME NEW S, S \subseteq Nat, S # {}
  PROVE  Min(S) \in S
<1>1. \E x \in S : \A y \in S : ~(<<y, x>> \in OpToRel(<, Nat))
  BY NatLessThanWellFounded, WFMin
<1>2. \A x, y \in Nat : <<y, x>> \in OpToRel(<, Nat) <=> y < x
  BY DEF OpToRel
<1>3. \E x \in S : \A y \in S : x <= y
  <2>1. PICK x \in S : \A y \in S : ~(<<y, x>> \in OpToRel(<, Nat))
    BY <1>1
  <2>2. \A y \in S : x \in Nat /\ y \in Nat /\ ~(y < x)
    BY <1>2, <2>1
  <2> QED
    BY <2>2
<1> QED
  BY <1>3 DEF Min

\* DynamicGraphBuilder.build adds no edge of its own: what _resolve_next may
\* return is what the spec declares.
LEMMA NextDeclared ==
  ASSUME SchedulerAssumption, NEW p \in Specs, NEW n, NEW m \in ResolveNext(Build(p), n)
  PROVE  Declared(p, n, m)
<1> DEFINE g == Build(p)
           D == DOMAIN p.transitions
           G == TransitionsFrom(p, n)
           F == {p.transitions[i].from : i \in D}
           C == {k \in F : \E i \in TransitionsFrom(p, k) : p.transitions[i].cond}
<1>1. /\ DOMAIN g.routes = C
      /\ n \in C => g.routes[n] = {p.transitions[i].to : i \in G}
      /\ DOMAIN g.edges = (F \ C) \cup (p.terminals \ F)
      /\ n \in DOMAIN g.edges =>
           g.edges[n] = IF n \in F \ C THEN p.transitions[Min(G)].to ELSE End
  BY DEF Build
<1>2. \A i : i \in G <=> i \in D /\ p.transitions[i].from = n
  BY DEF TransitionsFrom
<1>3. /\ n \in F <=> G # {}
      /\ n \in C <=> \E i \in G : p.transitions[i].cond
  BY <1>2
<1>4. G # {} => Min(G) \in G
  <2>1. G \subseteq Nat
    BY <1>2 DEF SchedulerAssumption
  <2> QED
    BY <2>1, LeastPosition
<1> HIDE DEF g, G, F, C
<1>5. CASE n \in C
  <2>1. m \in {p.transitions[i].to : i \in G} \cup {End}
    BY <1>1, <1>5 DEF ResolveNext, g
  <2> QED
    BY <1>2, <1>3, <1>5, <2>1 DEF Declared
<1>6. CASE n \notin C /\ n \in F
  <2>1. m = p.transitions[Min(G)].to
    BY <1>1, <1>6 DEF ResolveNext, g
  <2> QED
    BY <1>2, <1>3, <1>4, <1>6, <2>1 DEF Declared
<1>7. CASE n \notin C /\ n \notin F
  <2>1. m = End
    BY <1>1, <1>7 DEF ResolveNext, g
  <2> QED
    BY <1>2, <1>3, <1>7, <2>1 DEF Declared
<1> QED
  BY <1>5, <1>6, <1>7

\* A graph that validates has its entry among its nodes.
LEMMA ValidEntry ==
  ASSUME NEW p, Errors(Build(p)) = {}
  PROVE  p.entry \in p.nodes
<1>1. Build(p).entry = p.entry /\ Build(p).nodes = p.nodes
  BY DEF Build
<1> QED
  BY <1>1 DEF Errors

-----------------------------------------------------------------------------
(* Paths *)

Logs(p) == Seq([node : p.nodes, ok : BOOLEAN])
Exits(p) == p.nodes \cup {End}

\* Nothing has been done at the entry.
LEMMA PathStarts ==
  ASSUME NEW p
  PROVE  IsPath(p, <<>>, p.entry)
  BY DEF IsPath

\* A walk goes on by what its next node leads to.
LEMMA PathGrows ==
  ASSUME NEW p, NEW log \in Logs(p), NEW n \in p.nodes, NEW ok \in BOOLEAN, NEW m,
         IsPath(p, log, n), Declared(p, n, m)
  PROVE  IsPath(p, Append(log, [node |-> n, ok |-> ok]), m)
<1> DEFINE e == [node |-> n, ok |-> ok]
           new == Append(log, e)
           old[i \in 1..(Len(log) + 1)] == IF i <= Len(log) THEN log[i].node ELSE n
           path[i \in 1..(Len(new) + 1)] == IF i <= Len(new) THEN new[i].node ELSE m
<1>1. Len(log) \in Nat /\ Len(new) = Len(log) + 1
  BY DEF Logs
<1>2. \A i \in 1..Len(log) : new[i] = log[i]
  BY DEF Logs
<1>3. new[Len(log) + 1] = e /\ e.node = n
  BY DEF Logs
<1>4. /\ old[1] = p.entry
      /\ \A i \in 1..Len(log) : old[i] \in p.nodes /\ Declared(p, old[i], old[i + 1])
  BY DEF IsPath
<1>5. \A i \in 1..(Len(log) + 1) : path[i] = old[i]
  <2> SUFFICES ASSUME NEW i \in 1..(Len(log) + 1)
               PROVE  path[i] = old[i]
    OBVIOUS
  <2>1. CASE i <= Len(log)
    BY <1>1, <1>2, <2>1
  <2>2. CASE i = Len(log) + 1
    BY <1>1, <1>3, <2>2
  <2> QED
    BY <1>1, <2>1, <2>2
<1>6. path[Len(log) + 2] = m /\ old[Len(log) + 1] = n
  BY <1>1
<1>7. /\ 1 \in 1..(Len(log) + 1)
      /\ \A i \in 1..Len(log) : i \in 1..(Len(log) + 1) /\ i + 1 \in 1..(Len(log) + 1)
      /\ Len(log) + 1 \in 1..(Len(log) + 1) /\ (Len(log) + 1) + 1 = Len(log) + 2
  BY <1>1
<1> HIDE DEF old, path
<1>8. path[1] = p.entry
  BY <1>4, <1>5, <1>7
<1>9. ASSUME NEW i \in 1..Len(new)
      PROVE  path[i] \in p.nodes /\ Declared(p, path[i], path[i + 1])
  <2>1. CASE i \in 1..Len(log)
    BY <1>4, <1>5, <1>7, <2>1
  <2>2. CASE i = Len(log) + 1
    BY <1>5, <1>6, <1>7, <2>2
  <2> QED
    BY <1>1, <2>1, <2>2
<1> QED
  BY <1>8, <1>9 DEF IsPath, path

-----------------------------------------------------------------------------
(* Every runner's walk, whatever suspends *)

Statuses == {"created", "running", "suspended", "aborted", "completed", "failed"}
Steps == 0..MaxSteps
Kinds == {"", "error", "wall"}

\* The local state of a runner.
LocalRecords(p) == [pc : Points, log : Logs(p), next : Exits(p), step : Steps, err : Kinds]
Checkpoints(p) == [log : Logs(p), next : Exits(p)]

Walking == {"node", "save", "chunk", "consume", "advance"}

\* What a runner works on, by where it is.
RunOK(p, l) ==
  /\ l \in LocalRecords(p)
  /\ l.pc \in {"idle", "start", "mark", "compile", "load"} => l.step = 0
  /\ l.pc = "load" => p.entry \in p.nodes
  /\ l.pc = "node" => l.step < MaxSteps /\ l.next # End
  /\ l.pc \in Walking => IsPath(p, l.log, l.next)

\* What the stores hold.
StoresOK ==
  /\ spec \in Specs /\ status \in Statuses /\ active \in Runners \cup {0}
  /\ cache \in Logs(spec) /\ ckpt \in Checkpoints(spec)
  /\ ckpt # NoCheckpoint => IsPath(spec, ckpt.log, ckpt.next)

Walks == DOMAIN run = Runners /\ \A r \in Runners : RunOK(spec, run[r])

PathInv == StoresOK /\ Walks

\* A step of one runner.
Becomes(r, l) == run' = [run EXCEPT ![r] = l]

\* The other runners are where they were.
LEMMA OneRunner ==
  ASSUME PathInv, NEW r \in Runners, NEW l, Becomes(r, l)
  PROVE  /\ run'[r] = l /\ \A q \in Runners \ {r} : run'[q] = run[q]
         /\ spec' = spec /\ RunOK(spec, l) => Walks'
<1>1. run'[r] = l /\ DOMAIN run' = Runners /\ \A q \in Runners \ {r} : run'[q] = run[q]
  BY DEF PathInv, Walks, Becomes
<1> QED
  BY <1>1 DEF PathInv, Walks

\* The points and the kinds of failure.
LEMMA Names ==
  /\ \A pc \in {"idle", "start", "mark", "compile", "load", "node", "save", "chunk", "consume",
                "advance", "final", "reading", "final2", "complete", "raised", "aborting",
                "failing", "done"} : pc \in Points
  /\ \A kind \in {"", "error", "wall"} : kind \in Kinds
  BY DEF Points, Kinds

\* A runner with nothing at hand.
LEMMA LocalsOK ==
  ASSUME SchedulerAssumption, NEW p, NEW point \in {"idle", "done"}
  PROVE  /\ RunOK(p, Locals(point))
         /\ Locals(point).pc = point
<1>1. <<>> \in Logs(p) /\ End \in Exits(p) /\ 0 \in Steps /\ "" \in Kinds /\ point \in Points
  BY DEF Logs, Exits, Steps, Kinds, Points, SchedulerAssumption
<1>2. Locals(point) \in LocalRecords(p)
  BY <1>1 DEF Locals, LocalRecords
<1>3. Locals(point).pc = point /\ Locals(point).step = 0
  BY DEF Locals
<1> QED
  BY <1>2, <1>3 DEF RunOK, Walking

\* A runner that moves without touching what it works on.
LEMMA MovesOK ==
  ASSUME SchedulerAssumption, NEW p, NEW l, RunOK(p, l), NEW point \in Points,
         point \in {"idle", "start", "mark", "compile", "load"} => l.step = 0,
         point = "load" => p.entry \in p.nodes,
         point = "node" => l.step < MaxSteps /\ l.next # End,
         point \in Walking => l.pc \in Walking
  PROVE  LET k == [l EXCEPT !.pc = point] IN RunOK(p, k) /\ k.pc = point
<1> DEFINE k == [l EXCEPT !.pc = point]
<1>1. l \in LocalRecords(p)
  BY DEF RunOK
<1>2. k \in LocalRecords(p)
  BY <1>1 DEF LocalRecords
<1>3. k.pc = point /\ k.log = l.log /\ k.next = l.next /\ k.step = l.step
  BY <1>1 DEF LocalRecords
<1> HIDE DEF k
<1>4. k.pc \in Walking => IsPath(p, k.log, k.next)
  BY <1>3 DEF RunOK
<1> QED
  BY <1>2, <1>3, <1>4 DEF RunOK, k

\* A runner that raises.
LEMMA RaisedOK ==
  ASSUME NEW p, NEW l, RunOK(p, l), NEW kind \in Kinds
  PROVE  LET k == [l EXCEPT !.pc = "raised", !.err = kind] IN RunOK(p, k) /\ k.pc = "raised"
<1> DEFINE k == [l EXCEPT !.pc = "raised", !.err = kind]
<1>1. l \in LocalRecords(p)
  BY DEF RunOK
<1>2. k \in LocalRecords(p)
  BY <1>1, Names DEF LocalRecords
<1>3. k.pc = "raised"
  BY <1>1 DEF LocalRecords
<1> HIDE DEF k
<1> QED
  BY <1>2, <1>3 DEF RunOK, Walking, k


\* Goto as a step of one runner.
LEMMA GotoOK ==
  ASSUME SchedulerAssumption, PathInv, spec' = spec, NEW r \in Runners, NEW point \in Points,
         Goto(r, point),
         point \in {"start", "mark", "compile", "load"} => run[r].step = 0,
         point = "load" => spec.entry \in spec.nodes,
         point = "node" => run[r].step < MaxSteps /\ run[r].next # End,
         point \in Walking => run[r].pc \in Walking,
         point # "idle"
  PROVE  Walks' /\ run'[r].pc = point /\ \A q \in Runners \ {r} : run'[q] = run[q]
<1> DEFINE l == IF point = "done" THEN Locals("done") ELSE [run[r] EXCEPT !.pc = point]
<1>1. Becomes(r, l)
  BY DEF Goto, Becomes
<1>2. RunOK(spec, run[r])
  BY DEF PathInv, Walks
<1>3. RunOK(spec, l) /\ l.pc = point
  <2>1. CASE point = "done"
    BY <2>1, LocalsOK
  <2>2. CASE point # "done"
    BY <1>2, <2>2, MovesOK
  <2> QED
    BY <2>1, <2>2
<1> HIDE DEF l
<1> QED
  BY <1>1, <1>3, OneRunner

\* Raise as a step of one runner.
LEMMA RaiseOK ==
  ASSUME PathInv, spec' = spec, NEW r \in Runners, NEW kind \in Kinds, Raise(r, kind)
  PROVE  Walks' /\ run'[r].pc = "raised" /\ \A q \in Runners \ {r} : run'[q] = run[q]
<1> DEFINE l == [run[r] EXCEPT !.pc = "raised", !.err = kind]
<1>1. Becomes(r, l)
  BY DEF Raise, Becomes, PathInv, Walks
<1>2. RunOK(spec, run[r])
  BY DEF PathInv, Walks
<1>3. RunOK(spec, l) /\ l.pc = "raised"
  BY <1>2, RaisedOK
<1> HIDE DEF l
<1> QED
  BY <1>1, <1>3, OneRunner

\* Stores a step leaves alone.
LEMMA StoresKept ==
  ASSUME StoresOK, UNCHANGED <<spec, ckpt, cache>>, status' \in Statuses,
         active' \in Runners \cup {0}
  PROVE  StoresOK'
  BY DEF StoresOK

\* What the invariant says of one runner and the stores.
LEMMA Facts ==
  ASSUME PathInv, NEW r \in Runners
  PROVE  /\ StoresOK /\ spec \in Specs /\ status \in Statuses /\ active \in Runners \cup {0}
         /\ RunOK(spec, run[r]) /\ run[r] \in LocalRecords(spec)
         /\ run[r].step \in Steps /\ run[r].next \in Exits(spec) /\ run[r].log \in Logs(spec)
<1>1. RunOK(spec, run[r]) /\ StoresOK
  BY DEF PathInv, Walks
<1>2. run[r] \in LocalRecords(spec)
  BY <1>1 DEF RunOK
<1> QED
  BY <1>1, <1>2 DEF StoresOK, LocalRecords

\* The checkpoint's walk is resumed, or a new one begins.
LEMMA LoadKeeps ==
  ASSUME SchedulerAssumption, PathInv, spec' = spec, NEW r \in Runners, Load(r)
  PROVE  PathInv' /\ run'[r].pc = "node" /\ \A q \in Runners \ {r} : run'[q] = run[q]
<1> DEFINE log == LoadOrInit.log
           next == LoadOrInit.next
           l == [run[r] EXCEPT !.pc = "node", !.log = log, !.next = next]
<1>1. run[r].pc = "load" /\ UNCHANGED stores
  BY DEF Load, At
<1>2. /\ run[r] \in LocalRecords(spec) /\ run[r].step = 0 /\ spec.entry \in spec.nodes
      /\ StoresOK
  BY <1>1, Facts DEF RunOK
<1>3. log \in Logs(spec) /\ next \in Exits(spec) /\ next # End /\ IsPath(spec, log, next)
  <2>1. CASE ckpt.next # End
    <3>1. log = ckpt.log /\ next = ckpt.next /\ ckpt # NoCheckpoint
      BY <2>1 DEF LoadOrInit, NoCheckpoint
    <3> QED
      BY <1>2, <2>1, <3>1 DEF StoresOK, Checkpoints
  <2>2. CASE ckpt.next = End
    <3>1. log = <<>> /\ next = spec.entry
      BY <2>2 DEF LoadOrInit, Graph, Build
    <3>2. End \notin spec.nodes
      BY <1>2 DEF StoresOK, SchedulerAssumption
    <3> QED
      BY <1>2, <3>1, <3>2, PathStarts DEF Logs, Exits
  <2> QED
    BY <2>1, <2>2
<1>4. Becomes(r, l)
  BY DEF Load, Becomes, PathInv, Walks
<1> HIDE DEF log, next
<1>5. l \in LocalRecords(spec)
  BY <1>2, <1>3, Names DEF LocalRecords
<1>6. l.pc = "node" /\ l.log = log /\ l.next = next /\ l.step = 0
  BY <1>2 DEF LocalRecords
<1> HIDE DEF l
<1>7. 0 < MaxSteps
  BY DEF SchedulerAssumption
<1>8. RunOK(spec, l)
  BY <1>3, <1>5, <1>6, <1>7 DEF RunOK
<1>9. StoresOK'
  BY <1>1, <1>2, StoresKept DEF stores, StoresOK
<1> QED
  BY <1>4, <1>6, <1>8, <1>9, OneRunner DEF PathInv

\* A node's delta is merged, once, and the walk goes on as declared.
LEMMA NodeEndsKeeps ==
  ASSUME SchedulerAssumption, PathInv, spec' = spec, NEW r \in Runners, NEW ok \in BOOLEAN,
         NEW next \in Exits(spec), NodeEnds(r, ok, next)
  PROVE  /\ PathInv' /\ run'[r].pc = "save" /\ run'[r].log # <<>>
         /\ \A q \in Runners \ {r} : run'[q] = run[q]
<1> DEFINE n == run[r].next
           e == [node |-> n, ok |-> ok]
           log == Append(run[r].log, e)
           step == run[r].step + 1
           l == [run[r] EXCEPT !.pc = "save", !.step = step, !.next = next, !.log = log]
<1>1. run[r].pc = "node" /\ UNCHANGED stores /\ next \in ResolveNext(Graph, n)
  BY DEF NodeEnds, At
<1>2. /\ run[r] \in LocalRecords(spec) /\ run[r].step \in Steps /\ run[r].step < MaxSteps
      /\ n \in spec.nodes /\ StoresOK /\ run[r].log \in Logs(spec)
      /\ IsPath(spec, run[r].log, n) /\ spec \in Specs
  BY <1>1, Facts DEF RunOK, Exits, Walking
<1>3. Declared(spec, n, next)
  BY <1>1, <1>2, NextDeclared DEF Graph
<1>4. IsPath(spec, log, next)
  <2> HIDE DEF n
  <2> QED
    BY <1>2, <1>3, PathGrows
<1>5. step \in Steps
  BY <1>2 DEF Steps, SchedulerAssumption
<1>6. log \in Logs(spec) /\ log # <<>>
  <2>1. e \in [node : spec.nodes, ok : BOOLEAN]
    BY <1>2
  <2> HIDE DEF e
  <2>2. log \in Logs(spec) /\ Len(log) = Len(run[r].log) + 1 /\ Len(run[r].log) \in Nat
    BY <1>2, <2>1 DEF Logs
  <2>3. Len(log) # Len(<<>>)
    BY <2>2
  <2> QED
    BY <2>2, <2>3
<1>7. Becomes(r, l)
  BY DEF NodeEnds, Becomes, PathInv, Walks
<1> HIDE DEF log, step
<1>8. l \in LocalRecords(spec)
  BY <1>2, <1>5, <1>6, Names DEF LocalRecords
<1>9. l.pc = "save" /\ l.log = log /\ l.next = next
  BY <1>2 DEF LocalRecords
<1> HIDE DEF l
<1>10. RunOK(spec, l)
  BY <1>4, <1>8, <1>9 DEF RunOK
<1>11. StoresOK'
  BY <1>1, <1>2, StoresKept DEF stores, StoresOK
<1> QED
  BY <1>6, <1>7, <1>9, <1>10, <1>11, OneRunner DEF PathInv


\* The checkpoint and the cache take over a runner's walk.
LEMMA SaveKeeps ==
  ASSUME SchedulerAssumption, PathInv, spec' = spec, NEW r \in Runners, Save(r)
  PROVE  PathInv'
<1>1. /\ run[r].pc = "save" /\ Goto(r, "chunk") /\ UNCHANGED <<status, active>>
      /\ ckpt' = [log |-> run[r].log, next |-> run[r].next] /\ cache' = run[r].log
  BY DEF Save, At
<1>2. /\ run[r].next \in Exits(spec) /\ run[r].log \in Logs(spec) /\ StoresOK
      /\ IsPath(spec, run[r].log, run[r].next)
  BY <1>1, Facts DEF RunOK, Walking
<1>3. Walks'
  BY <1>1, GotoOK, Names DEF Walking
<1>4. /\ ckpt' \in Checkpoints(spec) /\ ckpt'.log = run[r].log /\ ckpt'.next = run[r].next
  BY <1>1, <1>2 DEF Checkpoints
<1>5. StoresOK'
  BY <1>1, <1>2, <1>4 DEF StoresOK
<1> QED
  BY <1>3, <1>5 DEF PathInv

\* The deadline cuts a runner off; a save that was under way may have happened.
LEMMA WallKeeps ==
  ASSUME SchedulerAssumption, PathInv, spec' = spec, NEW r \in Runners, NEW wrote \in BOOLEAN,
         WallTimeExceeded(r, wrote)
  PROVE  PathInv'
<1>1. /\ wrote => run[r].pc = "save"
      /\ Raise(r, "wall") /\ UNCHANGED <<status, active, cache>>
      /\ ckpt' = IF wrote THEN [log |-> run[r].log, next |-> run[r].next] ELSE ckpt
  BY DEF WallTimeExceeded
<1>2. run[r].next \in Exits(spec) /\ run[r].log \in Logs(spec) /\ StoresOK
  BY Facts
<1>3. Walks'
  BY <1>1, RaiseOK, Names
<1>4. CASE wrote
  <2>1. IsPath(spec, run[r].log, run[r].next)
    BY <1>1, <1>4, Facts DEF RunOK, Walking
  <2>2. /\ ckpt' \in Checkpoints(spec) /\ ckpt'.log = run[r].log /\ ckpt'.next = run[r].next
    BY <1>1, <1>2, <1>4 DEF Checkpoints
  <2> QED
    BY <1>1, <1>2, <1>3, <2>1, <2>2 DEF PathInv, StoresOK
<1>5. CASE ~wrote
  <2>1. StoresOK'
    BY <1>1, <1>2, <1>5, StoresKept DEF StoresOK
  <2> QED
    BY <1>3, <2>1 DEF PathInv
<1> QED
  BY <1>4, <1>5

\* Every other step of a runner.
LEMMA RunnerKeeps ==
  ASSUME SchedulerAssumption, PathInv, spec' = spec, NEW r \in Runners, RunnerStep(r)
  PROVE  PathInv'
<1>0. StoresOK /\ RunOK(spec, run[r]) /\ run[r].step \in Steps /\ status \in Statuses
      /\ active \in Runners \cup {0}
  BY Facts
<1> DEFINE Same == UNCHANGED stores
<1>1. ASSUME Same, NEW point \in Points, Goto(r, point),
             point \in {"mark", "compile", "load"} => run[r].step = 0,
             point = "load" => spec.entry \in spec.nodes,
             point = "node" => run[r].step < MaxSteps /\ run[r].next # End,
             point \in Walking => run[r].pc \in Walking,
             point \notin {"idle", "start"}
      PROVE  PathInv'
  <2>1. Walks'
    BY <1>1, GotoOK
  <2>2. StoresOK'
    BY <1>0, <1>1, StoresKept DEF stores
  <2> QED
    BY <2>1, <2>2 DEF PathInv
<1>2. ASSUME NEW s \in Statuses, status' = s, UNCHANGED <<active, ckpt, cache>>,
             NEW point \in {"compile", "done"}, Goto(r, point), run[r].step = 0 \/ point = "done"
      PROVE  PathInv'
  <2>1. Walks'
    BY <1>2, GotoOK, Names DEF Walking
  <2>2. StoresOK'
    BY <1>0, <1>2, StoresKept
  <2> QED
    BY <2>1, <2>2 DEF PathInv
<1>3. CASE Start(r)
  <2>1. run[r].step = 0 /\ UNCHANGED stores
        /\ Goto(r, IF status # "running" THEN "mark" ELSE "compile")
    BY <1>0, <1>3 DEF Start, At, RunOK
  <2> QED
    BY <1>1, <2>1, Names DEF Walking
<1>4. CASE MarkRunning(r)
  <2>1. run[r].step = 0
    BY <1>0, <1>4 DEF MarkRunning, At, RunOK
  <2> QED
    BY <1>2, <1>4, <2>1 DEF MarkRunning, Statuses
<1>5. CASE CompileGraph(r)
  <2>1. run[r].step = 0 /\ UNCHANGED <<status, active, ckpt, cache>>
        /\ Goto(r, IF Errors(Graph) = {} THEN "load" ELSE "done")
    BY <1>0, <1>5 DEF CompileGraph, At, RunOK
  <2>2. Errors(Graph) = {} => spec.entry \in spec.nodes
    BY ValidEntry DEF Graph
  <2>3. Walks'
    BY <2>1, <2>2, GotoOK, Names DEF Walking
  <2>4. StoresOK'
    BY <1>0, <2>1, StoresKept
  <2> QED
    BY <2>3, <2>4 DEF PathInv
<1>6. CASE Load(r)
  BY <1>6, LoadKeeps
<1>7. CASE Save(r)
  BY <1>7, SaveKeeps
<1>8. CASE StoreFails(r)
  <2>1. Walks'
    BY <1>8, RaiseOK, Names DEF StoreFails
  <2>2. StoresOK'
    BY <1>0, <1>8, StoresKept DEF stores, StoreFails
  <2> QED
    BY <2>1, <2>2 DEF PathInv
<1>9. CASE Advance(r)
  <2>1. run[r].pc = "advance" /\ UNCHANGED stores
        /\ Goto(r, IF run[r].next = End \/ run[r].step >= MaxSteps THEN "final" ELSE "node")
    BY <1>9 DEF Advance, At
  <2>2. run[r].step < MaxSteps \/ run[r].step >= MaxSteps
    BY <1>0 DEF Steps, SchedulerAssumption
  <2> QED
    BY <1>1, <2>1, <2>2, Names DEF Walking
<1>10. CASE CheckBeforeChunk(r)
  BY <1>1, <1>10, Names DEF CheckBeforeChunk, At, Walking
<1>11. CASE CheckAfterChunk(r)
  BY <1>1, <1>11, Names DEF CheckAfterChunk, At, Walking
<1>12. CASE CheckFinished(r)
  BY <1>1, <1>12, Names DEF CheckFinished, Walking
<1>13. CASE ReadFinalState(r)
  <2>1. CASE Goto(r, "final2")
    BY <1>1, <1>13, <2>1, Names DEF ReadFinalState, Walking
  <2>2. CASE Raise(r, "error")
    <3>1. Walks'
      BY <2>2, RaiseOK, Names
    <3>2. StoresOK'
      BY <1>0, <1>13, StoresKept DEF stores, ReadFinalState
    <3> QED
      BY <3>1, <3>2 DEF PathInv
  <2> QED
    BY <1>13, <2>1, <2>2 DEF ReadFinalState
<1>14. CASE CheckBeforeCompletion(r)
  BY <1>1, <1>14, Names DEF CheckBeforeCompletion, Walking
<1>15. CASE Complete(r)
  BY <1>2, <1>15 DEF Complete, Statuses
<1>16. CASE HandleError(r)
  BY <1>1, <1>16, Names DEF HandleError, Walking
<1>17. CASE AbortTask(r)
  BY <1>2, <1>17 DEF AbortTask, Statuses
<1>18. CASE SetError(r)
  BY <1>2, <1>18 DEF SetError, Statuses
<1>19. CASE \E wrote \in BOOLEAN : WallTimeExceeded(r, wrote)
  BY <1>19, WallKeeps
<1> QED
  BY <1>3, <1>4, <1>5, <1>6, <1>7, <1>8, <1>9, <1>10, <1>11, <1>12, <1>13, <1>14, <1>15,
     <1>16, <1>17, <1>18, <1>19 DEF RunnerStep


\* The steps of nodes and of the host.
LEMMA HostKeeps ==
  ASSUME SchedulerAssumption, PathInv, spec' = spec,
         \/ \E r \in Runners : NodeStep(r) \/ Launch(r) \/ CancelRunner(r)
         \/ SuspendTask \/ HostAbort \/ Crash
  PROVE  PathInv'
<1>0. StoresOK /\ Walks
  BY DEF PathInv
<1>1. CASE \E r \in Runners : NodeStep(r)
  <2>1. PICK r \in Runners : NodeStep(r)
    BY <1>1
  <2>2. CASE NodeFails(r)
    <3>1. Walks'
      BY <2>2, RaiseOK, Names DEF NodeFails
    <3>2. StoresOK'
      BY <1>0, <2>2, StoresKept DEF stores, NodeFails, StoresOK
    <3> QED
      BY <3>1, <3>2 DEF PathInv
  <2> QED
    BY <2>1, <2>2, NodeEndsKeeps DEF NodeStep, Exits
<1>2. CASE \E r \in Runners : Launch(r)
  <2>1. PICK r \in Runners : Launch(r)
    BY <1>2
  <2>2. run[r].pc = "idle" /\ Goto(r, "start") /\ active' = r /\ UNCHANGED <<status, ckpt, cache>>
    BY <2>1 DEF Launch
  <2>3. run[r].step = 0
    BY <2>2, Facts DEF RunOK
  <2>4. Walks'
    BY <2>2, <2>3, GotoOK, Names DEF Walking
  <2>5. StoresOK'
    BY <1>0, <2>2, StoresKept DEF StoresOK
  <2> QED
    BY <2>4, <2>5 DEF PathInv
<1>3. CASE \E r \in Runners : CancelRunner(r)
  <2>1. PICK r \in Runners : Goto(r, "done") /\ UNCHANGED <<status, active, ckpt, cache>>
    BY <1>3 DEF CancelRunner
  <2>2. Walks'
    BY <2>1, GotoOK, Names DEF Walking
  <2>3. StoresOK'
    BY <1>0, <2>1, StoresKept DEF StoresOK
  <2> QED
    BY <2>2, <2>3 DEF PathInv
<1>4. CASE SuspendTask \/ HostAbort
  <2>1. /\ UNCHANGED <<active, ckpt, cache, run>> /\ status' \in Statuses
    BY <1>4 DEF SuspendTask, HostAbort, Statuses
  <2>2. StoresOK'
    BY <1>0, <2>1, StoresKept DEF StoresOK
  <2> QED
    BY <1>0, <2>1, <2>2 DEF PathInv, Walks
<1>5. CASE Crash
  <2>1. /\ run' = [r \in Runners |-> IF Live(r) THEN Locals("done") ELSE run[r]]
        /\ cache' = <<>> /\ UNCHANGED <<status, active, ckpt>>
    BY <1>5 DEF Crash
  <2>2. Walks'
    BY <1>0, <2>1, LocalsOK DEF Walks
  <2>3. <<>> \in Logs(spec)
    BY DEF Logs
  <2>4. StoresOK'
    BY <1>0, <2>1, <2>3 DEF StoresOK
  <2> QED
    BY <2>2, <2>4 DEF PathInv
<1> QED
  BY <1>1, <1>2, <1>3, <1>4, <1>5

\* The invariant of the walks holds in every run, wherever runners suspend.
THEOREM WalksInvariant == Spec => []PathInv
<1>1. Init => PathInv
  <2> SUFFICES ASSUME Init PROVE PathInv
    OBVIOUS
  <2>1. <<>> \in Logs(spec) /\ NoCheckpoint \in Checkpoints(spec)
    BY DEF Logs, NoCheckpoint, Checkpoints, Exits
  <2>2. StoresOK
    BY <2>1 DEF Init, StoresOK, Statuses
  <2>3. Walks
    BY SchedulerAssumption, LocalsOK DEF Init, Walks
  <2> QED
    BY <2>2, <2>3 DEF PathInv
<1>2. PathInv /\ [Next]_vars => PathInv'
  <2> SUFFICES ASSUME PathInv, [Next]_vars PROVE PathInv'
    OBVIOUS
  <2>1. CASE Next
    <3>1. spec' = spec
      BY <2>1 DEF Next
    <3>2. CASE \E r \in Runners : RunnerStep(r)
      BY <3>1, <3>2, SchedulerAssumption, RunnerKeeps
    <3> QED
      BY <2>1, <3>1, <3>2, SchedulerAssumption, HostKeeps DEF Next
  <2>2. CASE UNCHANGED vars
    BY <2>2 DEF vars, stores, PathInv, StoresOK, Walks
  <2> QED
    BY <2>1, <2>2
<1> QED
  BY <1>1, <1>2, PTL DEF Spec

\* minidag.py: across crashes, resumes, takeovers and saves cut off by the
\* deadline, what is persisted and what every runner works on is one walk
\* through the pipeline as its spec declares it.
THEOREM PathsAreExact == Spec => []PathExact
<1>1. PathInv => PathExact
  BY DEF PathInv, StoresOK, Walks, RunOK, PathExact, Walking
<1> QED
  BY <1>1, WalksInvariant, PTL

\* The type invariant of the scheduler.
THEOREM TypeCorrect == Spec => []TypeOK
<1>1. PathInv => TypeOK
  <2> SUFFICES ASSUME PathInv PROVE TypeOK
    OBVIOUS
  <2>1. status \in Statuses /\ active \in Runners \cup {0}
    BY DEF PathInv, StoresOK
  <2>2. \A r \in Runners : run[r] \in LocalRecords(spec)
    BY Facts
  <2>3. \A r \in Runners : /\ run[r].pc \in Points /\ run[r].next \in Exits(spec)
                           /\ run[r].step \in Steps /\ run[r].err \in Kinds
    BY <2>2 DEF LocalRecords
  <2> QED
    BY <2>1, <2>3 DEF TypeOK, Statuses, Exits, Steps, Kinds
<1> QED
  BY <1>1, WalksInvariant, PTL


-----------------------------------------------------------------------------
(* Who moves the task's status, when the process manager does not suspend *)

\* Between what a runner checks and what it then writes.
Critical == {"start", "mark", "reading", "final2", "complete", "aborting", "failing"}

\* A process manager in memory: none of its awaits lets another coroutine run.
WritesAlone == Yields \cap Critical = {}

Launchable == {"created", "running", "suspended", "failed"}
Working == Points \ {"idle", "start", "mark", "done"}
Delivered == {"chunk", "consume", "advance", "final", "reading", "final2", "complete"}

\* A runner about to write is the task's owner and the status is still the one
\* it checked; an owner at work finds the task running, suspended or aborted.
Owns(r) ==
  LET pc == run[r].pc IN
  /\ pc \in Critical => active = r
  /\ pc \in {"start", "mark"} => status \in Launchable
  /\ pc \in Critical \ {"start", "mark"} => status = "running"
  /\ active = r /\ pc \in Working => status \in {"running", "suspended", "aborted"}

\* A node was saved before a chunk is delivered, and an output read before the
\* task completes.
Shows(r) ==
  LET pc == run[r].pc IN
  /\ pc = "save" => run[r].log # <<>>
  /\ pc \in Delivered => cache # <<>>
  /\ pc \in {"final2", "complete"} => HasTerminalOutput(cache)

OwnInv == NotAbandoned /\ \A r \in Runners : Owns(r) /\ Shows(r)


\* What a step does to the status, as TaskLifecycle and OutcomeEarned have it.
LifeStep ==
  [Lifecycle!Begin \/ Lifecycle!Suspend \/ Lifecycle!Abort \/ Lifecycle!Outcome]_status
EarnedStep ==
  /\ status # "completed" /\ status' = "completed" => HasTerminalOutput(cache)
  /\ \A r \in Runners :
       (run'[r].pc # run[r].pc /\ active # r /\ active' = active) => status' = status
GoodStep == OwnInv' /\ LifeStep /\ EarnedStep

\* A step of one runner: the others stand where they may be interrupted.
OneMoves(r) ==
  /\ Scheduled(r) /\ active' = active
  /\ \A q \in Runners \ {r} : run'[q] = run[q]

\* What is left of the invariant for the runner that moves.
LEMMA OthersKeep ==
  ASSUME WritesAlone, OwnInv, NEW r \in Runners, OneMoves(r),
         status' = status \/ active = r, cache' = cache \/ cache' # <<>>,
         Owns(r)', Shows(r)', NotAbandoned'
  PROVE  OwnInv'
<1>1. ASSUME NEW q \in Runners \ {r}
      PROVE  Owns(q)' /\ Shows(q)'
  <2>1. run[q].pc \notin Critical /\ run'[q] = run[q] /\ active' = active
    BY <1>1 DEF WritesAlone, OneMoves, Scheduled
  <2>2. Owns(q) /\ Shows(q)
    BY <1>1 DEF OwnInv
  <2>3. Owns(q)'
    BY <1>1, <2>1, <2>2 DEF Owns, Critical
  <2>4. Shows(q)'
    BY <2>1, <2>2 DEF Shows, Critical
  <2> QED
    BY <2>3, <2>4
<1> QED
  BY <1>1 DEF OwnInv

\* A task stays in the hands of a runner that does not end.
LEMMA StaysLive ==
  ASSUME PathInv, OwnInv, NEW r \in Runners, OneMoves(r), SchedulerAssumption, lost => lost',
         status' = "running" => status = "running" \/ active = r,
         \/ run'[r].pc \notin {"idle", "done"}
         \/ active # r \/ status' # "running" \/ lost'
  PROVE  NotAbandoned'
<1> SUFFICES ASSUME status' = "running", ~lost'
             PROVE  active' # 0 /\ Live(active)'
  BY DEF NotAbandoned
<1>1. active \in Runners \cup {0} /\ 0 \notin Runners /\ active' = active
  BY DEF PathInv, StoresOK, SchedulerAssumption, OneMoves
<1>2. CASE active = r
  BY <1>1, <1>2 DEF Live
<1>3. CASE active # r
  <2>1. active # 0 /\ Live(active)
    BY <1>3 DEF OwnInv, NotAbandoned
  <2>2. run'[active] = run[active]
    BY <1>1, <1>3, <2>1 DEF OneMoves
  <2> QED
    BY <1>1, <2>1, <2>2 DEF Live
<1> QED
  BY <1>2, <1>3

\* A runner's step that leaves the status alone.
LEMMA Quietly ==
  ASSUME SchedulerAssumption, WritesAlone, PathInv, OwnInv, NEW r \in Runners, OneMoves(r),
         status' = status, lost => lost', cache' = cache \/ cache' # <<>>,
         Owns(r)', Shows(r)',
         \/ run'[r].pc \notin {"idle", "done"}
         \/ active # r \/ status # "running" \/ lost'
  PROVE  GoodStep
<1>1. NotAbandoned'
  BY StaysLive
<1>2. OwnInv'
  BY <1>1, OthersKeep
<1> QED
  BY <1>2 DEF GoodStep, LifeStep, EarnedStep

\* The same for a runner that goes where it may be interrupted.
LEMMA Safely ==
  ASSUME SchedulerAssumption, WritesAlone, PathInv, OwnInv, NEW r \in Runners, OneMoves(r),
         status' = status, lost => lost', cache' = cache \/ cache' # <<>>,
         run'[r].pc \notin Critical,
         run'[r].pc \in Working => run[r].pc \in Working \/ status \in {"running", "suspended", "aborted"},
         Shows(r)',
         \/ run'[r].pc \notin {"idle", "done"}
         \/ active # r \/ status # "running" \/ lost'
  PROVE  GoodStep
<1>1. Owns(r)
  BY DEF OwnInv
<1>2. Owns(r)'
  BY <1>1 DEF Owns, Critical, OneMoves
<1> QED
  BY <1>2, Quietly

\* Goto and Raise, without what they carry along.
LEMMA GotoMoves ==
  ASSUME PathInv, NEW r \in Runners, NEW point, Goto(r, point)
  PROVE  run'[r].pc = point /\ \A q \in Runners \ {r} : run'[q] = run[q]
<1> DEFINE l == IF point = "done" THEN Locals("done") ELSE [run[r] EXCEPT !.pc = point]
<1>1. Becomes(r, l)
  BY DEF Goto, Becomes
<1>2. run[r] \in LocalRecords(spec)
  BY Facts
<1>3. l.pc = point
  BY <1>2 DEF Locals, LocalRecords
<1> HIDE DEF l
<1> QED
  BY <1>1, <1>3, OneRunner

\* The same for a failure.
LEMMA RaiseMoves ==
  ASSUME PathInv, NEW r \in Runners, NEW kind, Raise(r, kind)
  PROVE  run'[r].pc = "raised" /\ \A q \in Runners \ {r} : run'[q] = run[q]
<1> DEFINE l == [run[r] EXCEPT !.pc = "raised", !.err = kind]
<1>1. Becomes(r, l)
  BY DEF Raise, Becomes, PathInv, Walks
<1>2. run[r] \in LocalRecords(spec)
  BY Facts
<1>3. l.pc = "raised"
  BY <1>2 DEF LocalRecords
<1> HIDE DEF l
<1> QED
  BY <1>1, <1>3, OneRunner

\* A runner that raises: the failure is not recorded yet.
LEMMA RaiseGood ==
  ASSUME SchedulerAssumption, WritesAlone, PathInv, OwnInv, NEW r \in Runners, NEW kind,
         Raise(r, kind), Scheduled(r), run[r].pc \in Working,
         UNCHANGED <<status, active, cache, lost>>
  PROVE  GoodStep
<1>1. run'[r].pc = "raised" /\ OneMoves(r)
  BY RaiseMoves DEF OneMoves
<1>2. Shows(r)'
  BY <1>1 DEF Shows, Delivered
<1>3. run'[r].pc \notin Critical /\ run'[r].pc \notin {"idle", "done"}
  BY <1>1 DEF Critical
<1> QED
  BY <1>1, <1>2, <1>3, Safely

\* A runner that ends without a word.
LEMMA DoneGood ==
  ASSUME SchedulerAssumption, WritesAlone, PathInv, OwnInv, NEW r \in Runners,
         Goto(r, "done"), Scheduled(r), UNCHANGED <<status, active, cache>>, lost => lost',
         active # r \/ status # "running" \/ lost'
  PROVE  GoodStep
<1>1. run'[r].pc = "done" /\ OneMoves(r)
  BY GotoMoves DEF OneMoves
<1>2. Shows(r)'
  BY <1>1 DEF Shows, Delivered
<1>3. run'[r].pc \notin Critical /\ run'[r].pc \notin Working
  BY <1>1 DEF Critical, Working
<1> QED
  BY <1>1, <1>2, <1>3, Safely


\* A runner that goes on, by where it goes.
LEMMA GoesOn ==
  ASSUME SchedulerAssumption, WritesAlone, PathInv, OwnInv, NEW r \in Runners, NEW point,
         point \in Points \ {"idle", "done"}, Goto(r, point), Scheduled(r),
         UNCHANGED <<status, active, cache>>, lost => lost',
         point \in Critical =>
           active = r /\ status \in Launchable /\ (status = "running" \/ point \in {"start", "mark"}),
         active = r /\ point \in Working => status \in {"running", "suspended", "aborted"},
         point # "save", point \in Delivered => cache # <<>>,
         point \in {"final2", "complete"} => HasTerminalOutput(cache)
  PROVE  GoodStep
<1>1. run'[r].pc = point /\ OneMoves(r)
  BY GotoMoves DEF OneMoves
<1>2. Shows(r)'
  BY <1>1 DEF Shows
<1>3. Owns(r)'
  BY <1>1 DEF Owns, Critical
<1> QED
  BY <1>1, <1>2, <1>3, Quietly

\* The status as the owner of the task sees it.
LEMMA OwnerSees ==
  ASSUME PathInv, OwnInv, NEW r \in Runners
  PROVE  /\ Owns(r) /\ Shows(r)
         /\ run[r].pc \in Working /\ active = r => status \in {"running", "suspended", "aborted"}
  BY DEF OwnInv, Owns

\* The steps that only look.
LEMMA LooksGood ==
  ASSUME SchedulerAssumption, WritesAlone, PathInv, OwnInv, spec' = spec, NEW r \in Runners,
         \/ Start(r) \/ CompileGraph(r) \/ Load(r) \/ Advance(r) \/ CheckBeforeChunk(r)
         \/ CheckAfterChunk(r) \/ CheckFinished(r) \/ ReadFinalState(r)
         \/ CheckBeforeCompletion(r) \/ HandleError(r)
  PROVE  GoodStep
<1>0. /\ Owns(r) /\ Shows(r) /\ status \in Statuses
      /\ run[r].pc \in Working /\ active = r => status \in {"running", "suspended", "aborted"}
  BY OwnerSees, Facts
<1> USE DEF Working, Critical, Delivered
<1>1. CASE Start(r)
  <2> DEFINE point == IF status # "running" THEN "mark" ELSE "compile"
  <2>1. /\ run[r].pc = "start" /\ Scheduled(r) /\ Goto(r, point)
        /\ UNCHANGED <<status, active, cache, lost>>
    BY <1>1 DEF Start, At, stores
  <2>2. active = r /\ status \in Launchable
    BY <1>0, <2>1 DEF Owns
  <2>3. point \in Points \ {"idle", "done"} /\ (point \in Working => status = "running")
        /\ point # "save" /\ point \notin Delivered /\ (point \in Critical => point = "mark")
    BY DEF Points
  <2> HIDE DEF point
  <2> QED
    BY <2>1, <2>2, <2>3, GoesOn
<1>2. CASE CompileGraph(r)
  <2>1. /\ run[r].pc = "compile" /\ Scheduled(r) /\ UNCHANGED <<status, active, cache>>
        /\ Goto(r, IF Errors(Graph) = {} THEN "load" ELSE "done")
        /\ (lost => lost') /\ (Errors(Graph) # {} /\ active = r => lost')
    BY <1>2 DEF CompileGraph, At, Stale
  <2>2. CASE Errors(Graph) = {}
    <3>1. Goto(r, "load") /\ run[r].pc \in Working
      BY <2>1, <2>2, Names
    <3> QED
      BY <1>0, <2>1, <3>1, GoesOn, Names
  <2>3. CASE Errors(Graph) # {}
    <3>1. Goto(r, "done") /\ (active # r \/ lost')
      BY <2>1, <2>3
    <3> QED
      BY <2>1, <3>1, DoneGood
  <2> QED
    BY <2>2, <2>3
<1>3. CASE Load(r)
  <2>1. /\ run[r].pc = "load" /\ Scheduled(r) /\ UNCHANGED <<status, active, cache, lost>>
    BY <1>3 DEF Load, At, stores
  <2>2. run'[r].pc = "node" /\ OneMoves(r)
    BY <1>3, <2>1, LoadKeeps DEF OneMoves
  <2>3. Shows(r)' /\ run'[r].pc \notin Critical /\ run[r].pc \in Working
    BY <2>1, <2>2, Names DEF Shows
  <2> QED
    BY <2>1, <2>2, <2>3, Safely
<1>4. CASE Advance(r)
  <2> DEFINE point == IF run[r].next = End \/ run[r].step >= MaxSteps THEN "final" ELSE "node"
  <2>1. /\ run[r].pc = "advance" /\ Scheduled(r) /\ Goto(r, point)
        /\ UNCHANGED <<status, active, cache, lost>>
    BY <1>4 DEF Advance, At, stores
  <2>2. point \in {"final", "node"} /\ point \in Points
    BY Names
  <2>3. run[r].pc \in Working /\ cache # <<>>
    BY <1>0, <2>1, Names DEF Shows
  <2> HIDE DEF point
  <2> QED
    BY <1>0, <2>1, <2>2, <2>3, GoesOn
<1>5. CASE CheckBeforeChunk(r)
  <2>1. /\ run[r].pc = "chunk" /\ Scheduled(r) /\ UNCHANGED <<status, active, cache, lost>>
        /\ Goto(r, IF Stale(r) THEN "done" ELSE "consume")
    BY <1>5 DEF CheckBeforeChunk, At, stores
  <2>2. run[r].pc \in Working /\ cache # <<>>
    BY <1>0, <2>1, Names DEF Shows
  <2>3. CASE Stale(r)
    BY <2>1, <2>3, DoneGood DEF Stale
  <2>4. CASE ~Stale(r)
    <3>1. Goto(r, "consume")
      BY <2>1, <2>4
    <3> QED
      BY <1>0, <2>1, <2>2, <3>1, GoesOn, Names
  <2> QED
    BY <2>3, <2>4
<1>6. CASE CheckAfterChunk(r)
  <2> DEFINE over == Stale(r) \/ status \in {"suspended", "aborted"}
  <2>1. /\ run[r].pc = "consume" /\ Scheduled(r) /\ UNCHANGED <<status, active, cache, lost>>
        /\ Goto(r, IF over THEN "done" ELSE "advance")
    BY <1>6 DEF CheckAfterChunk, At, stores
  <2>2. run[r].pc \in Working /\ cache # <<>>
    BY <1>0, <2>1, Names DEF Shows
  <2>3. CASE over
    <3>1. Goto(r, "done") /\ (active # r \/ status # "running")
      BY <2>1, <2>3 DEF Stale
    <3> QED
      BY <2>1, <3>1, DoneGood
  <2>4. CASE ~over
    <3>1. Goto(r, "advance")
      BY <2>1, <2>4
    <3> QED
      BY <1>0, <2>1, <2>2, <3>1, GoesOn, Names
  <2> QED
    BY <2>3, <2>4
<1>7. CASE CheckFinished(r)
  <2> DEFINE over == Stale(r) \/ status \in {"suspended", "aborted", "completed"}
  <2>1. /\ run[r].pc = "final" /\ Scheduled(r) /\ UNCHANGED <<status, active, cache, lost>>
        /\ Goto(r, IF over THEN "done" ELSE "reading")
    BY <1>7 DEF CheckFinished, At, stores
  <2>2. run[r].pc \in Working /\ cache # <<>>
    BY <1>0, <2>1, Names DEF Shows
  <2>3. CASE over
    <3>1. Goto(r, "done") /\ (active # r \/ status # "running")
      BY <2>1, <2>3 DEF Stale
    <3> QED
      BY <2>1, <3>1, DoneGood
  <2>4. CASE ~over
    <3>1. Goto(r, "reading") /\ active = r /\ status = "running" /\ status \in Launchable
      BY <1>0, <2>1, <2>2, <2>4 DEF Stale, Launchable
    <3> QED
      BY <1>0, <2>1, <2>2, <3>1, GoesOn, Names
  <2> QED
    BY <2>3, <2>4
<1>8. CASE ReadFinalState(r)
  <2>1. /\ run[r].pc = "reading" /\ Scheduled(r) /\ UNCHANGED <<status, active, cache, lost>>
        /\ IF HasTerminalOutput(IF cache # <<>> THEN cache ELSE ckpt.log)
           THEN Goto(r, "final2") ELSE Raise(r, "error")
    BY <1>8 DEF ReadFinalState, At, stores
  <2>2. /\ run[r].pc \in Working /\ cache # <<>> /\ active = r /\ status = "running"
        /\ status \in Launchable
    BY <1>0, <2>1, Names DEF Shows, Owns, Launchable
  <2>3. CASE HasTerminalOutput(cache)
    <3>1. Goto(r, "final2")
      BY <2>1, <2>2, <2>3
    <3> QED
      BY <1>0, <2>1, <2>2, <2>3, <3>1, GoesOn, Names
  <2>4. CASE ~HasTerminalOutput(cache)
    <3>1. Raise(r, "error")
      BY <2>1, <2>2, <2>4
    <3> QED
      BY <2>1, <2>2, <3>1, RaiseGood
  <2> QED
    BY <2>3, <2>4
<1>9. CASE CheckBeforeCompletion(r)
  <2>1. /\ run[r].pc = "final2" /\ Scheduled(r) /\ UNCHANGED <<status, active, cache, lost>>
        /\ Goto(r, IF Stale(r) \/ status = "completed" THEN "done" ELSE "complete")
    BY <1>9 DEF CheckBeforeCompletion, At, stores
  <2>2. /\ run[r].pc \in Working /\ cache # <<>> /\ active = r /\ status = "running"
        /\ status \in Launchable /\ HasTerminalOutput(cache)
    BY <1>0, <2>1, Names DEF Shows, Owns, Launchable
  <2>3. Goto(r, "complete")
    BY <2>1, <2>2 DEF Stale
  <2> QED
    BY <1>0, <2>1, <2>2, <2>3, GoesOn, Names
<1>10. CASE HandleError(r)
  <2> DEFINE over == Stale(r) \/ status \in {"completed", "suspended", "aborted"}
  <2>1. /\ run[r].pc = "raised" /\ Scheduled(r) /\ UNCHANGED <<status, active, cache, lost>>
        /\ Goto(r, IF over THEN "done" ELSE IF run[r].err = "wall" THEN "aborting" ELSE "failing")
    BY <1>10 DEF HandleError, At, stores
  <2>2. run[r].pc \in Working
    BY <2>1, Names
  <2>3. CASE over
    <3>1. Goto(r, "done") /\ (active # r \/ status # "running")
      BY <2>1, <2>3 DEF Stale
    <3> QED
      BY <2>1, <3>1, DoneGood
  <2>4. CASE ~over
    <3>1. /\ Goto(r, "aborting") \/ Goto(r, "failing")
          /\ active = r /\ status = "running" /\ status \in Launchable
      BY <1>0, <2>1, <2>2, <2>4 DEF Stale, Launchable
    <3> QED
      BY <1>0, <2>1, <2>2, <3>1, GoesOn, Names
  <2> QED
    BY <2>3, <2>4
<1> QED
  BY <1>1, <1>2, <1>3, <1>4, <1>5, <1>6, <1>7, <1>8, <1>9, <1>10

\* The steps that write the status, and the save.
LEMMA WritesGood ==
  ASSUME SchedulerAssumption, WritesAlone, PathInv, OwnInv, NEW r \in Runners,
         MarkRunning(r) \/ Complete(r) \/ AbortTask(r) \/ SetError(r) \/ Save(r)
  PROVE  GoodStep
<1>0. Owns(r) /\ Shows(r) /\ status \in Statuses
  BY OwnerSees, Facts
<1>1. ASSUME NEW point \in {"compile", "done"}, Goto(r, point), Scheduled(r), active = r,
             UNCHANGED <<active, cache, lost>>,
             status' \in {"running", "aborted", "completed", "failed"},
             point = "compile" <=> status' = "running"
      PROVE  OwnInv' /\ \A q \in Runners : run'[q].pc # run[q].pc => q = active
  <2>1. run'[r].pc = point /\ OneMoves(r)
    BY <1>1, GotoMoves DEF OneMoves
  <2>2. Shows(r)'
    BY <1>1, <2>1 DEF Shows, Delivered
  <2>3. Owns(r)'
    BY <1>1, <2>1 DEF Owns, Critical, Working
  <2>4. NotAbandoned'
    BY <1>1, <2>1, StaysLive
  <2>5. OwnInv'
    BY <1>1, <2>1, <2>2, <2>3, <2>4, OthersKeep
  <2> QED
    BY <1>1, <2>1, <2>5 DEF OneMoves
<1>2. CASE MarkRunning(r)
  <2>1. /\ run[r].pc = "mark" /\ Scheduled(r) /\ Goto(r, "compile") /\ status' = "running"
        /\ UNCHANGED <<active, cache, lost>>
    BY <1>2 DEF MarkRunning, At
  <2>2. active = r /\ status \in Launchable
    BY <1>0, <2>1 DEF Owns, Critical
  <2>3. OwnInv' /\ \A q \in Runners : run'[q].pc # run[q].pc => q = active
    BY <1>1, <2>1, <2>2
  <2>4. LifeStep
    BY <2>1, <2>2 DEF LifeStep, Lifecycle!Begin, Launchable
  <2> QED
    BY <2>1, <2>3, <2>4 DEF GoodStep, EarnedStep
<1>3. CASE Complete(r)
  <2>1. /\ run[r].pc = "complete" /\ Scheduled(r) /\ Goto(r, "done") /\ status' = "completed"
        /\ UNCHANGED <<active, cache, lost>>
    BY <1>3 DEF Complete, At
  <2>2. active = r /\ status = "running" /\ HasTerminalOutput(cache)
    BY <1>0, <2>1 DEF Owns, Shows, Critical
  <2>3. OwnInv' /\ \A q \in Runners : run'[q].pc # run[q].pc => q = active
    BY <1>1, <2>1, <2>2
  <2>4. LifeStep
    BY <2>1, <2>2 DEF LifeStep, Lifecycle!Outcome
  <2> QED
    BY <2>1, <2>2, <2>3, <2>4 DEF GoodStep, EarnedStep
<1>4. CASE AbortTask(r)
  <2>1. /\ run[r].pc = "aborting" /\ Scheduled(r) /\ Goto(r, "done") /\ status' = "aborted"
        /\ UNCHANGED <<active, cache, lost>>
    BY <1>4 DEF AbortTask, At
  <2>2. active = r /\ status = "running"
    BY <1>0, <2>1 DEF Owns, Critical
  <2>3. OwnInv' /\ \A q \in Runners : run'[q].pc # run[q].pc => q = active
    BY <1>1, <2>1, <2>2
  <2>4. LifeStep
    BY <2>1, <2>2 DEF LifeStep, Lifecycle!Abort
  <2> QED
    BY <2>1, <2>3, <2>4 DEF GoodStep, EarnedStep
<1>5. CASE SetError(r)
  <2>1. /\ run[r].pc = "failing" /\ Scheduled(r) /\ Goto(r, "done") /\ status' = "failed"
        /\ UNCHANGED <<active, cache, lost>>
    BY <1>5 DEF SetError, At
  <2>2. active = r /\ status = "running"
    BY <1>0, <2>1 DEF Owns, Critical
  <2>3. OwnInv' /\ \A q \in Runners : run'[q].pc # run[q].pc => q = active
    BY <1>1, <2>1, <2>2
  <2>4. LifeStep
    BY <2>1, <2>2 DEF LifeStep, Lifecycle!Outcome
  <2> QED
    BY <2>1, <2>3, <2>4 DEF GoodStep, EarnedStep
<1>6. CASE Save(r)
  <2>1. /\ run[r].pc = "save" /\ Scheduled(r) /\ Goto(r, "chunk") /\ cache' = run[r].log
        /\ UNCHANGED <<status, active, lost>>
    BY <1>6 DEF Save, At
  <2>2. run'[r].pc = "chunk" /\ OneMoves(r) /\ cache' # <<>>
    BY <1>0, <2>1, GotoMoves DEF OneMoves, Shows
  <2>3. Shows(r)' /\ run'[r].pc \notin Critical /\ run[r].pc \in Working
    BY <2>1, <2>2, Names DEF Shows, Critical, Working
  <2> QED
    BY <2>1, <2>2, <2>3, Safely
<1> QED
  BY <1>2, <1>3, <1>4, <1>5, <1>6

\* A node's end, and the failures of a runner.
LEMMA FailuresGood ==
  ASSUME SchedulerAssumption, WritesAlone, PathInv, OwnInv, spec' = spec, NEW r \in Runners,
         \/ NodeStep(r) \/ StoreFails(r)
         \/ \E wrote \in BOOLEAN : WallTimeExceeded(r, wrote)
  PROVE  GoodStep
<1>1. ASSUME NEW ok \in BOOLEAN, NEW next \in spec.nodes \cup {End}, NodeEnds(r, ok, next)
      PROVE  GoodStep
  <2>1. run[r].pc = "node" /\ Scheduled(r) /\ UNCHANGED <<status, active, cache, lost>>
    BY <1>1 DEF NodeEnds, At, stores
  <2>2. /\ run'[r].pc = "save" /\ run'[r].log # <<>>
        /\ \A q \in Runners \ {r} : run'[q] = run[q]
    BY <1>1, NodeEndsKeeps DEF Exits
  <2>3. /\ Shows(r)' /\ run'[r].pc \notin Critical /\ run[r].pc \in Working
        /\ run'[r].pc \notin {"idle", "done"}
    BY <2>1, <2>2, Names DEF Shows, Critical, Working, Delivered
  <2>4. OneMoves(r)
    BY <2>1, <2>2 DEF OneMoves
  <2> QED
    BY <2>1, <2>3, <2>4, Safely
<1>2. ASSUME NEW kind, Raise(r, kind), Scheduled(r), UNCHANGED <<status, active, cache, lost>>,
             run[r].pc \in {"load", "node", "save", "advance"}
      PROVE  GoodStep
  <2>1. run[r].pc \in Working
    BY <1>2, Names DEF Working
  <2> QED
    BY <1>2, <2>1, RaiseGood
<1>3. CASE NodeFails(r)
  <2>1. Raise(r, "error") /\ Scheduled(r) /\ UNCHANGED <<status, active, cache, lost>>
        /\ run[r].pc = "node"
    BY <1>3 DEF NodeFails, At, stores
  <2> QED
    BY <1>2, <2>1
<1>4. CASE StoreFails(r)
  <2>1. Raise(r, "error") /\ Scheduled(r) /\ UNCHANGED <<status, active, cache, lost>>
        /\ run[r].pc \in {"load", "save"}
    BY <1>4 DEF StoreFails, stores
  <2> QED
    BY <1>2, <2>1
<1>5. ASSUME NEW wrote \in BOOLEAN, WallTimeExceeded(r, wrote)
      PROVE  GoodStep
  <2>1. Raise(r, "wall") /\ Scheduled(r) /\ UNCHANGED <<status, active, cache, lost>>
        /\ run[r].pc \in {"load", "node", "save", "advance"}
    BY <1>5 DEF WallTimeExceeded
  <2> QED
    BY <1>2, <2>1
<1> QED
  BY <1>1, <1>3, <1>4, <1>5 DEF NodeStep

\* The host acts only while nobody is between a check and its write.
LEMMA NobodyCritical ==
  ASSUME WritesAlone, Quiet, NEW r \in Runners
  PROVE  run[r].pc \notin Critical /\ Scheduled(r)
  BY DEF WritesAlone, Quiet, Scheduled

\* A takeover makes the new runner the owner.
LEMMA LaunchGood ==
  ASSUME SchedulerAssumption, WritesAlone, PathInv, OwnInv, NEW r \in Runners, Launch(r)
  PROVE  GoodStep
<1>1. /\ Quiet /\ status \in Launchable /\ active' = r /\ ~lost' /\ Goto(r, "start")
      /\ status' = status /\ cache' = cache
  BY DEF Launch, Launchable
<1>2. run'[r].pc = "start" /\ \A q \in Runners \ {r} : run'[q] = run[q]
  BY <1>1, GotoMoves
<1>3. Owns(r)' /\ Shows(r)'
  BY <1>1, <1>2 DEF Owns, Shows, Critical, Working, Delivered
<1>4. ASSUME NEW q \in Runners \ {r}
      PROVE  Owns(q)' /\ Shows(q)'
  <2>1. run[q].pc \notin Critical /\ run'[q] = run[q] /\ active' # q
    BY <1>1, <1>2, <1>4, NobodyCritical
  <2>2. Shows(q)
    BY <1>4 DEF OwnInv
  <2>3. Owns(q)'
    BY <2>1 DEF Owns, Critical
  <2>4. Shows(q)'
    BY <1>1, <2>1, <2>2 DEF Shows
  <2> QED
    BY <2>3, <2>4
<1>5. NotAbandoned'
  <2>1. r # 0
    BY DEF SchedulerAssumption
  <2> QED
    BY <1>1, <1>2, <2>1 DEF NotAbandoned, Live
<1>6. OwnInv'
  BY <1>3, <1>4, <1>5 DEF OwnInv
<1> QED
  BY <1>1, <1>6 DEF GoodStep, LifeStep, EarnedStep

\* What the host does to a task whose runners may all be interrupted.
LEMMA HostGood ==
  ASSUME SchedulerAssumption, WritesAlone, PathInv, OwnInv,
         SuspendTask \/ HostAbort \/ Crash \/ \E r \in Runners : CancelRunner(r)
  PROVE  GoodStep
<1>1. Quiet
  BY DEF SuspendTask, HostAbort, Crash, CancelRunner, HostOp
<1>2. ASSUME NEW q \in Runners
      PROVE  run[q].pc \notin Critical /\ Owns(q) /\ Shows(q)
  BY <1>1, NobodyCritical DEF OwnInv
<1>3. CASE SuspendTask \/ HostAbort
  <2>1. /\ status \in {"running", "suspended"} /\ status' \in {"suspended", "aborted"}
        /\ UNCHANGED <<active, cache, lost, run>>
    BY <1>3 DEF SuspendTask, HostAbort
  <2>2. ASSUME NEW q \in Runners
        PROVE  Owns(q)' /\ Shows(q)'
    <3>1. run[q].pc \notin Critical /\ Owns(q) /\ Shows(q)
      BY <1>2
    <3>2. Owns(q)'
      BY <2>1, <3>1 DEF Owns, Critical
    <3>3. Shows(q)'
      BY <2>1, <3>1 DEF Shows
    <3> QED
      BY <3>2, <3>3
  <2>3. NotAbandoned'
    BY <2>1 DEF NotAbandoned
  <2>4. LifeStep
    BY <1>3 DEF LifeStep, Lifecycle!Suspend, Lifecycle!Abort, SuspendTask, HostAbort
  <2>5. EarnedStep
    BY <2>1 DEF EarnedStep
  <2> QED
    BY <2>2, <2>3, <2>4, <2>5 DEF GoodStep, OwnInv
<1>4. ASSUME NEW r \in Runners, CancelRunner(r)
      PROVE  GoodStep
  <2>1. /\ Goto(r, "done") /\ UNCHANGED <<status, active, cache>>
        /\ (lost => lost') /\ (active # r \/ lost')
    BY <1>4 DEF CancelRunner
  <2>2. Scheduled(r)
    BY <1>1, NobodyCritical
  <2> QED
    BY <2>1, <2>2, DoneGood
<1>5. CASE Crash
  <2>1. lost' /\ status' = status /\ active' = active
    BY <1>5 DEF Crash
  <2>2. ASSUME NEW q \in Runners
        PROVE  run'[q].pc \in {"idle", "done"}
    BY <1>5, <2>2 DEF Crash, Live, Locals
  <2>3. ASSUME NEW q \in Runners
        PROVE  Owns(q)' /\ Shows(q)'
    BY <2>2 DEF Owns, Shows, Critical, Working, Delivered
  <2>4. NotAbandoned'
    BY <2>1 DEF NotAbandoned
  <2> QED
    BY <2>1, <2>3, <2>4 DEF GoodStep, OwnInv, LifeStep, EarnedStep
<1> QED
  BY <1>3, <1>4, <1>5

\* Every step keeps the owner's claim and moves the status as it may.
LEMMA NextGood ==
  ASSUME SchedulerAssumption, WritesAlone, PathInv, OwnInv, [Next]_vars
  PROVE  GoodStep
<1>1. CASE Next
  <2>0. spec' = spec
    BY <1>1 DEF Next
  <2>1. ASSUME NEW r \in Runners, RunnerStep(r)
        PROVE  GoodStep
    BY <2>0, <2>1, LooksGood, WritesGood, FailuresGood DEF RunnerStep
  <2>2. ASSUME NEW r \in Runners, NodeStep(r)
        PROVE  GoodStep
    BY <2>0, <2>2, FailuresGood
  <2>3. ASSUME NEW r \in Runners, Launch(r)
        PROVE  GoodStep
    BY <2>3, LaunchGood
  <2>4. ASSUME NEW r \in Runners, CancelRunner(r)
        PROVE  GoodStep
    BY <2>4, HostGood
  <2>5. CASE SuspendTask \/ HostAbort \/ Crash
    BY <2>5, HostGood
  <2> QED
    BY <1>1, <2>1, <2>2, <2>3, <2>4, <2>5 DEF Next
<1>2. CASE UNCHANGED vars
  <2>1. UNCHANGED <<status, active, cache, lost, run>>
    BY <1>2 DEF vars, stores
  <2>2. OwnInv'
    BY <2>1 DEF OwnInv, NotAbandoned, Live, Owns, Shows, HasTerminalOutput
  <2> QED
    BY <2>1, <2>2 DEF GoodStep, LifeStep, EarnedStep
<1> QED
  BY <1>1, <1>2

\* scheduler.py: with a process manager that does not suspend, a runner about
\* to write the status still owns the task, and finds the status it checked.
THEOREM OwnershipInvariant == WritesAlone => (Spec => [](PathInv /\ OwnInv))
<1> SUFFICES ASSUME WritesAlone PROVE Spec => [](PathInv /\ OwnInv)
  OBVIOUS
<1>1. Init => OwnInv
  <2> SUFFICES ASSUME Init PROVE OwnInv
    OBVIOUS
  <2>1. status = "created" /\ \A r \in Runners : run[r].pc = "idle"
    BY DEF Init, Locals
  <2>2. NotAbandoned
    BY <2>1 DEF NotAbandoned
  <2>3. ASSUME NEW r \in Runners
        PROVE  Owns(r) /\ Shows(r)
    BY <2>1 DEF Owns, Shows, Critical, Working, Delivered
  <2> QED
    BY <2>2, <2>3 DEF OwnInv
<1>2. PathInv /\ OwnInv /\ [Next]_vars => OwnInv'
  BY NextGood, SchedulerAssumption DEF GoodStep
<1> QED
  BY <1>1, <1>2, WalksInvariant, PTL DEF Spec

\* scheduler.py: a run's outcome is recorded only over "running"; neither an
\* abort nor a suspension is overwritten by a run that was under way.
THEOREM LifecycleImplemented == WritesAlone => (Spec => LifecycleRefined)
<1> SUFFICES ASSUME WritesAlone PROVE Spec => LifecycleRefined
  OBVIOUS
<1>1. Init => Lifecycle!Init
  BY DEF Init, Lifecycle!Init
<1>2. PathInv /\ OwnInv /\ [Next]_vars =>
        [Lifecycle!Begin \/ Lifecycle!Suspend \/ Lifecycle!Abort \/ Lifecycle!Outcome]_status
  BY NextGood, SchedulerAssumption DEF GoodStep, LifeStep
<1>3. Spec => [](PathInv /\ OwnInv)
  BY OwnershipInvariant
<1> QED
  BY <1>1, <1>2, <1>3, PTL DEF Spec, LifecycleRefined, Lifecycle!Spec

\* _is_stale_execution, _has_terminal_output: a superseded runner never moves
\* the status, and a task completes only with a reader-facing output.
THEOREM OutcomesAreEarned == WritesAlone => (Spec => OutcomeEarned)
<1> SUFFICES ASSUME WritesAlone PROVE Spec => OutcomeEarned
  OBVIOUS
<1> DEFINE Shown == status # "completed" /\ status' = "completed" => HasTerminalOutput(cache)
           Silent == \A r \in Runners :
                       (run'[r].pc # run[r].pc /\ active # r /\ active' = active) => status' = status
<1>1. PathInv /\ OwnInv /\ [Next]_vars => [Shown]_vars /\ [Silent]_vars
  BY NextGood, SchedulerAssumption DEF GoodStep, EarnedStep
<1>2. Spec => [](PathInv /\ OwnInv)
  BY OwnershipInvariant
<1> HIDE DEF Shown, Silent
<1>3. Spec => [][Shown]_vars /\ [][Silent]_vars
  BY <1>1, <1>2, PTL DEF Spec
<1>4. ([][Shown]_vars /\ [][Silent]_vars) => OutcomeEarned
  BY DEF OutcomeEarned, CompletesWithOutput, StaleSilent, Shown, Silent
<1> QED
  BY <1>3, <1>4

\* A running task is in the hands of a live runner, unless that runner was
\* cancelled, the process crashed or the graph did not compile.
THEOREM RunningTasksAreOwned == WritesAlone => (Spec => []NotAbandoned)
<1> SUFFICES ASSUME WritesAlone PROVE Spec => []NotAbandoned
  OBVIOUS
<1>1. PathInv /\ OwnInv => NotAbandoned
  BY DEF OwnInv
<1>2. Spec => [](PathInv /\ OwnInv)
  BY OwnershipInvariant
<1> QED
  BY <1>1, <1>2, PTL
=============================================================================
