------------------------------- MODULE DagGraph ------------------------------
(***************************************************************************)
(* From a declarative PipelineSpec to the graph a runner walks:            *)
(* DynamicGraphBuilder.build (runtime/dag/graph_builder.py), MiniDAG's     *)
(* builder, validate and _resolve_next (runtime/dag/minidag.py).           *)
(*                                                                         *)
(* A spec is [nodes, entry, transitions, terminals]; a transition is       *)
(* [from, to, cond], in the order they are written, and End stands for     *)
(* "__END__" and None.                                                     *)
(***************************************************************************)
EXTENDS Integers, Sequences, FiniteSets, SequencesExt

End == "end"

\* The transitions of a phase, by position.
TransitionsFrom(spec, n) == {i \in DOMAIN spec.transitions : spec.transitions[i].from = n}

\* build: the transitions of a phase become one routing table when any of
\* them has a condition, else the first one is its only edge; a terminal
\* phase without transitions gets an edge to the end.
Build(spec) ==
  LET froms == {spec.transitions[i].from : i \in DOMAIN spec.transitions}
      group(n) == TransitionsFrom(spec, n)
      conditional == {n \in froms : \E i \in group(n) : spec.transitions[i].cond}
      static == froms \ conditional
  IN  [nodes |-> spec.nodes, entry |-> spec.entry,
       edges |-> [n \in static \cup (spec.terminals \ froms) |->
                    IF n \in static THEN spec.transitions[Min(group(n))].to ELSE End],
       routes |-> [n \in conditional |-> {spec.transitions[i].to : i \in group(n)}]]

Successors(g, n) ==
  ((IF n \in DOMAIN g.edges THEN {g.edges[n]} ELSE {})
     \cup (IF n \in DOMAIN g.routes THEN g.routes[n] ELSE {})) \ {End}

\* _reachable_from, breadth first.
ReachableFrom(g, start) ==
  LET bound == Cardinality(g.nodes) + Cardinality(DOMAIN g.edges) + Cardinality(DOMAIN g.routes)
      within[i \in 0..bound] ==
        IF i = 0 THEN {start}
        ELSE within[i - 1] \cup UNION {Successors(g, n) : n \in within[i - 1]}
  IN  within[bound]

\* validate: compile refuses a graph with any of these.
Errors(g) ==
  (IF g.entry \in g.nodes THEN {} ELSE {"entry"})
    \cup (IF DOMAIN g.edges \cup DOMAIN g.routes \subseteq g.nodes THEN {} ELSE {"from"})
    \cup (IF \A n \in DOMAIN g.edges : g.edges[n] \in g.nodes \cup {End} THEN {} ELSE {"to"})
    \cup (IF \A n \in DOMAIN g.routes : g.routes[n] \subseteq g.nodes \cup {End} THEN {} ELSE {"route"})
    \cup (IF DOMAIN g.edges \cap DOMAIN g.routes = {} THEN {} ELSE {"both"})
    \cup (IF g.entry \in g.nodes => g.nodes \subseteq ReachableFrom(g, g.entry)
          THEN {} ELSE {"unreachable"})

\* _resolve_next: where a node may lead.  A condition's result that is not in
\* the table ends the graph, as does a node without an edge.
ResolveNext(g, n) ==
  CASE n \in DOMAIN g.routes -> g.routes[n] \cup {End}
    [] n \notin DOMAIN g.routes /\ n \in DOMAIN g.edges -> {g.edges[n]}
    [] OTHER -> {End}
=============================================================================
