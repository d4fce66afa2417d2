---------------------------- MODULE MCScheduler -----------------------------
\* A draft node, a review node that may send the draft back, and a report;
\* and pipelines written with a mistake.
EXTENDS Scheduler

Edge(from, to) == [from |-> from, to |-> to, cond |-> FALSE]
Route(from, to) == [from |-> from, to |-> to, cond |-> TRUE]
Pipeline(transitions) ==
  [nodes |-> {"draft", "review", "report"}, entry |-> "draft", transitions |-> transitions,
   terminals |-> {"report"}]

MCSpecs ==
  {Pipeline(<<Edge("draft", "review"), Route("review", "draft"), Edge("review", "report")>>),
   \* The report cannot be reached: only the first of two plain edges counts.
   Pipeline(<<Edge("draft", "review"), Edge("draft", "report"), Edge("review", End)>>),
   \* A route to a node that does not exist.
   Pipeline(<<Edge("draft", "review"), Route("review", "report"), Route("review", "publish")>>)}

\* A process manager in memory: its awaits do not suspend.
MCYieldsMemory == {"idle", "load", "node", "save", "consume", "done"}

\* One that reads and writes elsewhere: the status may change before the
\* outcome of a run is written.
MCOneSpec ==
  {Pipeline(<<Edge("draft", "review"), Route("review", "draft"), Edge("review", "report")>>)}
MCYieldsReread == MCYieldsMemory \cup {"final2"}
=============================================================================
