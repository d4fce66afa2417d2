------------------------- MODULE MCWriteAuditCycle -------------------------
(* Two judges; a reply passes, fails, hides its score behind a value that is *)
(* no number, or does not parse; a single auditor may also abandon.          *)
EXTENDS WriteAuditCycle

Reply(fenced, bare, verdict, nums, answer, full) ==
  [fenced |-> fenced, bare |-> bare, verdict |-> verdict, nums |-> nums, answer |-> answer,
   full |-> full, listed |-> FALSE]

MCReplies ==
  {Reply("object", "none", "absent", <<NotNumeric, 12>>, "x", FALSE),
   Reply("none", "object", "absent", <<8, 14>>, "y", FALSE),
   Reply("bad", "object", "absent", <<14, Absent>>, NoAnswer, FALSE),
   Reply("none", "object", "absent", <<Absent, NotNumeric>>, "x", FALSE),
   Reply("none", "object", "abandon", <<>>, NoAnswer, TRUE)}

MCEquivalent == {}
=============================================================================
