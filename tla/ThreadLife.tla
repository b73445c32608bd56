------------------------------ MODULE ThreadLife ------------------------------
(***************************************************************************)
(* The life of a thread as its callers see it: which node it is at, the    *)
(* investigation between recall_memory and the gate counting as one, what  *)
(* has been decided, and whether there is a report.  It says what the next *)
(* stage may be, and nothing of the agents, the calls and the checkpoints  *)
(* that bring it about: IncidentGraph's run leads this life, and so does   *)
(* every copy of a thread in ThreadRuns.                                   *)
(***************************************************************************)

\* The stage after each one that the graph leaves by itself.
Following ==
  [recall_memory |-> "investigation", investigation |-> "human_approval",
   human_approval |-> "awaiting_human", report_generator |-> "save_memory",
   save_memory |-> "final_response", final_response |-> "END"]

Birth(l) == l.stage = "recall_memory" /\ l.status = "pending" /\ ~l.report

\* Only the report generator makes a report, and none is taken back.
MovesOn(l, m) ==
  /\ l.stage \in DOMAIN Following /\ m.stage = Following[l.stage]
  /\ m.status = l.status
  /\ m.report = l.report \/ (l.stage = "report_generator" /\ m.report)

\* The draft is put before the human once more.
IsBriefedAgain(l, m) ==
  /\ l.stage = "awaiting_human" /\ m.stage = "human_approval"
  /\ m.status = l.status /\ m.report = l.report

\* Only a human's decision changes the status, and it alone leads past the gate.
IsDecided(l, m) ==
  /\ l.stage = "awaiting_human" /\ m.report = l.report
  /\ \/ m.stage = "report_generator" /\ m.status \in {"approved", "modified"}
     \/ m.stage = "final_response"   /\ m.status = "rejected"
     \/ m.stage = "investigation"    /\ m.status = "modified"

LivesOn(l, m) == MovesOn(l, m) \/ IsBriefedAgain(l, m) \/ IsDecided(l, m) \/ l = m

=============================================================================
