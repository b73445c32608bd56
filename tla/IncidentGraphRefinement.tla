------------------------ MODULE IncidentGraphRefinement ------------------------
(***************************************************************************)
(* A run of the graph implements ApprovalGate: the refinement mapping, and *)
(* the specification under it.                                             *)
(***************************************************************************)
EXTENDS IncidentGraph, ThreadLife

PublishingNodes == {"report_generator", "save_memory", "final_response"}

phase ==
  CASE node = "awaiting_human"     -> "awaiting"
    [] node \in PublishingNodes    -> "finishing"
    [] node = "END"                -> "closed"
    [] OTHER                       -> "investigating"

\* approval_status says "modified" while an edited plan is being investigated:
\* it is a verdict only once the gate has been passed.
verdict ==
  IF node \in PublishingNodes \cup {"END"}
  THEN IF approval_status \in Applied THEN "accepted" ELSE "refused"
  ELSE "none"

AllEffects == {"report", "episode", "line", "fix", "flag", "summary"}

effects == stored
           \cup (IF report THEN {"report"} ELSE {})
           \cup (IF final_answer = "summary" THEN {"summary"} ELSE {})

Gate == INSTANCE ApprovalGate WITH Effects <- AllEffects

\* Whatever the LLM agents answer and however often they fail, a run is a run of
\* the approval gate: effects only after acceptance, none after a refusal.
ImplementsApprovalGate == Gate!Spec

Stage ==
  IF node \in PublishingNodes \cup {"recall_memory", "human_approval", "awaiting_human", "END"}
  THEN node ELSE "investigation"

RunLife == [stage |-> Stage, status |-> approval_status, report |-> report]

\* Seen from its callers a run leads a thread's life: whatever loops it takes, it gets to
\* the gate, past it by a decision only, and to the end.
RunLeadsTheLife == Birth(RunLife) /\ [][LivesOn(RunLife, RunLife')]_vars

=============================================================================
