---------------------------- MODULE IncidentGraph ----------------------------
(***************************************************************************)
(* One thread's run of the incident-resolution workflow compiled by        *)
(* graphs/main_graph.py: the linear investigation, the reflection loop,    *)
(* the human gate and the publishing tail.  One action per graph node; a   *)
(* node and the conditional edge that leaves it are one action, because    *)
(* LangGraph evaluates the edge in the node's own super-step.              *)
(*                                                                         *)
(* What an LLM wrote is abstracted to how old it is: an answer field of    *)
(* IncidentState is "none", "current" (written in this pass of the         *)
(* investigation) or "stale" (left over from an earlier pass).  A pass     *)
(* begins when the Planner runs or a human's plan replaces the Planner's.  *)
(***************************************************************************)
EXTENDS Naturals, FiniteSets

CONSTANTS
  MaxReplan,   \* settings.max_replan_attempts
  ScaleMax,    \* confidence scores are 0..ScaleMax (0.0 .. 1.0 in the code)
  Threshold,   \* settings.confidence_threshold, on that scale
  Fallible,    \* the run_node() nodes whose work may raise
  MaxEdits     \* bound: how many times the reviewer edits the plan

\* The nodes wrapped in run_node(), which turns an exception into an error entry.
\* evidence_gathering stands for its branches: each of them is wrapped.
WrappedNodes ==
  {"recall_memory", "intent_detection", "planner", "evidence_gathering",
   "merge_results", "root_cause_analysis", "incident_resolution", "validator",
   "critic", "reflection", "report_generator", "save_memory", "final_response"}

ASSUME ConfigAssumption ==
  /\ MaxReplan \in Nat /\ MaxEdits \in Nat
  /\ ScaleMax \in Nat /\ Threshold \in 0..ScaleMax
  /\ Fallible \subseteq WrappedNodes

VARIABLES
  node,            \* snapshot.next: the node about to run
  art,             \* age of each answer field
  confidence,      \* confidence_score
  scored_by,       \* observer: which node wrote confidence_score last
  approves,        \* critic_feedback.approve, TRUE while critic_feedback is None
  retry_count,
  should_replan,   \* metadata.last_reflection_should_replan, default TRUE
  edits,           \* observer: plan edits so far, bounded by MaxEdits
  approval_status,
  reviewed,        \* observer: the present draft was briefed to, or written by, a human
  failed,          \* nodes that put an entry in errors since the pass began
  report,          \* metadata.incident_report exists
  stored,          \* what save_memory wrote; "flag" is metadata.memory_persisted
  final_answer

scoring == <<confidence, scored_by, approves>>
looping == <<retry_count, should_replan, edits>>
review  == <<approval_status, reviewed>>
outcome == <<report, stored, final_answer>>
vars    == <<node, art, scoring, looping, review, failed, outcome>>

-----------------------------------------------------------------------------
Ages      == {"none", "current", "stale"}
Artifacts == {"plan", "bundle", "root_cause", "draft", "validated", "critique"}

\* The node that writes each answer field.
Producer == [plan |-> "planner", bundle |-> "merge_results",
             root_cause |-> "root_cause_analysis", draft |-> "incident_resolution",
             validated |-> "validator", critique |-> "critic"]

Locations == WrappedNodes \cup {"human_approval", "awaiting_human", "END"}
Statuses  == {"pending", "approved", "rejected", "modified"}
\* _APPLIED_STATUSES; the controller never sends AUTO_APPROVED.
Applied   == {"approved", "modified"}

\* The static edges of the graph.
Successor ==
  [recall_memory |-> "intent_detection", intent_detection |-> "planner",
   planner |-> "evidence_gathering", evidence_gathering |-> "merge_results",
   merge_results |-> "root_cause_analysis", root_cause_analysis |-> "incident_resolution",
   incident_resolution |-> "validator", validator |-> "critic",
   report_generator |-> "save_memory", save_memory |-> "final_response",
   final_response |-> "END"]

NeedsAnotherPass(conf, appr) == conf < Threshold \/ ~appr

\* Mutant: a draft that is confident but rejected by the Critic goes to the human at once.
RouteIgnoringCritic(conf, appr, retries) ==
  IF conf < Threshold /\ retries < MaxReplan THEN "reflection" ELSE "human_approval"

RouteAfterConfidenceCheck(conf, appr, retries) ==
  IF NeedsAnotherPass(conf, appr) /\ retries < MaxReplan
  THEN "reflection" ELSE "human_approval"

\* Mutant: the edge names a node the graph does not have.
RouteToUnknownNode(replan, retries) ==
  IF replan /\ retries < MaxReplan THEN "replanner" ELSE "human_approval"

RouteAfterReflection(replan, retries) ==
  IF replan /\ retries < MaxReplan THEN "planner" ELSE "human_approval"

-----------------------------------------------------------------------------
Init ==
  /\ node = "recall_memory"
  /\ art = [a \in Artifacts |-> "none"]
  /\ confidence = 0 /\ scored_by = "create_initial_state" /\ approves = TRUE
  /\ retry_count = 0 /\ should_replan = TRUE /\ edits = 0
  /\ approval_status = "pending" /\ reviewed = FALSE
  /\ failed = {}
  /\ report = FALSE /\ final_answer = "none"
  /\ stored = {}

\* What was current becomes stale when a new pass begins.
Aged == [a \in Artifacts |-> IF art[a] = "current" THEN "stale" ELSE art[a]]

\* Mutant: a resolution is drafted before the evidence is analysed for a cause.
RunsSkippingAnalysis(n) ==
  node = n /\ node' = IF n = "merge_results" THEN "incident_resolution" ELSE Successor[n]

\* Mutant: the draft goes to the Critic unvalidated.
RunsSkippingValidation(n) ==
  node = n /\ node' = IF n = "incident_resolution" THEN "critic" ELSE Successor[n]

\* Mutant: the finished report goes back to the human gate.
RunsAskingAgain(n) ==
  node = n /\ node' = IF n = "report_generator" THEN "human_approval" ELSE Successor[n]

\* A node whose static edge is taken whatever the outcome of its work.
Runs(n) == node = n /\ node' = Successor[n]

\* run_node(): the work raised, and nothing but errors and history is updated.
Raises(n) == n \in Fallible /\ failed' = failed \cup {n}

\* recall_memory_node: registration and recall (MemoryStore) touch no field the
\* rest of the graph decides by.
RecallMemory ==
  /\ Runs("recall_memory")
  /\ UNCHANGED failed \/ Raises("recall_memory")
  /\ UNCHANGED <<art, scoring, looping, review, outcome>>

IntentDetection ==
  /\ Runs("intent_detection")
  /\ UNCHANGED failed \/ Raises("intent_detection")
  /\ UNCHANGED <<art, scoring, looping, review, outcome>>

\* planner_node: on failure the previous plan, if any, stays in force.
Planner ==
  /\ Runs("planner")
  /\ \/ failed' = {} /\ art' = [Aged EXCEPT !["plan"] = "current"]
     \/ "planner" \in Fallible /\ failed' = {"planner"} /\ art' = Aged
  /\ UNCHANGED <<scoring, looping, review, outcome>>

\* invoke_evidence_subgraph: branch failures come back as error entries.
EvidenceGathering ==
  /\ Runs("evidence_gathering")
  /\ UNCHANGED failed \/ Raises("evidence_gathering")
  /\ UNCHANGED <<art, scoring, looping, review, outcome>>

MergeResults ==
  /\ Runs("merge_results")
  /\ \/ art' = [art EXCEPT !["bundle"] = "current"] /\ UNCHANGED failed
     \/ Raises("merge_results") /\ UNCHANGED art
  /\ UNCHANGED <<scoring, looping, review, outcome>>

\* root_cause_node: the analyst's own confidence goes into confidence_score.
RootCauseAnalysis ==
  /\ Runs("root_cause_analysis")
  /\ \/ /\ art' = [art EXCEPT !["root_cause"] = "current"]
        /\ confidence' \in 0..ScaleMax /\ scored_by' = "root_cause_analysis"
        /\ UNCHANGED failed
     \/ Raises("root_cause_analysis") /\ UNCHANGED <<art, confidence, scored_by>>
  /\ UNCHANGED <<approves, looping, review, outcome>>

IncidentResolution ==
  /\ Runs("incident_resolution")
  /\ \/ /\ art' = [art EXCEPT !["draft"] = "current"] /\ reviewed' = FALSE
        /\ UNCHANGED failed
     \/ Raises("incident_resolution") /\ UNCHANGED <<art, reviewed>>
  /\ UNCHANGED <<scoring, looping, approval_status, outcome>>

Validator ==
  /\ Runs("validator")
  /\ \/ /\ art' = [art EXCEPT !["validated"] = "current"]
        /\ confidence' \in 0..ScaleMax /\ scored_by' = "validator"
        /\ UNCHANGED failed
     \/ Raises("validator") /\ UNCHANGED <<art, confidence, scored_by>>
  /\ UNCHANGED <<approves, looping, review, outcome>>

\* critic_node and route_after_confidence_check on the state it leaves.
Critic ==
  /\ node = "critic"
  /\ \/ /\ art' = [art EXCEPT !["critique"] = "current"] /\ approves' \in BOOLEAN
        /\ UNCHANGED failed
     \/ Raises("critic") /\ UNCHANGED <<art, approves>>
  /\ node' = RouteAfterConfidenceCheck(confidence, approves', retry_count)
  /\ UNCHANGED <<confidence, scored_by, looping, review, outcome>>

\* Mutant: the attempt is not counted.
ReflectionUncounted ==
  /\ node = "reflection"
  /\ \/ should_replan' \in BOOLEAN /\ UNCHANGED <<retry_count, failed>>
     \/ Raises("reflection") /\ UNCHANGED <<retry_count, should_replan>>
  /\ node' = RouteAfterReflection(should_replan', retry_count')
  /\ UNCHANGED <<art, scoring, edits, review, outcome>>

\* reflection_node and route_after_reflection: a failed reflection counts nothing
\* and leaves the previous verdict (TRUE if there is none) for the edge to read.
Reflection ==
  /\ node = "reflection"
  /\ \/ /\ retry_count' = retry_count + 1 /\ should_replan' \in BOOLEAN
        /\ UNCHANGED failed
     \/ Raises("reflection") /\ UNCHANGED <<retry_count, should_replan>>
  /\ node' = RouteAfterReflection(should_replan', retry_count')
  /\ UNCHANGED <<art, scoring, edits, review, outcome>>

-----------------------------------------------------------------------------
\* human_approval_node up to interrupt(): the brief (or its plain-text fallback)
\* shows the present draft.
PauseForHuman ==
  /\ node = "human_approval" /\ node' = "awaiting_human"
  /\ reviewed' = TRUE
  /\ UNCHANGED <<art, scoring, looping, approval_status, failed, outcome>>

\* controller.resume() at the dynamic pause: invoke(None) re-runs the node.
ResumeWithoutDecision ==
  /\ node = "awaiting_human" /\ node' = "human_approval"
  /\ UNCHANGED <<art, scoring, looping, review, failed, outcome>>

\* The HumanFeedback values IncidentController builds.
Feedback ==
  {[decision |-> "approved", plan |-> FALSE, draft |-> FALSE],
   [decision |-> "rejected", plan |-> FALSE, draft |-> FALSE],
   [decision |-> "modified", plan |-> FALSE, draft |-> TRUE],
   [decision |-> "modified", plan |-> TRUE,  draft |-> FALSE]}

EditsPlan(fb) == fb.decision = "modified" /\ fb.plan

\* Mutant: a rejection is published like an approval.
AfterDecisionPublishingAll(fb) == "report_generator"

AfterDecision(fb) ==
  IF fb.decision \in Applied THEN "report_generator" ELSE "final_response"

\* Edit Plan / Retry / Skip Tool: the human's plan replaces the Planner's.
EditPlanAndRetry(fb) ==
  /\ node = "awaiting_human" /\ EditsPlan(fb) /\ edits < MaxEdits
  /\ node' = "evidence_gathering"
  /\ art' = [Aged EXCEPT !["plan"] = "current"] /\ failed' = {}
  /\ retry_count' = retry_count + 1 /\ edits' = edits + 1
  /\ approval_status' = fb.decision
  /\ UNCHANGED <<scoring, should_replan, reviewed, outcome>>

\* Approve, reject, or substitute the draft.
Decide(fb) ==
  /\ node = "awaiting_human" /\ ~EditsPlan(fb)
  /\ node' = AfterDecision(fb)
  /\ approval_status' = fb.decision
  /\ art' = IF fb.draft THEN [art EXCEPT !["draft"] = "current"] ELSE art
  /\ UNCHANGED <<scoring, looping, reviewed, failed, outcome>>

HumanDecision == \E fb \in Feedback : EditPlanAndRetry(fb) \/ Decide(fb)

-----------------------------------------------------------------------------
ReportGenerator ==
  /\ Runs("report_generator")
  /\ \/ report' = TRUE /\ UNCHANGED failed
     \/ Raises("report_generator") /\ UNCHANGED report
  /\ UNCHANGED <<art, scoring, looping, review, stored, final_answer>>

\* save_memory_node: the episode, the conversation line, then (for an applied
\* decision on a draft that exists) the fix counter; a failure keeps a prefix.
SaveMemory ==
  /\ Runs("save_memory")
  /\ \/ /\ approval_status \in Applied /\ art["draft"] # "none"
        /\ stored' = {"episode", "line", "fix", "flag"} /\ UNCHANGED failed
     \/ /\ ~(approval_status \in Applied /\ art["draft"] # "none")
        /\ stored' = {"episode", "line", "flag"} /\ UNCHANGED failed
     \/ /\ Raises("save_memory")
        /\ stored' \in {{}, {"episode"}, {"episode", "line"}}
  /\ UNCHANGED <<art, scoring, looping, review, report, final_answer>>

\* Mutant: the rejection is worded by the agent, whose failure leaves no answer.
FinalResponseAlwaysByAgent ==
  /\ Runs("final_response")
  /\ \/ final_answer' = "summary" /\ UNCHANGED failed
     \/ Raises("final_response") /\ UNCHANGED final_answer
  /\ UNCHANGED <<art, scoring, looping, review, report, stored>>

\* final_response_node: a rejection is answered without an LLM and cannot fail.
FinalResponse ==
  /\ Runs("final_response")
  /\ \/ /\ approval_status = "rejected" /\ final_answer' = "rejection"
        /\ UNCHANGED failed
     \/ /\ approval_status # "rejected" /\ final_answer' = "summary"
        /\ UNCHANGED failed
     \/ /\ approval_status # "rejected" /\ Raises("final_response")
        /\ UNCHANGED final_answer
  /\ UNCHANGED <<art, scoring, looping, review, report, stored>>

-----------------------------------------------------------------------------
RunNode ==
  \/ RecallMemory \/ IntentDetection \/ Planner \/ EvidenceGathering
  \/ MergeResults \/ RootCauseAnalysis \/ IncidentResolution \/ Validator
  \/ Critic \/ Reflection \/ PauseForHuman \/ ReportGenerator \/ SaveMemory
  \/ FinalResponse

Next == RunNode \/ HumanDecision \/ ResumeWithoutDecision

Spec == Init /\ [][Next]_vars

\* The process that called invoke() runs node after node; no human has to act.
FairSpec == Spec /\ WF_vars(RunNode)

-----------------------------------------------------------------------------
(***************************************************************************)
(* Properties.                                                             *)
(***************************************************************************)
TypeOK ==
  /\ node \in Locations
  /\ art \in [Artifacts -> Ages]
  /\ confidence \in 0..ScaleMax /\ approves \in BOOLEAN
  /\ scored_by \in {"create_initial_state", "root_cause_analysis", "validator"}
  /\ retry_count \in Nat /\ should_replan \in BOOLEAN /\ edits \in Nat
  /\ approval_status \in Statuses /\ reviewed \in BOOLEAN
  /\ failed \subseteq WrappedNodes
  /\ report \in BOOLEAN
  /\ stored \subseteq {"episode", "line", "fix", "flag"}
  /\ final_answer \in {"none", "summary", "rejection"}

\* Everything a run publishes: the report, the long-term memory, the final summary.
Published == report \/ stored # {} \/ final_answer = "summary"

\* The human gate holds: whatever loops and failures came before, nothing is
\* published unless a human applied the decision, and had seen (or written) the
\* very draft that is in state (human_approval_node, report_generator, save_memory).
NothingUnreviewedIsPublished ==
  Published => approval_status \in Applied /\ reviewed

\* A rejection applies nothing and is always answered: no report, no memory, no
\* fix counted, and the deterministic message of _rejection_answer.
RejectionLeavesNoTrace ==
  node = "END" /\ approval_status = "rejected" => ~Published /\ final_answer = "rejection"

\* What the human is shown comes from this pass, or errors says why not: an
\* absent or left-over plan, cause, draft, validation or critique is always
\* accounted for by a failure of its producer in this same pass.
StaleAnswersAreReported ==
  node \in {"reflection", "human_approval", "awaiting_human"} =>
    \A a \in Artifacts : art[a] = "current" \/ Producer[a] \in failed

\* The edges route by the Validator's score, or errors says that they did not: another
\* agent's confidence decides only after the Validator failed in this same pass.
ScoreIsValidatedOrReported ==
  node \in {"critic", "reflection", "human_approval", "awaiting_human"} =>
    scored_by = "validator" \/ "validator" \in failed

\* The loop gives up only for a reason: a draft below the threshold or rejected
\* by the Critic reaches the human only if the attempts are used up or the last
\* Reflection said that replanning will not help.
WeakDraftOnlyWhenGivenUp ==
  node \in {"human_approval", "awaiting_human"} /\ NeedsAnotherPass(confidence, approves) =>
    retry_count >= MaxReplan \/ ~should_replan

\* Reflections are bounded by the setting; only a human's edits go beyond it.
RetryCountBounded == retry_count <= MaxReplan + edits

AtRest == node \in {"awaiting_human", "END"}

\* The attempts the retry budget still allows after r, and the nodes ahead of a run at n:
\* from there to the Critic, then once round the retry cycle, of eight nodes, for each
\* attempt left, the last of which goes to the human; or the publishing tail.
AttemptsLeft(r) == IF r < MaxReplan THEN MaxReplan - r ELSE 0

AfterCritic(r) == IF AttemptsLeft(r) = 0 THEN 1 ELSE 8 * AttemptsLeft(r) - 6

ToCritic ==
  [recall_memory |-> 9, intent_detection |-> 8, planner |-> 7, evidence_gathering |-> 6,
   merge_results |-> 5, root_cause_analysis |-> 4, incident_resolution |-> 3,
   validator |-> 2, critic |-> 1, reflection |-> 0]

ToRest ==
  [human_approval |-> 1, awaiting_human |-> 0,
   report_generator |-> 3, save_memory |-> 2, final_response |-> 1, END |-> 0]

NodesFrom(n, r) == IF n \in DOMAIN ToCritic THEN ToCritic[n] + AfterCritic(r) ELSE ToRest[n]

NodesAhead == NodesFrom(node, retry_count)

LongestRun == IF MaxReplan = 0 THEN 10 ELSE 8 * MaxReplan + 3

\* An attempt of Reflection that its failure keeps from being counted.
LosesAnAttempt == node = "reflection" /\ "reflection" \in failed'

\* A run is short: it comes to rest within eight nodes for each attempt that the setting
\* allows and three more, as every node brings it nearer, failed or not.  Only a failed
\* Reflection, which counts nothing, and a human, at rest, lengthen it: a run whose
\* Reflection fails again and again has no bound.
RunsAreShort ==
  /\ [](NodesAhead \in 0..LongestRun /\ (NodesAhead = 0 <=> AtRest))
  /\ [][/\ RunNode => NodesAhead' < NodesAhead \/ LosesAnAttempt
        /\ NodesAhead' > NodesAhead => LosesAnAttempt \/ AtRest]_vars

\* The investigation always comes to rest at the human gate or at END, unless
\* the Reflection agent fails again and again.
RestsUnlessReflectionKeepsFailing == []<>(AtRest \/ "reflection" \in failed)

\* A decision that closes the gate is carried through to END, failures of the
\* publishing nodes notwithstanding.
DecisionIsCarriedOut == approval_status \in {"approved", "rejected"} ~> node = "END"

(***************************************************************************)
(* What the documentation says and the code does not guarantee.            *)
(***************************************************************************)
\* docs/state-diagram.md, confidence_check.py: the retry cycle always terminates
\* at human approval.
AlwaysComesToRest == []<>AtRest

=============================================================================
