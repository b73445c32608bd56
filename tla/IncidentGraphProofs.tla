-------------------------- MODULE IncidentGraphProofs --------------------------
(***************************************************************************)
(* What TLAPS proves of IncidentGraph, for every setting of the constants. *)
(* Each invariant is strengthened to an inductive one that says what is    *)
(* already settled at each node; one step per action shows it preserved.   *)
(***************************************************************************)
EXTENDS IncidentGraphRefinement, TLAPS

LEMMA InitTypeOK == Init => TypeOK
<1> SUFFICES ASSUME Init PROVE TypeOK
  OBVIOUS
<1> USE ConfigAssumption DEF Init
<1>1. node \in Locations /\ failed \subseteq WrappedNodes
  BY DEF Locations, WrappedNodes
<1>2. art \in [Artifacts -> Ages] /\ approval_status \in Statuses
  BY DEF Ages, Statuses
<1>3. stored \subseteq {"episode", "line", "fix", "flag"}
  OBVIOUS
<1>4. approves \in BOOLEAN /\ should_replan \in BOOLEAN /\ reviewed \in BOOLEAN
  OBVIOUS
<1>5. report \in BOOLEAN
  OBVIOUS
<1>6. confidence \in 0..ScaleMax /\ retry_count \in Nat /\ edits \in Nat
  OBVIOUS
<1>7. QED
  BY <1>1, <1>2, <1>3, <1>4, <1>5, <1>6 DEF TypeOK

LEMMA EdgesStayInGraph ==
  ASSUME NEW n \in WrappedNodes \ {"critic", "reflection"}, Runs(n)
  PROVE  node' \in Locations
BY DEF Runs, Successor, Locations, WrappedNodes

LEMMA ErrorsNameNodes ==
  ASSUME NEW n, failed \subseteq WrappedNodes, UNCHANGED failed \/ Raises(n)
  PROVE  failed' \subseteq WrappedNodes
BY ConfigAssumption DEF Raises

\* Marking a field, and ageing all of them, keeps the map of ages well typed.
LEMMA MarkType ==
  ASSUME NEW f \in [Artifacts -> Ages], NEW a
  PROVE  [f EXCEPT ![a] = "current"] \in [Artifacts -> Ages]
BY DEF Ages

LEMMA AgedType == art \in [Artifacts -> Ages] => Aged \in [Artifacts -> Ages]
BY DEF Aged, Ages

LEMMA StepTypeOK == TypeOK /\ [Next]_vars => TypeOK'
<1> SUFFICES ASSUME TypeOK, [Next]_vars PROVE TypeOK'
  OBVIOUS
<1> USE EdgesStayInGraph, ErrorsNameNodes, MarkType, AgedType
    DEF TypeOK, scoring, looping, review, outcome
<1>1. CASE RecallMemory
  BY <1>1 DEF RecallMemory, WrappedNodes
<1>2. CASE IntentDetection
  BY <1>2 DEF IntentDetection, WrappedNodes
<1>3. CASE Planner
  BY <1>3 DEF Planner, WrappedNodes
<1>4. CASE EvidenceGathering
  BY <1>4 DEF EvidenceGathering, WrappedNodes
<1>5. CASE MergeResults
  BY <1>5 DEF MergeResults, WrappedNodes
<1>6. CASE RootCauseAnalysis
  BY <1>6 DEF RootCauseAnalysis, WrappedNodes
<1>7. CASE IncidentResolution
  <2>1. reviewed' \in BOOLEAN
    BY <1>7 DEF IncidentResolution
  <2>2. QED
    BY <1>7, <2>1 DEF IncidentResolution, WrappedNodes
<1>8. CASE Validator
  BY <1>8 DEF Validator, WrappedNodes
<1>9. CASE Critic
  BY <1>9 DEF Critic, RouteAfterConfidenceCheck, WrappedNodes, Locations
<1>10. CASE Reflection
  BY <1>10 DEF Reflection, RouteAfterReflection, WrappedNodes, Locations
<1>11. CASE PauseForHuman
  BY <1>11 DEF PauseForHuman, Locations
<1>12. CASE ReportGenerator
  <2>1. report' \in BOOLEAN
    BY <1>12 DEF ReportGenerator
  <2>2. QED
    BY <1>12, <2>1 DEF ReportGenerator, WrappedNodes
<1>13. CASE SaveMemory
  <2>1. node' \in Locations /\ failed' \subseteq WrappedNodes
    BY <1>13 DEF SaveMemory, WrappedNodes
  <2>2. stored' \subseteq {"episode", "line", "fix", "flag"}
    BY <1>13 DEF SaveMemory
  <2>3. QED
    BY <1>13, <2>1, <2>2 DEF SaveMemory
<1>14. CASE FinalResponse
  BY <1>14 DEF FinalResponse, WrappedNodes
<1>15. CASE ResumeWithoutDecision
  BY <1>15 DEF ResumeWithoutDecision, Locations
<1>16. ASSUME NEW fb \in Feedback, EditPlanAndRetry(fb) PROVE TypeOK'
  BY <1>16 DEF EditPlanAndRetry, Feedback, Locations, WrappedNodes, Statuses
<1>17. ASSUME NEW fb \in Feedback, Decide(fb) PROVE TypeOK'
  BY <1>17 DEF Decide, Feedback, AfterDecision, Locations, WrappedNodes, Statuses
<1>18. CASE UNCHANGED vars
  BY <1>18 DEF vars
<1>19. QED
  BY <1>1, <1>2, <1>3, <1>4, <1>5, <1>6, <1>7, <1>8, <1>9, <1>10, <1>11, <1>12,
     <1>13, <1>14, <1>15, <1>16, <1>17, <1>18 DEF Next, RunNode, HumanDecision

\* Every field keeps the type its TypedDict declares, and every conditional edge
\* and Command leads to a node of the graph (main_graph.py).
THEOREM TypeCorrect == Spec => []TypeOK
BY InitTypeOK, StepTypeOK, PTL DEF Spec

-----------------------------------------------------------------------------
(***************************************************************************)
(* The human gate.  The inductive invariant says what holds on either side *)
(* of it: nothing is published before the tail, the tail is entered with a *)
(* decision about a reviewed draft, and a rejection enters past the nodes  *)
(* that publish.                                                           *)
(***************************************************************************)
PublishedTail == PublishingNodes \cup {"END"}

GateInv ==
  /\ node = "awaiting_human" => reviewed
  /\ node \in PublishedTail => reviewed /\ approval_status # "pending"
  /\ node \in {"report_generator", "save_memory"} => approval_status \in Applied
  /\ node \notin PublishedTail => ~Published
  /\ node \in {"report_generator", "save_memory"} => stored = {}
  /\ approval_status = "rejected" => ~Published
  /\ node = "END" /\ approval_status = "rejected" => final_answer = "rejection"

LEMMA InitGate == Init => GateInv
BY DEF Init, GateInv, PublishedTail, PublishingNodes, Published, Applied

LEMMA StepGate == TypeOK /\ GateInv /\ [Next]_vars => GateInv'
<1> SUFFICES ASSUME TypeOK, GateInv, [Next]_vars PROVE GateInv'
  OBVIOUS
<1> USE DEF GateInv, PublishedTail, PublishingNodes, Published, Applied,
            scoring, looping, review, outcome, Runs, Successor
<1>1. CASE RecallMemory
  BY <1>1 DEF RecallMemory
<1>2. CASE IntentDetection
  BY <1>2 DEF IntentDetection
<1>3. CASE Planner
  BY <1>3 DEF Planner
<1>4. CASE EvidenceGathering
  BY <1>4 DEF EvidenceGathering
<1>5. CASE MergeResults
  BY <1>5 DEF MergeResults
<1>6. CASE RootCauseAnalysis
  BY <1>6 DEF RootCauseAnalysis
<1>7. CASE IncidentResolution
  BY <1>7 DEF IncidentResolution
<1>8. CASE Validator
  BY <1>8 DEF Validator
<1>9. CASE Critic
  BY <1>9 DEF Critic, RouteAfterConfidenceCheck
<1>10. CASE Reflection
  BY <1>10 DEF Reflection, RouteAfterReflection
<1>11. CASE PauseForHuman
  BY <1>11 DEF PauseForHuman
<1>12. CASE ReportGenerator
  BY <1>12 DEF ReportGenerator
<1>13. CASE SaveMemory
  BY <1>13 DEF SaveMemory
<1>14. CASE FinalResponse
  BY <1>14 DEF FinalResponse
<1>15. CASE ResumeWithoutDecision
  BY <1>15 DEF ResumeWithoutDecision
<1>16. ASSUME NEW fb \in Feedback, EditPlanAndRetry(fb) PROVE GateInv'
  BY <1>16 DEF EditPlanAndRetry, EditsPlan, Feedback
<1>17. ASSUME NEW fb \in Feedback, Decide(fb) PROVE GateInv'
  BY <1>17 DEF Decide, Feedback, AfterDecision, EditsPlan
<1>18. CASE UNCHANGED vars
  BY <1>18 DEF vars
<1>19. QED
  BY <1>1, <1>2, <1>3, <1>4, <1>5, <1>6, <1>7, <1>8, <1>9, <1>10, <1>11, <1>12,
     <1>13, <1>14, <1>15, <1>16, <1>17, <1>18 DEF Next, RunNode, HumanDecision

LEMMA GateInvariant == Spec => []GateInv
BY InitGate, StepGate, TypeCorrect, PTL DEF Spec

\* No sequence of failures, replans and edits publishes an undecided or unseen
\* draft (human_approval_node's routing).
THEOREM GateHolds == Spec => []NothingUnreviewedIsPublished
<1>1. TypeOK /\ GateInv => NothingUnreviewedIsPublished
  BY DEF TypeOK, Statuses, GateInv, NothingUnreviewedIsPublished, Applied
<1>2. QED
  BY <1>1, TypeCorrect, GateInvariant, PTL

\* A rejected incident ends with its rejection message and with nothing applied
\* (final_response_node).
THEOREM RejectionIsClean == Spec => []RejectionLeavesNoTrace
<1>1. GateInv => RejectionLeavesNoTrace
  BY DEF GateInv, RejectionLeavesNoTrace
<1>2. QED
  BY <1>1, GateInvariant, PTL

-----------------------------------------------------------------------------
(***************************************************************************)
(* The retry budget.  retry_count <= MaxReplan + edits is not inductive by *)
(* itself: Reflection increments it, so the guard it was entered by counts.*)
(***************************************************************************)
\* retry_count is below the limit wherever it can still be incremented by the loop.
RetryInv ==
  /\ retry_count <= MaxReplan + edits
  /\ node = "reflection" => retry_count < MaxReplan

LEMMA StepRetry == TypeOK /\ RetryInv /\ [Next]_vars => RetryInv'
<1> SUFFICES ASSUME TypeOK, RetryInv, [Next]_vars PROVE RetryInv'
  OBVIOUS
<1> USE ConfigAssumption DEF RetryInv, TypeOK, scoring, looping, review, outcome, Runs, Successor
<1>1. CASE RecallMemory
  BY <1>1 DEF RecallMemory
<1>2. CASE IntentDetection
  BY <1>2 DEF IntentDetection
<1>3. CASE Planner
  BY <1>3 DEF Planner
<1>4. CASE EvidenceGathering
  BY <1>4 DEF EvidenceGathering
<1>5. CASE MergeResults
  BY <1>5 DEF MergeResults
<1>6. CASE RootCauseAnalysis
  BY <1>6 DEF RootCauseAnalysis
<1>7. CASE IncidentResolution
  BY <1>7 DEF IncidentResolution
<1>8. CASE Validator
  BY <1>8 DEF Validator
<1>9. CASE Critic
  BY <1>9 DEF Critic, RouteAfterConfidenceCheck
<1>10. CASE Reflection
  BY <1>10 DEF Reflection, RouteAfterReflection
<1>11. CASE PauseForHuman
  BY <1>11 DEF PauseForHuman
<1>12. CASE ReportGenerator
  BY <1>12 DEF ReportGenerator
<1>13. CASE SaveMemory
  BY <1>13 DEF SaveMemory
<1>14. CASE FinalResponse
  BY <1>14 DEF FinalResponse
<1>15. CASE ResumeWithoutDecision
  BY <1>15 DEF ResumeWithoutDecision
<1>16. ASSUME NEW fb \in Feedback, EditPlanAndRetry(fb) PROVE RetryInv'
  BY <1>16 DEF EditPlanAndRetry, Feedback
<1>17. ASSUME NEW fb \in Feedback, Decide(fb) PROVE RetryInv'
  BY <1>17 DEF Decide, Feedback, AfterDecision
<1>18. CASE UNCHANGED vars
  BY <1>18 DEF vars
<1>19. QED
  BY <1>1, <1>2, <1>3, <1>4, <1>5, <1>6, <1>7, <1>8, <1>9, <1>10, <1>11, <1>12,
     <1>13, <1>14, <1>15, <1>16, <1>17, <1>18 DEF Next, RunNode, HumanDecision

LEMMA RetryInvariant == Spec => []RetryInv
<1>1. Init => RetryInv
  BY ConfigAssumption DEF Init, RetryInv
<1>2. QED
  BY <1>1, StepRetry, TypeCorrect, PTL DEF Spec

\* Reflection never pushes retry_count beyond max_replan_attempts; only a human's
\* plan edits do (reflection_node, human_approval_node).
THEOREM RetriesBounded == Spec => []RetryCountBounded
<1>1. RetryInv => RetryCountBounded
  BY DEF RetryInv, RetryCountBounded
<1>2. QED
  BY <1>1, RetryInvariant, PTL

-----------------------------------------------------------------------------
(***************************************************************************)
(* The length of a run.  Each node has its distance from rest, and the     *)
(* retry cycle is entered with an attempt less to go.                      *)
(***************************************************************************)
LEMMA AfterCriticIs ==
  ASSUME NEW r \in Nat
  PROVE  /\ AfterCritic(r) \in Nat \ {0} /\ AfterCritic(r) + 9 <= LongestRun
         /\ r < MaxReplan => AfterCritic(r) = 8 * (MaxReplan - r) - 6
         /\ r >= MaxReplan => AfterCritic(r) = 1
         /\ AfterCritic(r + 1) <= AfterCritic(r)
         /\ r + 1 < MaxReplan => AfterCritic(r) = 8 + AfterCritic(r + 1)
BY ConfigAssumption, SMT DEF AfterCritic, AttemptsLeft, LongestRun

LEMMA NodesFromHere ==
  ASSUME NEW r
  PROVE  /\ NodesFrom("recall_memory", r) = 9 + AfterCritic(r)
         /\ NodesFrom("intent_detection", r) = 8 + AfterCritic(r)
         /\ NodesFrom("planner", r) = 7 + AfterCritic(r)
         /\ NodesFrom("evidence_gathering", r) = 6 + AfterCritic(r)
         /\ NodesFrom("merge_results", r) = 5 + AfterCritic(r)
         /\ NodesFrom("root_cause_analysis", r) = 4 + AfterCritic(r)
         /\ NodesFrom("incident_resolution", r) = 3 + AfterCritic(r)
         /\ NodesFrom("validator", r) = 2 + AfterCritic(r)
         /\ NodesFrom("critic", r) = 1 + AfterCritic(r)
         /\ NodesFrom("reflection", r) = 0 + AfterCritic(r)
         /\ NodesFrom("human_approval", r) = 1 /\ NodesFrom("awaiting_human", r) = 0
         /\ NodesFrom("report_generator", r) = 3 /\ NodesFrom("save_memory", r) = 2
         /\ NodesFrom("final_response", r) = 1 /\ NodesFrom("END", r) = 0
BY SMT DEF NodesFrom, ToCritic, ToRest

LEMMA AheadNow == NodesAhead = NodesFrom(node, retry_count)
BY DEF NodesAhead

LEMMA AheadNext == NodesAhead' = NodesFrom(node', retry_count')
BY DEF NodesAhead, NodesFrom, AfterCritic, AttemptsLeft

\* How far from rest a run can be.
LEMMA BoundedFrom ==
  ASSUME NEW n \in Locations, NEW r \in Nat
  PROVE  /\ NodesFrom(n, r) \in Nat /\ NodesFrom(n, r) \in 0..LongestRun
         /\ NodesFrom(n, r) = 0 <=> n \in {"awaiting_human", "END"}
<1>1. AfterCritic(r) \in Nat \ {0} /\ AfterCritic(r) + 9 <= LongestRun
  BY AfterCriticIs
<1>2. LongestRun \in Nat /\ LongestRun >= 10
  BY ConfigAssumption, SMT DEF LongestRun
<1>3. CASE n \in DOMAIN ToCritic
  <2>1. NodesFrom(n, r) = ToCritic[n] + AfterCritic(r) /\ ToCritic[n] \in 0..9
    BY <1>3, SMT DEF NodesFrom, ToCritic
  <2>2. n \notin {"awaiting_human", "END"}
    BY <1>3, SMT DEF ToCritic
  <2> QED
    BY <1>1, <1>2, <2>1, <2>2, SMT
<1>4. CASE n \notin DOMAIN ToCritic
  <2>1. n \in DOMAIN ToRest
    BY <1>4, SMT DEF ToCritic, ToRest, Locations, WrappedNodes
  <2>2. NodesFrom(n, r) = ToRest[n]
    BY <1>4 DEF NodesFrom
  <2>3. ToRest[n] \in 0..3 /\ (ToRest[n] = 0 <=> n \in {"awaiting_human", "END"})
    BY <2>1, SMT DEF ToRest
  <2> QED
    BY <1>2, <2>2, <2>3, SMT
<1> QED
  BY <1>3, <1>4

\* The nodes with a static edge.
LEMMA StaticEdgeNearsRest ==
  ASSUME TypeOK, NEW n \in DOMAIN Successor, Runs(n), retry_count' = retry_count
  PROVE  NodesAhead' < NodesAhead
<1>1. retry_count \in Nat /\ node = n /\ node' = Successor[n]
  BY DEF TypeOK, Runs
<1>2. AfterCritic(retry_count) \in Nat
  BY <1>1, AfterCriticIs
<1>3. NodesFrom(node', retry_count) < NodesFrom(node, retry_count)
  BY <1>1, <1>2, NodesFromHere, SMT DEF Successor
<1> QED
  BY <1>3, AheadNow, AheadNext

LEMMA NodeNearsRest ==
  ASSUME TypeOK, RetryInv, RunNode
  PROVE  NodesAhead' < NodesAhead \/ LosesAnAttempt
<1> DEFINE r == retry_count
<1>1. r \in Nat /\ AfterCritic(r) \in Nat \ {0}
  BY AfterCriticIs DEF TypeOK
<1>2. CASE \/ RecallMemory \/ IntentDetection \/ Planner \/ EvidenceGathering \/ MergeResults
           \/ RootCauseAnalysis \/ IncidentResolution \/ Validator
           \/ ReportGenerator \/ SaveMemory \/ FinalResponse
  <2>1. retry_count' = retry_count /\ \E n \in DOMAIN Successor : Runs(n)
    BY <1>2 DEF RecallMemory, IntentDetection, Planner, EvidenceGathering, MergeResults,
                RootCauseAnalysis, IncidentResolution, Validator, ReportGenerator, SaveMemory,
                FinalResponse, looping, Successor
  <2> QED
    BY <2>1, StaticEdgeNearsRest
<1>3. CASE Critic
  <2>1. /\ node = "critic" /\ retry_count' = r
        /\ node' \in {"reflection", "human_approval"}
    BY <1>3 DEF Critic, looping, RouteAfterConfidenceCheck
  <2>2. NodesFrom(node', r) < NodesFrom(node, r)
    BY <1>1, <2>1, NodesFromHere, SMT
  <2> QED
    BY <2>1, <2>2, AheadNow, AheadNext
<1>4. CASE Reflection
  <2>1. node = "reflection" /\ r < MaxReplan
    BY <1>4 DEF Reflection, RetryInv
  <2>2. CASE Raises("reflection")
    BY <2>1, <2>2 DEF Raises, LosesAnAttempt
  <2>3. CASE retry_count' = r + 1
    <3>1. CASE node' = "human_approval"
      <4>1. AfterCritic(r) = 8 * (MaxReplan - r) - 6 /\ MaxReplan \in Nat
        BY <1>1, <2>1, AfterCriticIs, ConfigAssumption
      <4>2. NodesFrom(node', r + 1) < NodesFrom(node, r)
        BY <1>1, <2>1, <3>1, <4>1, NodesFromHere, SMT
      <4> QED
        BY <2>3, <4>2, AheadNow, AheadNext
    <3>2. CASE node' = "planner"
      <4>1. r + 1 < MaxReplan
        BY <1>4, <2>3, <3>2 DEF Reflection, RouteAfterReflection
      <4>2. AfterCritic(r) = 8 + AfterCritic(r + 1) /\ AfterCritic(r + 1) \in Nat
        <5>1. r + 1 \in Nat
          BY <1>1, SMT
        <5> QED
          BY <1>1, <4>1, <5>1, AfterCriticIs
      <4>3. NodesFrom(node', r + 1) < NodesFrom(node, r)
        BY <1>1, <2>1, <3>2, <4>2, NodesFromHere, SMT
      <4> QED
        BY <2>3, <4>3, AheadNow, AheadNext
    <3> QED
      BY <1>4, <3>1, <3>2 DEF Reflection, RouteAfterReflection
  <2> QED
    BY <1>4, <2>2, <2>3 DEF Reflection
<1>5. CASE PauseForHuman
  <2>1. node = "human_approval" /\ node' = "awaiting_human"
    BY <1>5 DEF PauseForHuman
  <2>2. NodesFrom(node', retry_count') < NodesFrom(node, r)
    BY <2>1, NodesFromHere, SMT
  <2> QED
    BY <2>2, AheadNow, AheadNext
<1> QED
  BY <1>2, <1>3, <1>4, <1>5 DEF RunNode

\* From any state a run is within eight nodes per attempt, and three, of its rest, and
\* every node it runs brings it nearer, failed or not, but for a Reflection that fails
\* (run_node(), route_after_confidence_check, route_after_reflection): with such failures
\* there is no bound on the run.  Nothing but the scheduling of the nodes is left to
\* RestsUnlessReflectionKeepsFailing.
THEOREM RunsEnd == Spec => RunsAreShort
<1>1. TypeOK => NodesAhead \in 0..LongestRun /\ (NodesAhead = 0 <=> AtRest)
  BY BoundedFrom, AheadNow DEF TypeOK, AtRest
<1>2. TypeOK /\ TypeOK' /\ RetryInv /\ [Next]_vars =>
        [/\ RunNode => NodesAhead' < NodesAhead \/ LosesAnAttempt
         /\ NodesAhead' > NodesAhead => LosesAnAttempt \/ AtRest]_vars
  <2> SUFFICES ASSUME TypeOK, TypeOK', RetryInv, Next
               PROVE  /\ RunNode => NodesAhead' < NodesAhead \/ LosesAnAttempt
                      /\ NodesAhead' > NodesAhead => LosesAnAttempt \/ AtRest
    OBVIOUS
  <2>1. NodesAhead \in Nat /\ NodesAhead' \in Nat
    BY BoundedFrom, AheadNow, AheadNext DEF TypeOK
  <2>2. ~RunNode => AtRest
    BY DEF Next, HumanDecision, EditPlanAndRetry, Decide, ResumeWithoutDecision, AtRest
  <2>3. RunNode => NodesAhead' < NodesAhead \/ LosesAnAttempt
    BY NodeNearsRest
  <2> QED
    BY <2>1, <2>2, <2>3, SMT
<1> QED
  BY <1>1, <1>2, TypeCorrect, RetryInvariant, PTL DEF Spec, RunsAreShort

-----------------------------------------------------------------------------
LEMMA StepGivenUp ==
  TypeOK /\ WeakDraftOnlyWhenGivenUp /\ [Next]_vars => WeakDraftOnlyWhenGivenUp'
<1> SUFFICES ASSUME TypeOK, WeakDraftOnlyWhenGivenUp, [Next]_vars
             PROVE  WeakDraftOnlyWhenGivenUp'
  OBVIOUS
<1> USE ConfigAssumption DEF WeakDraftOnlyWhenGivenUp, NeedsAnotherPass, TypeOK,
        scoring, looping, review, outcome, Runs, Successor
<1>1. CASE RecallMemory
  BY <1>1 DEF RecallMemory
<1>2. CASE IntentDetection
  BY <1>2 DEF IntentDetection
<1>3. CASE Planner
  BY <1>3 DEF Planner
<1>4. CASE EvidenceGathering
  BY <1>4 DEF EvidenceGathering
<1>5. CASE MergeResults
  BY <1>5 DEF MergeResults
<1>6. CASE RootCauseAnalysis
  BY <1>6 DEF RootCauseAnalysis
<1>7. CASE IncidentResolution
  BY <1>7 DEF IncidentResolution
<1>8. CASE Validator
  BY <1>8 DEF Validator
<1>9. CASE Critic
  BY <1>9 DEF Critic, RouteAfterConfidenceCheck
<1>10. CASE Reflection
  BY <1>10 DEF Reflection, RouteAfterReflection
<1>11. CASE PauseForHuman
  BY <1>11 DEF PauseForHuman
<1>12. CASE ReportGenerator
  BY <1>12 DEF ReportGenerator
<1>13. CASE SaveMemory
  BY <1>13 DEF SaveMemory
<1>14. CASE FinalResponse
  BY <1>14 DEF FinalResponse
<1>15. CASE ResumeWithoutDecision
  BY <1>15 DEF ResumeWithoutDecision
<1>16. ASSUME NEW fb \in Feedback, EditPlanAndRetry(fb) PROVE WeakDraftOnlyWhenGivenUp'
  BY <1>16 DEF EditPlanAndRetry, Feedback
<1>17. ASSUME NEW fb \in Feedback, Decide(fb) PROVE WeakDraftOnlyWhenGivenUp'
  BY <1>17 DEF Decide, Feedback, AfterDecision
<1>18. CASE UNCHANGED vars
  BY <1>18 DEF vars
<1>19. QED
  BY <1>1, <1>2, <1>3, <1>4, <1>5, <1>6, <1>7, <1>8, <1>9, <1>10, <1>11, <1>12,
     <1>13, <1>14, <1>15, <1>16, <1>17, <1>18 DEF Next, RunNode, HumanDecision

\* A weak draft reaches the human only with the attempts used up or on a
\* Reflection's verdict (the two conditional edges together).
THEOREM GivesUpForAReason == Spec => []WeakDraftOnlyWhenGivenUp
<1>1. Init => WeakDraftOnlyWhenGivenUp
  BY DEF Init, WeakDraftOnlyWhenGivenUp
<1>2. QED
  BY <1>1, StepGivenUp, TypeCorrect, PTL DEF Spec

-----------------------------------------------------------------------------
(***************************************************************************)
(* Staleness.  By the time the run is past a field's producer, the field   *)
(* is of this pass or the producer's failure is on record; a new pass      *)
(* withdraws both at once.                                                 *)
(***************************************************************************)
Accounted(a) == art[a] = "current" \/ Producer[a] \in failed

AgeInv ==
  LET before(ns) == node \notin {"recall_memory", "intent_detection", "planner"} \cup ns \cup PublishedTail
      d1 == {"evidence_gathering", "merge_results"}
      d2 == d1 \cup {"root_cause_analysis"}
      d3 == d2 \cup {"incident_resolution"}
      d4 == d3 \cup {"validator"}
      d5 == d4 \cup {"critic"}
  IN /\ before({}) => Accounted("plan")
     /\ before(d1) => Accounted("bundle")
     /\ before(d2) => Accounted("root_cause")
     /\ before(d3) => Accounted("draft")
     /\ before(d4) => Accounted("validated")
     /\ before(d5) => Accounted("critique")
     /\ before(d4) => scored_by = "validator" \/ "validator" \in failed

LEMMA StepAge == TypeOK /\ AgeInv /\ [Next]_vars => AgeInv'
<1> SUFFICES ASSUME TypeOK, AgeInv, [Next]_vars PROVE AgeInv'
  OBVIOUS
<1> USE DEF AgeInv, Accounted, Producer, PublishedTail, PublishingNodes, TypeOK,
        scoring, looping, review, outcome, Runs, Raises, Successor, Artifacts
<1>1. CASE RecallMemory
  BY <1>1 DEF RecallMemory
<1>2. CASE IntentDetection
  BY <1>2 DEF IntentDetection
<1>3. CASE Planner
  <2>1. node' = "evidence_gathering"
    BY <1>3 DEF Planner
  <2>2. art'["plan"] = "current" \/ "planner" \in failed'
    BY <1>3 DEF Planner, Aged
  <2>3. QED
    BY <2>1, <2>2
<1>4. CASE EvidenceGathering
  BY <1>4 DEF EvidenceGathering
<1>5. CASE MergeResults
  BY <1>5 DEF MergeResults
<1>6. CASE RootCauseAnalysis
  BY <1>6 DEF RootCauseAnalysis
<1>7. CASE IncidentResolution
  BY <1>7 DEF IncidentResolution
<1>8. CASE Validator
  BY <1>8 DEF Validator
<1>9. CASE Critic
  BY <1>9 DEF Critic, RouteAfterConfidenceCheck
<1>10. CASE Reflection
  BY <1>10 DEF Reflection, RouteAfterReflection
<1>11. CASE PauseForHuman
  BY <1>11 DEF PauseForHuman
<1>12. CASE ReportGenerator
  BY <1>12 DEF ReportGenerator
<1>13. CASE SaveMemory
  BY <1>13 DEF SaveMemory
<1>14. CASE FinalResponse
  BY <1>14 DEF FinalResponse
<1>15. CASE ResumeWithoutDecision
  BY <1>15 DEF ResumeWithoutDecision
<1>16. ASSUME NEW fb \in Feedback, EditPlanAndRetry(fb) PROVE AgeInv'
  <2>1. node' = "evidence_gathering"
    BY <1>16 DEF EditPlanAndRetry
  <2>2. art'["plan"] = "current"
    BY <1>16 DEF EditPlanAndRetry, Aged
  <2>3. QED
    BY <2>1, <2>2
<1>17. ASSUME NEW fb \in Feedback, Decide(fb) PROVE AgeInv'
  BY <1>17 DEF Decide, Feedback, AfterDecision
<1>18. CASE UNCHANGED vars
  BY <1>18 DEF vars
<1>19. QED
  BY <1>1, <1>2, <1>3, <1>4, <1>5, <1>6, <1>7, <1>8, <1>9, <1>10, <1>11, <1>12,
     <1>13, <1>14, <1>15, <1>16, <1>17, <1>18 DEF Next, RunNode, HumanDecision

\* Whatever is old or missing in what the human is shown, errors says so
\* (run_node together with the order of the edges).
THEOREM StalenessReported == Spec => []StaleAnswersAreReported
<1>1. Init => AgeInv
  BY DEF Init, AgeInv
<1>2. AgeInv => StaleAnswersAreReported
  BY DEF AgeInv, StaleAnswersAreReported, Accounted, Artifacts, PublishedTail, PublishingNodes
<1>3. QED
  BY <1>1, <1>2, StepAge, TypeCorrect, PTL DEF Spec

\* No score but the Validator's routes a run unnoticed (root_cause_node and
\* validator_node both write confidence_score).
THEOREM ScoreReported == Spec => []ScoreIsValidatedOrReported
<1>1. Init => AgeInv
  BY DEF Init, AgeInv
<1>2. AgeInv => ScoreIsValidatedOrReported
  BY DEF AgeInv, ScoreIsValidatedOrReported, PublishedTail, PublishingNodes
<1>3. QED
  BY <1>1, <1>2, StepAge, TypeCorrect, PTL DEF Spec

-----------------------------------------------------------------------------
(***************************************************************************)
(* The refinement: the investigation's nodes are stuttering steps of the   *)
(* gate, the pause submits, a decision accepts or refuses, the tail        *)
(* publishes and closes.                                                   *)
(***************************************************************************)
LEMMA StepRefines == TypeOK /\ GateInv /\ [Next]_vars => [Gate!Next]_(Gate!vars)
<1> SUFFICES ASSUME TypeOK, GateInv, [Next]_vars PROVE [Gate!Next]_(Gate!vars)
  OBVIOUS
<1> USE DEF Gate!vars, phase, verdict, effects, PublishingNodes, outcome, review, Runs, Successor
<1>1. CASE RecallMemory
  BY <1>1 DEF RecallMemory
<1>2. CASE IntentDetection
  BY <1>2 DEF IntentDetection
<1>3. CASE Planner
  BY <1>3 DEF Planner
<1>4. CASE EvidenceGathering
  BY <1>4 DEF EvidenceGathering
<1>5. CASE MergeResults
  BY <1>5 DEF MergeResults
<1>6. CASE RootCauseAnalysis
  BY <1>6 DEF RootCauseAnalysis
<1>7. CASE IncidentResolution
  BY <1>7 DEF IncidentResolution
<1>8. CASE Validator
  BY <1>8 DEF Validator
<1>9. CASE Critic
  BY <1>9 DEF Critic, RouteAfterConfidenceCheck
<1>10. CASE Reflection
  BY <1>10 DEF Reflection, RouteAfterReflection
<1>11. CASE PauseForHuman
  <2>1. Gate!Submit
    BY <1>11 DEF PauseForHuman, Gate!Submit
  <2>2. QED
    BY <2>1 DEF Gate!Next
<1>12. CASE ReportGenerator
  <2>1. Gate!Publish \/ UNCHANGED Gate!vars
    BY <1>12 DEF ReportGenerator, Gate!Publish, GateInv, TypeOK, AllEffects
  <2>2. QED
    BY <2>1 DEF Gate!Next
<1>13. CASE SaveMemory
  <2>1. Gate!Publish \/ UNCHANGED Gate!vars
    BY <1>13 DEF SaveMemory, Gate!Publish, GateInv, TypeOK, AllEffects
  <2>2. QED
    BY <2>1 DEF Gate!Next
<1>14. CASE FinalResponse
  <2>1. Gate!Close
    BY <1>14 DEF FinalResponse, Gate!Close, GateInv, PublishedTail, Published,
                TypeOK, AllEffects, Applied, Statuses
  <2>2. QED
    BY <2>1 DEF Gate!Next
<1>15. CASE ResumeWithoutDecision
  <2>1. Gate!Reopen
    BY <1>15 DEF ResumeWithoutDecision, Gate!Reopen
  <2>2. QED
    BY <2>1 DEF Gate!Next
<1>16. ASSUME NEW fb \in Feedback, EditPlanAndRetry(fb) PROVE [Gate!Next]_(Gate!vars)
  <2>1. Gate!Reopen
    BY <1>16 DEF EditPlanAndRetry, Gate!Reopen
  <2>2. QED
    BY <2>1 DEF Gate!Next
<1>17. ASSUME NEW fb \in Feedback, Decide(fb) PROVE [Gate!Next]_(Gate!vars)
  <2>1. Gate!Accept \/ Gate!Refuse
    BY <1>17 DEF Decide, Feedback, AfterDecision, Applied, Gate!Accept, Gate!Refuse
  <2>2. QED
    BY <2>1 DEF Gate!Next
<1>18. CASE UNCHANGED vars
  BY <1>18 DEF vars
<1>19. QED
  BY <1>1, <1>2, <1>3, <1>4, <1>5, <1>6, <1>7, <1>8, <1>9, <1>10, <1>11, <1>12,
     <1>13, <1>14, <1>15, <1>16, <1>17, <1>18 DEF Next, RunNode, HumanDecision

\* Every run of the graph is a run of the approval gate.
THEOREM Refinement == Spec => ImplementsApprovalGate
<1>1. Init => Gate!Init
  BY DEF Init, Gate!Init, phase, verdict, effects, PublishingNodes
<1>2. QED
  BY <1>1, StepRefines, TypeCorrect, GateInvariant, PTL DEF Spec, Gate!Spec, ImplementsApprovalGate

-----------------------------------------------------------------------------
(***************************************************************************)
(* A thread's life: the investigation's nodes and its loop are one stage,  *)
(* which is left for the gate, and every other node is a stage of its own. *)
(***************************************************************************)
Investigating ==
  {"intent_detection", "planner", "evidence_gathering", "merge_results",
   "root_cause_analysis", "incident_resolution", "validator", "critic", "reflection"}

\* A step between two stages, by what becomes of the status and the report.
LEMMA LifeFields ==
  /\ RunLife.stage = Stage /\ RunLife.status = approval_status /\ RunLife.report = report
  /\ RunLife'.stage = Stage' /\ RunLife'.status = approval_status' /\ RunLife'.report = report'
BY DEF RunLife

\* Nodes and decisions alike lead a thread on to its next stage, or leave it in its own.
LEMMA StepLives == TypeOK /\ [Next]_vars => LivesOn(RunLife, RunLife')
<1> SUFFICES ASSUME TypeOK, [Next]_vars PROVE LivesOn(RunLife, RunLife')
  OBVIOUS
<1> USE DEF outcome, review
<1>1. ASSUME Stage' = Stage, UNCHANGED <<approval_status, report>>
      PROVE  LivesOn(RunLife, RunLife')
  BY <1>1 DEF RunLife, LivesOn
<1>2. ASSUME node \in Investigating, node' \in Investigating,
             UNCHANGED <<approval_status, report>>
      PROVE  LivesOn(RunLife, RunLife')
  BY <1>1, <1>2 DEF Stage, Investigating, PublishingNodes
<1>3. CASE RecallMemory
  <2>1. Stage = "recall_memory" /\ Stage' = "investigation" /\ UNCHANGED <<approval_status, report>>
    BY <1>3 DEF RecallMemory, Runs, Successor, Stage, PublishingNodes
  <2>2. QED
    BY <2>1, LifeFields DEF LivesOn, MovesOn, Following
<1>4. CASE IntentDetection \/ Planner \/ EvidenceGathering \/ MergeResults \/ RootCauseAnalysis
           \/ IncidentResolution \/ Validator
  <2>1. node \in Investigating /\ node' \in Investigating /\ UNCHANGED <<approval_status, report>>
    BY <1>4 DEF IntentDetection, Planner, EvidenceGathering, MergeResults, RootCauseAnalysis,
                IncidentResolution, Validator, Runs, Successor, Investigating
  <2>2. QED
    BY <1>2, <2>1
<1>5. CASE Critic \/ Reflection
  <2>1. /\ node \in {"critic", "reflection"}
        /\ node' \in {"reflection", "planner", "human_approval"}
        /\ UNCHANGED <<approval_status, report>>
    BY <1>5 DEF Critic, Reflection, RouteAfterConfidenceCheck, RouteAfterReflection
  <2>2. CASE node' = "human_approval"
    <3>1. Stage = "investigation" /\ Stage' = "human_approval"
      BY <2>1, <2>2 DEF Stage, PublishingNodes
    <3>2. QED
      BY <2>1, <3>1, LifeFields DEF LivesOn, MovesOn, Following
  <2>3. CASE node' \in Investigating
    BY <1>2, <2>1, <2>3 DEF Investigating
  <2>4. QED
    BY <2>1, <2>2, <2>3 DEF Investigating
<1>6. CASE PauseForHuman
  <2>1. Stage = "human_approval" /\ Stage' = "awaiting_human" /\ UNCHANGED <<approval_status, report>>
    BY <1>6 DEF PauseForHuman, Stage
  <2>2. QED
    BY <2>1, LifeFields DEF LivesOn, MovesOn, Following
<1>7. CASE ReportGenerator
  <2>1. /\ Stage = "report_generator" /\ Stage' = "save_memory"
        /\ approval_status' = approval_status /\ (report' \/ report' = report)
    BY <1>7 DEF ReportGenerator, Raises, Runs, Successor, Stage, PublishingNodes
  <2>2. QED
    BY <2>1, LifeFields DEF LivesOn, MovesOn, Following
<1>8. CASE SaveMemory
  <2>1. Stage = "save_memory" /\ Stage' = "final_response" /\ UNCHANGED <<approval_status, report>>
    BY <1>8 DEF SaveMemory, Runs, Successor, Stage, PublishingNodes
  <2>2. QED
    BY <2>1, LifeFields DEF LivesOn, MovesOn, Following
<1>9. CASE FinalResponse
  <2>1. Stage = "final_response" /\ Stage' = "END" /\ UNCHANGED <<approval_status, report>>
    BY <1>9 DEF FinalResponse, Runs, Successor, Stage, PublishingNodes
  <2>2. QED
    BY <2>1, LifeFields DEF LivesOn, MovesOn, Following
<1>10. CASE ResumeWithoutDecision
  <2>1. Stage = "awaiting_human" /\ Stage' = "human_approval" /\ UNCHANGED <<approval_status, report>>
    BY <1>10 DEF ResumeWithoutDecision, Stage
  <2>2. QED
    BY <2>1, LifeFields DEF LivesOn, IsBriefedAgain
<1>11. ASSUME NEW fb \in Feedback, EditPlanAndRetry(fb) PROVE LivesOn(RunLife, RunLife')
  <2>1. /\ Stage = "awaiting_human" /\ Stage' = "investigation"
        /\ approval_status' = "modified" /\ report' = report
    BY <1>11 DEF EditPlanAndRetry, EditsPlan, Stage, PublishingNodes
  <2>2. QED
    BY <2>1, LifeFields DEF LivesOn, IsDecided
<1>12. ASSUME NEW fb \in Feedback, Decide(fb) PROVE LivesOn(RunLife, RunLife')
  <2>1. /\ Stage = "awaiting_human" /\ report' = report
        /\ \/ Stage' = "report_generator" /\ approval_status' \in {"approved", "modified"}
           \/ Stage' = "final_response" /\ approval_status' = "rejected"
    BY <1>12 DEF Decide, AfterDecision, Feedback, Applied, Stage, PublishingNodes
  <2>2. QED
    BY <2>1, LifeFields DEF LivesOn, IsDecided
<1>13. CASE UNCHANGED vars
  BY <1>1, <1>13 DEF vars, Stage
<1>14. QED
  BY <1>3, <1>4, <1>5, <1>6, <1>7, <1>8, <1>9, <1>10, <1>11, <1>12, <1>13
  DEF Next, RunNode, HumanDecision

\* A run of the compiled graph (create_graph) is a thread's life, whatever the agents
\* answer, however often they fail, and however often its loops are taken.
THEOREM RunLives == Spec => RunLeadsTheLife
<1>1. Init => Birth(RunLife)
  BY DEF Init, RunLife, Birth, Stage
<1>2. TypeOK /\ [Next]_vars => [LivesOn(RunLife, RunLife')]_vars
  BY StepLives
<1>3. QED
  BY <1>1, <1>2, TypeCorrect, PTL DEF Spec, RunLeadsTheLife

=============================================================================
