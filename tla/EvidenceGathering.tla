--------------------------- MODULE EvidenceGathering ---------------------------
(***************************************************************************)
(* The evidence subgraph: each pass of the investigation dispatches one    *)
(* branch per task of the plan with the Send API, the branches run in      *)
(* parallel threads, and when the last has ended their writes are merged   *)
(* into the accumulating fields of the parent's state.  A branch reads     *)
(* only its own Send payload, so what happens inside it is one step; what  *)
(* matters outside is the set of fields it contributes an entry to.  Then  *)
(* merge_results renders the accumulated fields into the evidence bundle,  *)
(* which is all that the analyst, the Validator and the Critic read.       *)
(*                                                                         *)
(* An entry is abstracted to where it comes from: the pass and the task.   *)
(* In the logs and the metrics it stands for the lines of one tool call.   *)
(***************************************************************************)
EXTENDS Infrastructure, FiniteSets

CONSTANTS
  Plans,       \* what the Planner, or a human's edit, may ask for
  Category,    \* intent.category, which no pass changes
  Pod,         \* the scenario of the pod that infer_target_name() settles on
  Limit,       \* lines of a windowed field that its formatter keeps
  MaxPasses,   \* bound: passes of the investigation
  MaxCrashes   \* bound: process crashes while branches run

\* _ACCUMULATOR_FIELDS
Fields ==
  {"retrieved_documents", "tool_results", "logs", "metrics", "sql_results",
   "reasoning", "execution_history", "citations", "errors"}

\* The fields build_evidence_bundle() reads; tool_results and citations are not in it.
Shown == {"reasoning", "logs", "metrics", "retrieved_documents", "sql_results"}

\* The fields whose formatter keeps the last lines only.
Windowed == {"logs", "metrics"}

\* A plan is a sequence of tasks, here their types; ExecutionPlan.tasks has at least
\* one.  PlanTask.depends_on is read by no code.
TaskTypes == {"log_analysis", "metrics_analysis", "vector_search", "sql_query",
              "web_search", "knowledge_graph"}
NoPlan    == <<>>

ASSUME PlansAssumption == Plans \subseteq Seq(TaskTypes) \ {NoPlan}
ASSUME PassesAssumption == MaxPasses \in Nat /\ MaxCrashes \in Nat
ASSUME SceneAssumption == Category \in Categories /\ Pod \in PodScenarios
ASSUME LimitAssumption == Limit \in Nat \ {0}

VARIABLES
  phase,       \* "planning", "dispatching", "gathering", "crashed" or "merging"
  plan,
  sends,       \* the tasks dispatched in this pass, in Send order
  branch,      \* each branch's progress and the fields it wrote
  finished,    \* observer: the branches that have ended, in that order
  acc,         \* the accumulating fields of the parent's state
  bundle,      \* metadata.evidence_bundle: the lines it shows of each field
  dispatched,  \* observer: how many branches each pass dispatched
  crashes      \* observer: crashes so far

vars == <<phase, plan, sends, branch, finished, acc, bundle, dispatched, crashes>>

-----------------------------------------------------------------------------
(* What each evidence node may contribute, by the outcome of its tools.  A *)
(* failed tool call costs its own entry and nothing else.                  *)

\* The pod's events are kept as a tool result whatever their status.
LogAnalysis == {{"logs", "tool_results"}, {"tool_results"}}

\* The snapshot is taken if the category has one and the agent selects it.
MetricsAnalysis == (SUBSET {"metrics"}) \cup
                   (IF HasSnapshot(Category) THEN SUBSET {"metrics", "tool_results"} ELSE {})

\* Citations are made of the documents found; all queries may find nothing.
VectorSearch == {{"retrieved_documents", "citations"}, {}}

SqlQuery == {{"sql_results"}, {}}

WebSearch == {{"tool_results"}}

\* Mutant: a finding written to a field that is not an accumulator.
KnowledgeGraphElsewhere == {{"metadata"}}

KnowledgeGraph == {{}}

Contributions ==
  [log_analysis |-> LogAnalysis, metrics_analysis |-> MetricsAnalysis,
   vector_search |-> VectorSearch, sql_query |-> SqlQuery,
   web_search |-> WebSearch, knowledge_graph |-> KnowledgeGraph]

\* Mutant: what was gathered before the agent raised is kept.
OutcomesWithPartialResults(type) ==
  {c \cup {"reasoning", "execution_history"} : c \in Contributions[type]}
    \cup {c \cup {"errors", "execution_history"} : c \in Contributions[type]}

\* run_node(): the branch's findings with its own reasoning and history, or, when
\* its agent raises, an error and a failed history entry in place of all of them.
Outcomes(type) ==
  {c \cup {"reasoning", "execution_history"} : c \in Contributions[type]}
    \cup {{"errors", "execution_history"}}

-----------------------------------------------------------------------------
Waiting == [at |-> "waiting", wrote |-> {}]

Init ==
  /\ phase = "planning" /\ plan = NoPlan
  /\ sends = <<>> /\ branch = <<>> /\ finished = <<>>
  /\ acc = [f \in Fields |-> <<>>]
  /\ bundle = [f \in Shown |-> {}]
  /\ dispatched = <<>> /\ crashes = 0

\* The Planner (or a human) gives the pass its plan; if the Planner fails, the
\* plan of the pass before, or none, stays.
Planner ==
  /\ phase = "planning" /\ Len(dispatched) < MaxPasses
  /\ plan' \in Plans \cup {plan}
  /\ phase' = "dispatching"
  /\ UNCHANGED <<sends, branch, finished, acc, bundle, dispatched, crashes>>

GeneralReview == "log_analysis"

\* Mutant: nothing to dispatch without a plan.
SendsWithoutFallback == plan

\* route_to_evidence_tasks: one Send per task, or a general log review.
Sends == IF plan = NoPlan THEN <<GeneralReview>> ELSE plan

\* The subgraph starts from empty accumulators, and LangGraph runs every Send of
\* the list in one super-step.
Dispatch ==
  /\ phase = "dispatching" /\ phase' = "gathering"
  /\ sends' = Sends
  /\ branch' = [i \in DOMAIN Sends |-> Waiting]
  /\ finished' = <<>>
  /\ dispatched' = Append(dispatched, Len(Sends))
  /\ UNCHANGED <<plan, acc, bundle, crashes>>

\* The executor gives branch i a thread.
Start(i) ==
  /\ phase = "gathering" /\ branch[i].at = "waiting"
  /\ branch' = [branch EXCEPT ![i].at = "running"]
  /\ UNCHANGED <<phase, plan, sends, finished, acc, bundle, dispatched, crashes>>

Finish(i) ==
  /\ phase = "gathering" /\ branch[i].at = "running"
  /\ \E fields \in Outcomes(sends[i]) :
       branch' = [branch EXCEPT ![i] = [at |-> "done", wrote |-> fields]]
  /\ finished' = Append(finished, i)
  /\ UNCHANGED <<phase, plan, sends, acc, bundle, dispatched, crashes>>

Entry(i) == [pass |-> Len(dispatched), task |-> i]

\* The members of a finite set of numbers, from the least to the greatest.
InOrder(S) ==
  CHOOSE q \in [1..Cardinality(S) -> S] : \A j, k \in DOMAIN q : j < k => q[j] < q[k]

\* The elements of order that are in S.
Chosen(order, S) ==
  LET at == InOrder({k \in DOMAIN order : order[k] \in S})
  IN [n \in DOMAIN at |-> order[at[n]]]

\* The entries of field f, branches taken in the given order.
Gathered(f, order) ==
  LET writers == Chosen(order, {i \in DOMAIN branch : f \in branch[i].wrote})
  IN [k \in DOMAIN writers |-> Entry(writers[k])]

SendOrder == [i \in DOMAIN sends |-> i]

AllDone == phase = "gathering" /\ \A i \in DOMAIN branch : branch[i].at = "done"

\* Mutant: writes are applied as the branches happen to end.
JoinInOrderOfArrival ==
  /\ AllDone /\ phase' = "merging"
  /\ acc' = [f \in Fields |-> acc[f] \o Gathered(f, finished)]
  /\ UNCHANGED <<plan, sends, branch, finished, bundle, dispatched, crashes>>

\* Mutant: a failed branch leaves the super-step unfinished.
JoinIfAllSucceed ==
  /\ AllDone /\ \A i \in DOMAIN branch : "errors" \notin branch[i].wrote
  /\ phase' = "merging"
  /\ acc' = [f \in Fields |-> acc[f] \o Gathered(f, SendOrder)]
  /\ UNCHANGED <<plan, sends, branch, finished, bundle, dispatched, crashes>>

\* The end of the super-step: LangGraph applies the branches' writes in Send order;
\* invoke_evidence_subgraph returns only what they produced, and the parent's
\* reducers append it.
Join ==
  /\ AllDone /\ phase' = "merging"
  /\ acc' = [f \in Fields |-> acc[f] \o Gathered(f, SendOrder)]
  /\ UNCHANGED <<plan, sends, branch, finished, bundle, dispatched, crashes>>

\* The process dies while branches run: the parent's state is as it was committed
\* before the pass.
Crash ==
  /\ phase = "gathering" /\ crashes < MaxCrashes
  /\ phase' = "crashed" /\ crashes' = crashes + 1
  /\ UNCHANGED <<plan, sends, branch, finished, acc, bundle, dispatched>>

\* Somebody calls resume(): the node runs again.  Branches whose writes reached the
\* database before the crash may be taken from there; the others start afresh.
Resume ==
  /\ phase = "crashed" /\ phase' = "gathering"
  /\ \E kept \in SUBSET {i \in DOMAIN branch : branch[i].at = "done"} :
       /\ branch' = [i \in DOMAIN branch |-> IF i \in kept THEN branch[i] ELSE Waiting]
       /\ finished' = Chosen(finished, kept)
  /\ UNCHANGED <<plan, sends, acc, bundle, dispatched, crashes>>

Entries(f) == {acc[f][k] : k \in DOMAIN acc[f]}

\* How many lines an entry stands for: one tool call's, or itself.
Batch(f) == CASE f = "logs"    -> Len(LogLines(Pod))
              [] f = "metrics" -> DefaultPoints
              [] OTHER         -> 1

\* Line l of the k-th entry of field f.
LineOf(f, k, l) == [entry |-> acc[f][k], line |-> l]

\* Mutant: logs[:limit] for logs[-limit:].
VisibleFromTheFirst(f) ==
  {LineOf(f, x[1], x[2]) : x \in
     {y \in (DOMAIN acc[f]) \X (1..Batch(f)) :
        f \in Windowed => (y[1] - 1) * Batch(f) + y[2] <= Limit}}

\* The formatters show logs[-limit:], metrics[-limit:], and everything of the other
\* fields: a line is seen while fewer than Limit lines follow it.
Visible(f) ==
  {LineOf(f, x[1], x[2]) : x \in
     {y \in (DOMAIN acc[f]) \X (1..Batch(f)) :
        f \in Windowed => (Len(acc[f]) - y[1]) * Batch(f) + Batch(f) - y[2] < Limit}}

\* Mutant: what the bundle shows already is not rendered again.
MergeResultsOnce ==
  /\ phase = "merging" /\ phase' = "planning"
  /\ bundle' = [f \in Shown |-> IF bundle[f] = {} THEN Visible(f) ELSE bundle[f]]
  /\ UNCHANGED <<plan, sends, branch, finished, acc, dispatched, crashes>>

\* merge_results_node: build_evidence_bundle() of all passes so far, in place of the
\* bundle before, which stays when the node fails.
MergeResults ==
  /\ phase = "merging" /\ phase' = "planning"
  /\ bundle' \in {bundle, [f \in Shown |-> Visible(f)]}
  /\ UNCHANGED <<plan, sends, branch, finished, acc, dispatched, crashes>>

Gather == Dispatch \/ (\E i \in DOMAIN branch : Start(i) \/ Finish(i)) \/ Join \/ MergeResults

Next == Planner \/ Gather \/ Crash \/ Resume

Spec == Init /\ [][Next]_vars

\* The thread that called invoke() and the executor's threads keep running.
FairSpec == Spec /\ WF_vars(Gather)

-----------------------------------------------------------------------------
(* How far a pass is from its end. *)

Unstarted  == {i \in DOMAIN branch : branch[i].at = "waiting"}
Unfinished == {i \in DOMAIN branch : branch[i].at # "done"}

\* The steps ahead of a pass that has its plan: each branch starts and ends, then their
\* writes are joined and rendered.
StepsLeft ==
  CASE phase = "dispatching" -> 2 * Len(Sends) + 3
    [] phase = "gathering"   -> Cardinality(Unstarted) + Cardinality(Unfinished) + 2
    [] phase = "merging"     -> 1
    [] OTHER                 -> 0

-----------------------------------------------------------------------------
(* Properties. *)

Tags == [pass : 1..MaxPasses, task : Nat \ {0}]

TypeOK ==
  /\ phase \in {"planning", "dispatching", "gathering", "crashed", "merging"}
  /\ plan \in Plans \cup {NoPlan} /\ sends \in Plans \cup {NoPlan, <<GeneralReview>>}
  /\ \A i \in DOMAIN branch : /\ branch[i].at \in {"waiting", "running", "done"}
                              /\ branch[i].wrote \subseteq Fields
  /\ DOMAIN branch = DOMAIN sends
  /\ DOMAIN acc = Fields /\ \A f \in Fields : Entries(f) \subseteq Tags
  /\ \A f \in Shown : bundle[f] \subseteq [entry : Tags, line : 1..Batch(f)]
  /\ Len(dispatched) <= MaxPasses /\ crashes \in 0..MaxCrashes

\* The passes whose branches have been merged.
Merged == IF phase \in {"gathering", "crashed"} THEN Len(dispatched) - 1 ELSE Len(dispatched)
MergedTasks == UNION {{[pass |-> p, task |-> i] : i \in 1..dispatched[p]} : p \in 1..Merged}

\* No evidence goes missing: every pass dispatches something, and every task of a
\* merged pass is in the audit trail with either its finding or its error, whoever
\* of its siblings failed and however often the pass was replayed.
EveryTaskIsAccountedFor ==
  /\ \A p \in DOMAIN dispatched : dispatched[p] > 0
  /\ Entries("execution_history") = MergedTasks
  /\ Entries("reasoning") \cup Entries("errors") = MergedTasks

\* A branch that failed left no evidence behind: nothing the analyst reads comes
\* from a task that errors reports as failed.
FailedBranchesLeaveNoEvidence ==
  \A f \in Fields \ {"errors", "execution_history"} : Entries(f) \cap Entries("errors") = {}

Before(e1, e2) == e1.pass < e2.pass \/ (e1.pass = e2.pass /\ e1.task < e2.task)

\* The merged state does not depend on which thread was faster, and nothing in it
\* is counted twice: each field is strictly ordered by pass and by task.
MergeIsOrderedOnce ==
  \A f \in Fields : \A j, k \in DOMAIN acc[f] : j < k => Before(acc[f][j], acc[f][k])

\* A pass that has begun is merged, unless the process dies under it.
GatheringEnds == phase = "gathering" ~> phase \in {"merging", "crashed"}

\* What GatheringEnds rests on: a pass has steps left until it is rendered or the process
\* dies, no more than two for each of its tasks and two at its end, and each step, of
\* whichever branch, leaves fewer.  Only the next plan and a replay give it more.
PassesAreShort ==
  /\ [](/\ StepsLeft \in Nat
        /\ StepsLeft > 0 <=> phase \in {"dispatching", "gathering", "merging"}
        /\ phase = "gathering" => StepsLeft <= 2 * Len(sends) + 2)
  /\ [][/\ Gather => StepsLeft' < StepsLeft
        /\ StepsLeft' > StepsLeft => Planner \/ Resume]_vars

\* What the bundle has of field f, and has in full.
Seen(f)  == {b.entry : b \in bundle[f]}
Whole(f) == {e \in Seen(f) : [entry |-> e, line |-> 1] \in bundle[f]}

\* Line l is as bad as any that the pod has logged.
IsWorst(l) == \A m \in DOMAIN LogLines(Pod) : LogLines(Pod)[m] <= LogLines(Pod)[l]

\* What the analyst reads is never a mixture, nor does it hide trouble: whatever the
\* number of branches, passes and crashes, a bundle has every finding of the passes up to
\* some pass, failed tasks apart; of the lines it has no room for only those of the oldest
\* entries of these passes, and only once the window is full, so that no evidence of a
\* later plan is displaced by that of an abandoned one; and of the logs it cuts into
\* still the worst line.
BundleIsUpToDate ==
  /\ \E p \in 0..Merged :
       /\ Seen("reasoning") = {e \in MergedTasks : e.pass <= p} \ Entries("errors")
       /\ \A f \in Shown : \A e \in Entries(f) :
            /\ e \in Seen(f) => e.pass <= p
            /\ e.pass <= p /\ e \notin Whole(f) =>
                 /\ f \in Windowed /\ Cardinality(bundle[f]) = Limit
                 /\ \A d \in Whole(f) : Before(e, d)
  /\ \A e \in Seen("logs") :
       \E l \in DOMAIN LogLines(Pod) : IsWorst(l) /\ [entry |-> e, line |-> l] \in bundle["logs"]

=============================================================================
