------------------------------ MODULE ThreadRuns ------------------------------
(***************************************************************************)
(* Calls on one thread: the API's thread pool runs IncidentController      *)
(* methods concurrently, each of which drives the graph by invoke() on its *)
(* own copy of the thread's latest checkpoint.  Nothing serialises them.   *)
(*                                                                         *)
(* The graph is reduced to the super-steps that matter here:               *)
(* recall_memory, which registers the thread with its session, the         *)
(* investigation (the other nodes before the gate), the gate, and the tail.*)
(* invoke() executes a node, then commits a checkpoint; the process may    *)
(* crash in between, and with LangGraph's default asynchronous durability  *)
(* it may execute the next node before the commit of the last one.         *)
(***************************************************************************)
EXTENDS Naturals, FiniteSets

CONSTANTS
  Workers,       \* threads of Starlette's pool serving this thread_id
  MaxCalls,      \* bound: calls accepted over the thread's life
  MaxCrashes     \* bound: process crashes

ASSUME BoundsAssumption == MaxCalls \in Nat /\ MaxCrashes \in Nat
\* Starlette's pool has forty threads.
ASSUME WorkersAssumption == IsFiniteSet(Workers)

VARIABLES
  ckpt,      \* the latest checkpoint in the SQLite saver
  call,      \* what each worker is doing
  run,       \* each worker's in-memory copy of the thread
  saves,     \* save_memory executions: conversation lines, fix counts
  listed,    \* the thread is in session_threads, where /history looks
  drafts,    \* drafts that investigations have made so far, one each unless they fail to
  calls,     \* observer: calls accepted so far
  approvals, \* observer: approving calls accepted so far
  overlapped,\* observer: a call was accepted while another was being served
  crashes    \* observer: crashes so far

observed == <<calls, approvals, overlapped, crashes>>

effects == <<saves, listed, drafts>>

vars == <<ckpt, call, run, effects, observed>>

-----------------------------------------------------------------------------
Decisions == {"approve", "reject", "edit_plan", "modify_draft"}
Approving == {"approve", "modify_draft"}
Kinds     == Decisions \cup {"create", "resume"}
Nodes     == {"recall_memory", "investigation", "human_approval", "report_generator",
              "save_memory", "final_response", "END"}

\* Mutant: an edit is recorded under a name ApprovalStatus does not have.
StatusOfUnknown ==
  [approve |-> "approved", reject |-> "rejected",
   edit_plan |-> "edited", modify_draft |-> "modified"]

\* The ApprovalStatus each controller method sends.
StatusOf ==
  [approve |-> "approved", reject |-> "rejected",
   edit_plan |-> "modified", modify_draft |-> "modified"]

\* A thread: where it is, whether interrupt() is pending there, the resume value
\* stored with this checkpoint, approval_status, its draft_answer by the order in which the
\* investigations made them (0: none, or the human's own), and whether there is a report.
ThreadStates ==
  [next : Nodes, interrupted : BOOLEAN, answer : Decisions \cup {"none"},
   draft : 0..MaxCalls, report : BOOLEAN, status : {"pending", "approved", "rejected", "modified"}]

NoThread == [next |-> "none"]
Fresh    == [next |-> "recall_memory", interrupted |-> FALSE, answer |-> "none",
             draft |-> 0, report |-> FALSE, status |-> "pending"]

Idle == [at |-> "idle"]
CallStates ==
  {Idle} \cup
  [at : {"checked", "running"}, kind : Kinds, dirty : BOOLEAN]

Busy(w) == call[w].at # "idle"

Init ==
  /\ ckpt = NoThread /\ saves = 0 /\ listed = FALSE /\ drafts = 0
  /\ call = [w \in Workers |-> Idle]
  /\ run = [w \in Workers |-> NoThread]
  /\ calls = 0 /\ approvals = 0 /\ overlapped = FALSE /\ crashes = 0

-----------------------------------------------------------------------------
\* POST /incident: start_investigation() invokes the graph on a new thread_id;
\* invoke() checkpoints the input, but the first node need not wait for it.
Create(w) ==
  /\ calls = 0 /\ calls < MaxCalls
  /\ run' = [run EXCEPT ![w] = Fresh]
  /\ call' = [call EXCEPT ![w] = [at |-> "running", kind |-> "create", dirty |-> TRUE]]
  /\ calls' = calls + 1
  /\ UNCHANGED <<ckpt, effects, approvals, overlapped, crashes>>

\* The check every other method makes first: get_snapshot() finds a checkpoint.
\* It asks nothing about where the thread is, and holds nothing until invoke().
Check(w, kind) ==
  /\ ckpt # NoThread /\ ~Busy(w) /\ calls < MaxCalls
  /\ call' = [call EXCEPT ![w] = [at |-> "checked", kind |-> kind, dirty |-> FALSE]]
  /\ calls' = calls + 1
  /\ approvals' = approvals + IF kind \in Approving THEN 1 ELSE 0
  /\ overlapped' = (overlapped \/ \E v \in Workers : Busy(v))
  /\ UNCHANGED <<ckpt, run, effects, crashes>>

\* The stored resume value: a decision replaces it, invoke(None) leaves it.
Answered(w) == IF call[w].kind \in Decisions THEN [ckpt EXCEPT !.answer = call[w].kind] ELSE ckpt

\* Mutant: invoking a thread that has ended publishes it again.
InvokeTailAgain(w) ==
  /\ call[w].at = "checked"
  /\ ckpt' = Answered(w)
  /\ run' = [run EXCEPT ![w] = IF ckpt.next = "END"
                               THEN [ckpt EXCEPT !.next = "report_generator"]
                               ELSE [ckpt' EXCEPT !.interrupted = FALSE]]
  /\ call' = [call EXCEPT ![w].at = "running"]
  /\ UNCHANGED <<effects, observed>>

\* invoke(Command(resume=...)) or invoke(None): load the latest checkpoint and
\* store the decision with it.  A thread that has ended has nothing to run.
Invoke(w) ==
  /\ call[w].at = "checked"
  /\ ckpt' = Answered(w)
  /\ run' = [run EXCEPT ![w] = [ckpt' EXCEPT !.interrupted = FALSE]]
  /\ call' = [call EXCEPT ![w].at = "running"]
  /\ UNCHANGED <<effects, observed>>

\* One super-step of the worker's copy; the next checkpoint has no resume value.
Step(w, thread) ==
  /\ call[w].at = "running" /\ ~run[w].interrupted
  /\ run' = [run EXCEPT ![w] = [thread EXCEPT !.answer = "none"]]
  /\ call' = [call EXCEPT ![w].dirty = TRUE]
  /\ UNCHANGED <<ckpt, observed>>

\* recall_memory registers the thread, once however often it is replayed.  A failure of
\* the store before or after that is swallowed by run_node().
Recall(w) ==
  /\ run[w].next = "recall_memory"
  /\ Step(w, [run[w] EXCEPT !.next = "investigation"])
  /\ listed' \in {listed, TRUE}
  /\ UNCHANGED <<saves, drafts>>

\* A failing incident_resolution leaves the draft of the investigation before, if any:
\* run_node() swallows its exception.
Investigate(w) ==
  /\ run[w].next = "investigation"
  /\ drafts' \in {drafts, drafts + 1}
  /\ Step(w, [run[w] EXCEPT !.next = "human_approval",
                            !.draft = IF drafts' > drafts THEN drafts' ELSE @])
  /\ UNCHANGED <<saves, listed>>

\* Mutant: the interrupt is swallowed and the gate is tried again.
PauseSwallowed(w) ==
  /\ run[w].next = "human_approval" /\ run[w].answer = "none"
  /\ Step(w, run[w])
  /\ UNCHANGED effects

\* interrupt() with no resume value pauses the run.
Pause(w) ==
  /\ run[w].next = "human_approval" /\ run[w].answer = "none"
  /\ Step(w, [run[w] EXCEPT !.interrupted = TRUE])
  /\ UNCHANGED effects

\* The brief is built again each time the node runs; human_approval_node has no
\* run_node() around it, and a provider error there, or a brief that is None, ends the call.
BriefFails(w) ==
  /\ call[w].at = "running" /\ ~call[w].dirty
  /\ run[w].next = "human_approval" /\ ~run[w].interrupted
  /\ call' = [call EXCEPT ![w] = Idle] /\ run' = [run EXCEPT ![w] = NoThread]
  /\ UNCHANGED <<ckpt, effects, observed>>

\* Mutant: whatever the decision, the run goes on to the report.
AfterGateAlwaysReport(decision) == "report_generator"

\* Mutant: proceeds_to_report forgets the modified draft.
AfterGateForgettingEdits(decision) ==
  CASE decision = "approve"   -> "report_generator"
    [] decision = "edit_plan" -> "investigation"
    [] decision \in {"reject", "modify_draft"} -> "final_response"

AfterGate(decision) ==
  CASE decision = "approve"   -> "report_generator"
    [] decision = "reject"    -> "final_response"
    [] decision = "edit_plan" -> "investigation"
    [] decision = "modify_draft" -> "report_generator"

\* interrupt() returns the decision: Command(goto, update).
Decide(w) ==
  /\ run[w].next = "human_approval" /\ run[w].answer # "none"
  /\ Step(w, [run[w] EXCEPT !.next = AfterGate(run[w].answer),
                            !.status = StatusOf[run[w].answer],
                            !.draft = IF run[w].answer = "modify_draft" THEN 0 ELSE @])
  /\ UNCHANGED effects

\* run_node() swallows the exception of a report that cannot be written.
Report(w) ==
  /\ run[w].next = "report_generator"
  /\ \E report \in {run[w].report, TRUE} :
       Step(w, [run[w] EXCEPT !.next = "save_memory", !.report = report])
  /\ UNCHANGED effects

\* The writes of save_memory are outside the checkpoint.
Save(w) ==
  /\ run[w].next = "save_memory"
  /\ Step(w, [run[w] EXCEPT !.next = "final_response"])
  /\ saves' = saves + 1
  /\ UNCHANGED <<listed, drafts>>

Respond(w) ==
  /\ run[w].next = "final_response"
  /\ Step(w, [run[w] EXCEPT !.next = "END"])
  /\ UNCHANGED effects

\* The checkpoint of the last step reaches the database and becomes the latest.
Commit(w) ==
  /\ call[w].at = "running" /\ call[w].dirty
  /\ ckpt' = run[w]
  /\ call' = [call EXCEPT ![w].dirty = FALSE]
  /\ UNCHANGED <<run, effects, observed>>

\* invoke() returns once the run has paused or ended and its commits are done.
Return(w) ==
  /\ call[w].at = "running" /\ ~call[w].dirty
  /\ run[w].interrupted \/ run[w].next = "END"
  /\ call' = [call EXCEPT ![w] = Idle] /\ run' = [run EXCEPT ![w] = NoThread]
  /\ UNCHANGED <<ckpt, effects, observed>>

\* The process dies: every run in it is lost, the database is not.
Crash ==
  /\ crashes < MaxCrashes /\ crashes' = crashes + 1
  /\ call' = [w \in Workers |-> Idle] /\ run' = [w \in Workers |-> NoThread]
  /\ UNCHANGED <<ckpt, effects, calls, approvals, overlapped>>

Serve(w) ==
  \/ Invoke(w) \/ Recall(w) \/ Investigate(w) \/ Pause(w) \/ Decide(w) \/ Report(w)
  \/ Save(w) \/ Respond(w) \/ BriefFails(w) \/ Commit(w) \/ Return(w)

Next ==
  \/ \E w \in Workers :
       Create(w) \/ Serve(w) \/ (\E kind \in Kinds \ {"create"} : Check(w, kind))
  \/ Crash

Spec == Init /\ [][Next]_vars

\* The pool schedules every worker that has something to do.
FairSpec == Spec /\ \A w \in Workers : WF_vars(Serve(w))

-----------------------------------------------------------------------------
TypeOK ==
  /\ ckpt \in ThreadStates \cup {NoThread}
  /\ call \in [Workers -> CallStates]
  /\ run \in [Workers -> ThreadStates \cup {NoThread}]
  /\ saves \in Nat /\ listed \in BOOLEAN /\ drafts \in 0..calls
  /\ calls \in 0..MaxCalls /\ approvals \in 0..calls
  /\ overlapped \in BOOLEAN /\ crashes \in 0..MaxCrashes

\* However calls interleave and crashes fall, memory is written only for a thread
\* somebody approved: the gate survives replays and stale copies.
NoSaveWithoutApproval ==
  (saves > 0 \/ \E w \in Workers : run[w] # NoThread /\ run[w].report) => approvals > 0

\* Every call is answered, unless the process dies under it.
CallsAreAnswered == \A w \in Workers : Busy(w) ~> ~Busy(w)

\* The super-steps that are ahead of a copy, at most: four after an approval, and an
\* edited plan or a resumed investigation ends at the gate again.
StepsAhead(t) ==
  IF t.interrupted THEN 0
  ELSE CASE t.next = "END"            -> 0
         [] t.next = "final_response" -> 1
         [] t.next = "human_approval" -> IF t.answer = "none" THEN 1 ELSE 4
         [] t.next \in {"investigation", "save_memory"}      -> 2
         [] t.next \in {"recall_memory", "report_generator"} -> 3

\* ... and the steps of a call k that holds it: each of those may be committed, then it
\* returns.
StepsIn(k, t) ==
  CASE k.at = "checked" -> 10
    [] k.at = "running" -> 2 * StepsAhead(t) + IF k.dirty THEN 2 ELSE 1
    [] k.at = "idle"    -> 0

StepsLeft(w) == StepsIn(call[w], run[w])

\* A call takes ten steps at most, whatever others do to the thread meanwhile: each of
\* its steps leaves fewer, and nothing but a new call of its worker adds any.
CallsAreShort ==
  /\ [](\A w \in Workers : StepsLeft(w) \in 0..10)
  /\ [][\A w \in Workers : /\ Serve(w) => StepsLeft(w)' < StepsLeft(w)
                           /\ Busy(w) => StepsLeft(w)' <= StepsLeft(w)]_vars

Rejected == ckpt # NoThread /\ ckpt.next = "END" /\ ckpt.status = "rejected"

\* Calls that follow one another, whatever their order, kind and number, save once.  A
\* death of the process has the steps taken again that were not committed, save_memory
\* among them: it adds one save at most, and only such a one can be on record for a thread
\* that ends rejected.  A client that waits for each answer may retry or repeat any call.
SerialCallsAreSafe ==
  ~overlapped => saves <= crashes + 1 /\ (Rejected => saves <= crashes)

\* Whatever overlaps and crashes, a thread that ends rejected has no report, and none ends
\* accepted without having gone through save_memory: what is replayed may be repeated, but
\* it is not left out.
EndsAsDecided ==
  ckpt # NoThread /\ ckpt.next = "END" =>
    IF Rejected THEN ~ckpt.report ELSE saves > 0

=============================================================================
