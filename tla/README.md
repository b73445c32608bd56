# Verification of the Enterprise Incident Resolution Agent

The program (`incident_agent/`) investigates an operations incident with a
LangGraph workflow of LLM agents, puts the resolution it drafted before a human,
and, only if the human accepts it, writes a report, stores it in long-term memory
and answers the user.  An API serves it to several clients at once, a SQLite
checkpointer makes a paused investigation survive a restart, and every agent and
tool may fail without stopping the rest.

This directory holds TLA+ models of that program, the configurations with which
TLC checks them, and proofs checked by TLAPS.  `PROJECT.json` is the index: which
definition models which lines, which run checks which property, which mutation of
the model breaks it, and which hazards of the code the properties are for.

## 1. The system

| component | state it keeps | operations | talks to |
|---|---|---|---|
| Workflow graph (`graphs/main_graph.py`, `edges/`, `nodes/`) | `IncidentState`: answer fields, `confidence_score`, `critic_feedback`, `retry_count`, `approval_status`, `metadata`, accumulating audit fields | one node per step; two conditional edges; the `Command` of `human_approval` | agents, evidence subgraph, memory service |
| Evidence subgraph (`graphs/evidence_subgraph.py`, `edges/evidence_routing.py`, six evidence nodes) | a state of its own during a pass, nine accumulating fields | fan-out with `Send`, six kinds of branch, merge | tools, agents; returns deltas to the graph |
| Controller and API (`controllers/`, `api/routers/`, `services/checkpointer.py`) | none in memory: each thread's checkpoints in SQLite | create, get, resume, approve, reject, edit plan, substitute draft, list history | graph by `invoke()`; called from a thread pool |
| Memory service (`memory/`) | Chroma collection of episodes; SQLite tables of summaries, fixes, threads, preferences, on one connection shared by all threads | register, recall, persist incident, append line, count fix | nodes `recall_memory` and `save_memory` |
| Agents and LLM factory (`agents/`, `services/llm_factory.py`, `nodes/agent_cache.py`) | cached clients | `invoke()` with retry and provider fallback | LLM providers |
| Mock database, vector store (`services/`) | seeded SQLite file, Chroma collection | lazy creation and seeding, read-only queries, search | tools |
| Simulated infrastructure (`tools/kubernetes_tool.py`, `kafka_tool.py`, `postgres_tool.py`, `redis_tool.py`, `metrics_collector.py`, `utils/mock_data.py`) | none: the state of a component is drawn from the hash of its name | pod, broker, connection and memory snapshots, logs, events, metric series | log and metrics branches |
| Python REPL (`tools/python_repl.py`) | the process's `sys.stdout` while a snippet runs in a thread of its own | validate, run redirected, join with a timeout, abandon | no node or agent: the registry of general-purpose tools and the tests |
| Other tools (`tools/`) | none but the file sandbox | structured success or error | evidence nodes, or nobody |
| Review UI (`ui/streamlit_app.py`) | the last status of one thread, the session id | start, approve, reject, resume, refresh, history; a request is given up after six minutes | API |
| Formatting (`nodes/formatting.py`) | `metadata.evidence_bundle`, written by `merge_results` | renders the accumulated evidence, of logs and metrics the last thirty lines | analyst, Validator, Critic |
| Prompts, schemas, models, configuration, logging | data and text | | |

What each of them has to get right, and what makes it hard:

* **Workflow graph.**  Nothing is published without a human's acceptance of the
  very draft that is published; a rejection leaves no trace; the retry loop is
  bounded and gives up for a reason; what the human is shown is either of this
  pass or reported as failed.  Hard because every node may fail and leaves its
  field as an *earlier* pass wrote it, because the edges read those fields, because
  `retry_count` has two writers with different rules, and because an edited plan
  re-enters the investigation with `approval_status` already `modified`.
* **Controller.**  Calls on one thread are not serialised; each loads the latest
  checkpoint and drives its own copy.  `get_snapshot()` checks and `invoke()` uses
  at different times.  A process crash replays the step that had not been
  committed, and `save_memory` writes outside the checkpoint.
* **Evidence subgraph.**  Branches end in any order, fail one by one, and are
  partly replayed after a crash; the merge must depend on none of it.
* **Memory.**  A SQLite transaction belongs to the connection, not to the thread:
  any thread's commit publishes what the others have executed, nobody rolls back,
  and the conversation summary is read in one statement and written in another.
* **Agents.**  A retry around a chain of fallbacks, under providers that go down and
  recover between two requests; of the three bad ends it can come to, two errors and a
  `None` in place of an answer, every node catches all and `human_approval` one.
* **Stores.**  Created and seeded by whoever comes first: a singleton under `lru_cache`
  is cached, but several first callers may compute it at once, and a crash or a failure
  in between leaves what they have done so far.
* **Review UI.**  A decision names the thread and nothing of the draft that was on the
  screen.  The screen is the status of some earlier moment, read in a task of its own after
  the route's run had returned; answers get lost while their runs go on; a second client
  moves the thread under the first one's buttons.
* **Python REPL.**  `redirect_stdout` replaces a stream that all threads share, restores
  what it *found*, and a snippet abandoned on timeout does so at a time of its own.
* **Simulated infrastructure.**  Tools that share nothing must tell one story about a pod.
* **Formatting.**  What the analyst reads is a window over evidence of several passes, in a
  cached text that a failed `merge_results` leaves as it was.

## 2. Modules

    ApprovalGate                    abstract: investigate, decide, then have effects
      ^ refined by
    IncidentGraphRefinement  --->   IncidentGraph          one thread, node by node
      ^ EXTENDS        ^ EXTENDS
    MCIncidentGraph    IncidentGraphProofs

    ApprovalGate
      ^ refined by, while calls follow one another
    ThreadRunsGate       <- MCThreadRuns, ThreadRunsProofs
      v EXTENDS                                ^ EXTENDS
    ThreadRuns                                                   calls on one thread, crashes
      ^ EXTENDS
    ReviewDesk           <- MCReviewDesk, ReviewDeskProofs       the people in front of it

    ThreadLife           <- IncidentGraphRefinement, ThreadRunsGate        where both agree

    Infrastructure                                               what the tools make of a name
      ^ EXTENDS
    EvidenceGathering    <- MCEvidenceGathering, EvidenceGatheringProofs   fan-out and merge

    MemoryStore          <- MCMemoryStore, MemoryStoreProofs     several threads, one connection
    SeededStores         <- MCSeededStores, SeededStoresProofs   first use of the stores
    AgentCall            <- MCAgentCall, AgentCallProofs         agents and providers
    PythonRepl           <- MCPythonRepl, PythonReplProofs       snippets and the shared stream

The detailed modules look at the same run at several scales.  `IncidentGraph` has every node and
no concurrency: inside one run LangGraph executes super-steps in sequence, so a step of the
model is a step of the graph.  `ThreadRuns` shrinks the investigation to one step and adds what
happens *around* a run: concurrent calls, checkpoints, crashes.  That the shrunken investigation
is the graph's own is not left to the eye: `ThreadLife` says in pure operators which stage,
status and report may follow which, the run of `IncidentGraph` is proved to lead such a life
(`RunLives`), and so is every copy in `ThreadRuns` (`CopiesLive`).  `ReviewDesk` adds the
clients that make those calls, and what they see; every behaviour of it is one of `ThreadRuns`
(theorem `DeskKeepsToRuns`). `EvidenceGathering` opens the one node of the graph that is
parallel inside, and the rendering of what comes out of it.  `MemoryStore` opens the two nodes
whose effects are shared between threads, statement by statement.  `SeededStores`,
`Infrastructure` and `PythonRepl` open the tools, where they meet the tools of other branches
and threads, and `AgentCall` the call of an agent that nearly every node makes.  What each of
them shows is what the others take for granted: that an agent's call ends in an answer or in an
error (`AgentCall`), that a tool ends in rows, no rows, an error or an exception
(`SeededStores`), that a pass ends in one ordered merge and a bundle of whole passes
(`EvidenceGathering`), that `save_memory`'s flag means what it says and that what
`recall_memory` puts into the state is true (`MemoryStore`).

### IncidentGraph, IncidentGraphRefinement, ApprovalGate

State and code:

| variable | code |
|---|---|
| `node` | `snapshot.next`; `awaiting_human` is the pending `interrupt()` |
| `art` | `plan`, evidence bundle, `root_cause`, `draft_answer`, validation, `critic_feedback`, each by age: `none`, `current` (written in this pass), `stale` |
| `confidence`, `scored_by` | `confidence_score` on a finite scale, and (observer) who wrote it |
| `approves` | `critic_feedback.approve`, true when there is none |
| `retry_count`, `should_replan`, `edits` | `retry_count`, `metadata.last_reflection_should_replan`, (observer) plan edits |
| `approval_status`, `reviewed` | `approval_status`; (observer) a human saw or wrote the present draft |
| `failed` | the nodes with an entry in `errors` since the pass began |
| `report`, `stored`, `final_answer` | `metadata.incident_report`, what `save_memory` wrote, `final_answer` |

A node and the conditional edge behind it are one action, because LangGraph
evaluates the edge on the state the node's super-step leaves.  An action that can
fail has a disjunct `Raises(n)`: `run_node()` turns the exception into an error entry
and writes nothing else.  What an agent answers is any answer: scores and verdicts
are chosen freely.  `Fallible`, the nodes that may raise, is a constant: proofs hold
for every subset, runs choose the ones that matter to their properties.

`reviewed` means that the brief of the present draft was built and the run paused on it.
That somebody then looked at it is another matter, which `ReviewDesk` takes up.

`ApprovalGate` says what users are promised: investigate, decide, and effects only
after acceptance, none after refusal.  Under the mapping of
`IncidentGraphRefinement`, `approval_status` is a verdict only once the gate has been
passed; before, `modified` merely says that a plan was edited.

`NodesAhead` counts the nodes a run has still to go through before it rests, on the way on
which every Critic sends it back.  `RunsAreShort` says that every node brings it nearer: eight
nodes for each attempt that `max_replan_attempts` allows and three more, 27 with the
default of three.  No caller sets LangGraph's `recursion_limit`, so its default has to
allow for that many super-steps.

### ThreadRuns, ThreadRunsGate, ThreadLife

`ckpt` is the latest checkpoint, `call[w]` what worker `w` of Starlette's pool is doing,
`run[w]` its in-memory copy of the thread, `saves` the executions of `save_memory`, `listed`
whether the thread is in its session's history, `drafts` the drafts made so far, by which they
are told apart: an investigation makes one, unless `incident_resolution` fails and `run_node()`
leaves the earlier draft in place.  `Check` is `get_snapshot()`; `Invoke` loads the checkpoint
again and stores the decision with it (LangGraph writes a resume value as a pending write of the
checkpoint it resumes, and it is gone with the next); `Recall`, `Investigate`, `Pause`,
`Decide`, `Report`, `Save`, `Respond` are super-steps of the copy; `Commit` makes the last one
durable.  As LangGraph's default durability is asynchronous, the next step may run before
`Commit`.  `BriefFails` is the exception `human_approval_node` does not catch, or that of a
brief that is `None`, where `run_node()` swallows that of a report that cannot be written;
`Crash` loses everything but the checkpoint and the saves.

`ThreadRunsGate` maps a thread to `ApprovalGate`: while calls do not overlap, there is one
life to look at, the copy of the call at work or, between calls, the checkpoint.
`SerialCallsKeepToTheGate` says that the thread is then a gate, step by step: no call,
repeated, refused or failing, decides twice, repeats an effect or has one after a rejection.
A death of the process does repeat effects: `SerialCallsAreSafe` counts the saves against the
deaths, and `EndsAsDecided` says what holds of an ended thread whatever has happened to it.

### ReviewDesk

`screen[c]` is what client `c` shows: the `StatusResponse` it was last given (`last_status` in
the UI), reduced to where the thread is, whether a brief is pending and of which draft, and
the decision.  `desk[c]` says which worker is serving the client, or that its controller
method has returned and the route has yet to read the status (`Answer`, a second task of
the pool).  `Offers` are the buttons of `_render_status()`; the editing calls of `/approve`
have none in the UI and belong to other HTTP clients, `Scripts`.  `Look` is `GET /status`,
by the thread on the screen or found through `GET /history`; an entry of a thread without
checkpoint is listed and answers 404.  `Lose` is an answer that does not arrive although
the run goes on: the client's timeout, or a click elsewhere, which stops Streamlit's script.
`Error` is the 500 page of the application's exception handler.  The observers `fresh` and
`shown` say whether a screen was taken when no call was being served, and what a client
had before it when it sent its call.

### EvidenceGathering

`sends` is the list of `Send`s of a pass, `branch[i]` the progress of each and the set
of fields it contributed to, `acc` the accumulating fields of the parent.  An entry is
its origin, the pass and the task.  What a branch may contribute is read off its node
and its tools' failures (`LogAnalysis`, `MetricsAnalysis`, ...), and `run_node()`
replaces all of it by an error if the agent raises.  `Join` is the end of the
super-step: LangGraph applies writes in `Send` order, the subgraph starts from empty
accumulators, and `invoke_evidence_subgraph` returns them for the parent's reducers
to append.  After `Crash`, `Resume` may keep any subset of the branches that had
ended.  `MergeResults` then renders the accumulators into `bundle`, as sets of lines:
`Visible` keeps the last `Limit` lines of logs and metrics, where an entry stands for all the
lines one tool call returned (`Batch`: a pod's log, a metric series), and everything of the
other fields.  If the node fails the bundle of the pass before stays.

### Infrastructure

Pure operators: the scenario of a name, and what each tool reports of it.  The hash that
draws it is not modelled, any name may have any scenario; formatting and the random digits
in a report are left out.  A metric series is the ramp of `_generate_series()` in integers,
scaled by 20 times its number of steps, with the interval its noise may cover.
`EvidenceGathering` uses the pod's log lines, the sample count and which categories have a
snapshot tool.

### MemoryStore

`view` is what statements on the shared connection see, `durable` what a restart
finds; `Commit` of *any* run makes the whole view durable, and `Raise` rolls nothing
back.  `GetSummary` and `UpsertSummary` are the two statements of
`append_incident()`, `RecordFixUsage` the single one of `record_fix_usage()`.  Before its
investigation a run executes `recall_memory`: `Register` and its commit, then
`FindSimilar` on the episodes and `GetConversation` on the tables, at different
times.  Runs in `Rejected` go past `save_memory`.  A text
is a sequence of units and its limit is in units, so that cutting is modelled by what
it does.  All incidents have the same fix, the case in which they contend.

### SeededStores

`exists` and `tables` are the database file and how many of its tables have been
created, `seeds` how often the rows have been committed, `documents` whether the
corpus is in the collection, `cached` the stores whose `lru_cache` holds a result.
`call[c]` is one tool's progress through `get_connection()` or
`get_vector_store_service()` and its query.  `sqlite3.connect()` creates the file at once
(`Connect`), `executescript()` commits each `CREATE TABLE` by itself (`CreateTable`), the
`executemany()` calls and their `commit()` are one transaction (`InsertRows`).  The two
stores differ in their guard: the database is seeded if its *file* was not there, the
collection if it has no *documents*; the first is right about doubling and wrong about
crashes and second callers, the second is right about all of them because an upsert
may be repeated.  Opening the collection, loading the embedding model, counting and writing
may raise (`CountDocuments`, `UpsertCorpus`), the last before or after its write: nothing is
cached then, and the exception leaves the tool (`raised`).  The search itself may fail with a
structured error.  Of the mock database only the failures that its script makes itself
are modelled; those of SQLite other than by a crash are not.

### AgentCall

`configured` is the set of providers with credentials, `up` those that would answer now,
`call[c]` the stage of a node's call: building the agent (`GetAgent`), asking provider
`asked` in attempt `attempt`, waiting for the next attempt, ended.  `Wired`, `After` and
`AfterAttempt` are the chain that `build_structured_llm()` composes; `FallsBack` and
`Retry` are LangChain's `with_fallbacks()` and `with_retry()` executing it.  `Failure` is
what the caller makes of a bad end: an entry of `errors` under `run_node()`, a plain brief
in `human_approval` for `AgentExecutionError`, an exception out of the graph for
`LLMProviderNotConfiguredError`.  A provider that is not up raises or returns `None`
(`AnswersNone`), as `with_structured_output()` may for a reply without an instance; the chain
takes that for an answer, and `human_approval` raises on it, outside of its `try`.  The
observer `steady` is the set of providers that have been up since the present *attempt*
began, so that what is said of it is said of each attempt anew.

### PythonRepl

`stdout` is `sys.stdout`, the console or the buffer of a call; `caller[c]` and `snippet[c]` are
the thread that called the tool and the daemon thread it started; `saved[c]` is what
`redirect_stdout` found on entry.  `buffer[c][d]` counts the units of call `d`'s output in
call `c`'s buffer, so output in the wrong place is told from missing output.  `GiveUp` is
`join()` running into its timeout, which may happen or not: it cannot while a built-in
keeps the interpreter's lock.  The abandoned snippet goes on, `Exit` restores `saved`
whatever has happened to the stream meanwhile.  The observer `disturbed` marks calls
whose redirection overlapped another one.

## 3. Runs

Expected to pass:

| run | instance | shows |
|---|---|---|
| `graph_safety` | 2 replans, 1 plan edit, scores {0, 1}, every node under `run_node()` fallible | the human gate, the clean rejection, the audit of stale answers and of unvalidated scores, that the retry loop gives up only for a reason; that a run implements `ApprovalGate`; that it comes to rest at the gate or END unless Reflection keeps failing, and that a decision is carried through to END |
| `calls_safety` | 2 workers, 3 calls, 1 crash | no save and no report without an approval; while calls do not overlap and the process lives, the thread is an `ApprovalGate`, whatever the calls, and each crash adds one save at most; however calls overlap, what ends rejected has no report and what ends accepted has been saved; calls are answered |
| `desk_safety` | 2 clients of which one edits, 2 workers, 3 calls, 1 lost answer, 1 crash | a decision taken on a fresh screen and left alone is the one the gate receives, about the draft shown; when its call returns the thread has ended as decided or, after an edited plan, waits at the gate with that draft or a later one |
| `evidence_safety` | 3 plans of 2-3 tasks, 2 passes, 1 crash, window of 10 lines | every task accounted for, failed branches leave no evidence, deterministic merge, a bundle of whole passes that loses the oldest lines first, passes end |
| `memory_safety` | 3 incidents of 2 sessions, one of them rejected, 1 failure, 1 crash, cap of 1.5 lines | what `memory_persisted` stands for is durable, fixes are counted, no line without its episode, what a run recalls is past, true and legible |
| `stores_safety` | 3 callers, 2 tables, 4 calls, 1 crash | rows are inserted at most once; unless the process dies some caller completes the database's seeding; whatever fails on the way, a search ends with rows or a failure and never answers from an empty knowledge base |
| `agent_calls` | 2 callers, 3 providers of which any are configured, 2 attempts, 3 outages | an attempt fails only after every wired-in provider has been down during it, a call gives up only after its last attempt; each attempt keeps the order of preference; every node goes on, but the human gate raises without a provider or with `None` for its brief |
| `repl_calls` | 3 calls, 1 unit of output each | a call that shared its redirection with none returns exactly its own output; where none overlapped the console comes back |

Expected to find a violation, each a disagreement between the code and what its own
documentation says of it (quoted in `PROJECT.json`, "findings"):

| run | shows |
|---|---|
| `graph_replan_loop` | a Reflection that keeps failing is never counted and defaults to replanning: the cycle the documents call always terminating does not reach the human |
| `desk_unseen` | an approval from a screen that is out of date publishes a draft its client was never shown |
| `memory_lost_line` | two incidents of a session that save together: one line is lost |
| `stores_unseeded` | a second first caller, or the first one after a crash, gets and caches a connection to a database without tables or rows |

In reality LangGraph ends the loop of `graph_replan_loop` by its recursion limit,
with an exception out of `invoke()`; the human is not reached then either.

**Why the bounds are enough.**  `graph_safety`: two replans are the least for which the first, a
middle and the last reflection differ; one edit is enough for a count beyond the limit and for
`modified` during a new pass; a threshold of 1 on {0, 1} separates the only two outcomes the
edges tell apart. The proofs of section 5 remove these bounds for the safety properties.
`calls_safety` and `desk_safety`: create, two racing decisions, or a decision and a retry of it,
are the longest stories the documentation's claims involve; one crash falls at every point of
them, one lost answer leaves a screen behind. Exchanging the workers changes nothing, which
`desk_safety` uses: it checks an invariant and action properties only, for which symmetry is
sound.  Its VIEW leaves out what neither a guard nor a property of the run reads: the observers
`saves`, `approvals` and `overlapped`, what was shown for calls that are over, and of a screen
all but whether it is at the gate, with which draft, or at the end.  Two states with the same
view have the same steps up to the view, and the same truth of every property, so dropping the
rest is sound.  The proofs remove these bounds too. `evidence_safety`: three branches give every
order of completion, two passes show that a later pass neither loses nor repeats an earlier
one.  The pod is the one with the longest log, of four lines, and a metric series has fifteen; a
window of ten lines in place of the code's thirty therefore cuts both inside a batch and between
batches within two passes. `memory_safety`: contention needs two runs, and a third of the first
one's session recalls what they leave; a failure and a crash leave an open transaction and take
it back; the cap makes the second line of a session cut the first. `stores_safety`: two callers
race and a third comes when they are half done; two tables are the least for which a script can
fail between them; a fourth call finds what the crash has left.  `agent_calls`: three outages
are the least that exhaust three providers, two attempts let a provider recover between them,
the second caller's calls start in any stage of the first one's.  `repl_calls`: with three calls
one snippet is abandoned inside another's redirection while a third begins; one unit is enough
to be in the wrong buffer.

**Deadlock** is not checked: in each module the system comes to a legitimate end
(END reached, calls used up, passes used up, all incidents saved or rejected, every
snippet over).

## 4. Fairness

* `IncidentGraph!FairSpec`: weak fairness of `RunNode` as a whole.  The thread
  inside `invoke()` runs node after node without waiting for anyone.  No fairness for
  the human: at the gate a run may rest for ever.
* `ThreadRuns!FairSpec`: weak fairness of each worker's `Serve`.  A thread of the pool
  that has a request keeps being scheduled.  No fairness for new calls or crashes.
* `EvidenceGathering!FairSpec`: weak fairness of `Gather`.  The executor's threads keep
  running, and a branch's agent and tools return or raise (their clients have
  timeouts).  None for the `Planner` (the graph's choice) or `Resume` (somebody must
  call it).
* `PythonRepl` has none: a snippet may loop for ever, and one that does so inside a built-in
  keeps its caller too.  Only safety is checked of it.
* `SeededStores!FairSpec` and `AgentCall!FairSpec`: weak fairness of each caller's `Serve`. A
  tool's thread keeps running, SQLite's busy timeout (assumed long enough for the other's script
  to end) and the providers' request timeout end every wait.  None for new calls, crashes,
  outages or recoveries.

## 5. Proofs

`IncidentGraphProofs` (TLAPS) proves, for all values of the constants that satisfy
`ConfigAssumption` (natural limits, a threshold on the scale, any set of fallible
nodes):

* `TypeCorrect`: `Spec => []TypeOK`.
* `GateHolds`, `RejectionIsClean`: from `GateInv`, which says what is settled at each
  node: before the gate nothing is published, at and after the pause the draft has
  been reviewed, in the publishing tail the decision is the one that leads there.
  The properties themselves are not inductive: a state with nothing published, an
  unreviewed draft and `node = "report_generator"` satisfies them and steps out.
* `RetriesBounded`: from `RetryInv`, which adds that a run at `reflection` has attempts
  left, so that its increment cannot pass the limit.
* `GivesUpForAReason`: `WeakDraftOnlyWhenGivenUp` is inductive as it stands, given
  `TypeOK`: the two edges that lead to the gate establish it, and no step at the gate
  changes what it reads.
* `StalenessReported`: from `AgeInv`, which says for every node which producers have
  already run in this pass and that each of them has either made its field current
  or is in `failed`.
* `ScoreReported`: from `AgeInv` too: a score that is not the Validator's stands at the
  edges only with the Validator in `failed`.
* `Refinement`: `Spec => Gate!Spec`, each action mapped to a step of `ApprovalGate`
  or a stutter, with `GateInv` for the verdict and the effects.
* `RunLives`: `Spec => RunLeadsTheLife`, from `TypeOK` alone, one step per node.
* `RunsEnd`: `Spec => RunsAreShort`, from `RetryInv`: each attempt still allowed is worth eight
  nodes, and the only node that goes back, Reflection, uses one up.  A failed Reflection uses
  none: the property leaves its steps out, and a run with one that keeps failing has no bound
  at all, as `graph_replan_loop` shows.

`SeededStoresProofs` proves, for any number of callers, tables, calls and crashes:

* `TypeCorrect`, and `NeverSeededTwice` from `SeedInv`: creating the first table is a
  claim that only one caller can ever make, so at most one caller is past it in the
  script, and rows are committed only by a caller that has passed it.  `seeds <= 1` alone
  says nothing about who may still insert.
* `CorpusIsThere` from `CorpusInv`: whoever has got past `seed_if_empty()` without an exception has
  seen, or written, the corpus, nothing removes it, and nothing is cached otherwise; so no
  search of the knowledge base is answered without rows.  It may well end in a failure.
* `SomebodySeeds` from `SeedInvariant`, of the mock database and until the process dies for the
  first time: a file without its rows has a caller that may still seed it.  The race is decided
  step by step: a caller loses its right only to the one that created the table first, which
  then has it.
* `CallsEnd`: a call takes at most `LastTable + 4` steps, whatever the others do to its store.

`AgentCallProofs` proves, for any callers, providers, retries, outages and credentials:

* `TypeCorrect`, which bounds the attempts; `SteadyProviderIsUsed` and `PreferenceHolds`
  from `StageInv`: in whichever attempt, every wired-in provider before the one being asked has
  been down at some moment of that attempt, all of them have once it has failed, and `steady`
  never holds a provider that is down now.  The last part is what makes a refusal count:
  without it a provider could refuse and still be called steady.
* `CallsEnd`: a call takes at most (`MaxRetries` + 1) (candidates + 1) + 1 steps.  A step either
  asks the next candidate of the same attempt or gives one of finitely many attempts up; lemmas
  on products of naturals say that the second is worth the whole chain.

`ThreadRunsProofs` proves, for any finite pool of workers (`WorkersAssumption`, which the
counting needs), any number of calls and of crashes:

* `TypeCorrect` and `ApprovalComesFirst` from `RunInv`.  An approval
  leaves a trace wherever it goes: `Accounted` says that without one no thread, in a
  checkpoint or in a copy, holds an approving answer or is on its way to the report.  The
  types are not inductive by themselves because drafts are bounded by calls: `Counted` counts
  the calls that may still lead to an investigation along with those that have.
* `SerialCalls` from `SerialInv`: while calls do not overlap a thread has one life, that of the
  copy of the only call at work or, between calls, that of the checkpoint.  The copy is
  ahead of the checkpoint only while the checkpoint has not ended, so what a call that raises
  leaves behind is never past the point where it started; `Settled` says how many saves a
  place of that life and the deaths so far allow: a death takes at most one save off the
  record of the thread, never off the store.
* `ThreadsEndAsDecided` from `PlacesInv`, which does not ask for serial calls: whatever overlaps
  and dies, `Placed` holds of the checkpoint and of every copy, what its place in the graph
  says of its status, its report and the saves.  So a thread that ends rejected has no
  report and none ends accepted around `save_memory`; what a race may leave behind is a save
  that the surviving checkpoint knows nothing of.
* `SerialCallsRefine`, on the same invariant: the initial states are initial states of
  `ApprovalGate`, and every step of a serial history is a step of it or a stutter.  A call that
  begins or returns exchanges the checkpoint for the copy or back; to the gate the two are
  alike, unless the decision that comes with the call puts the draft before the human again,
  or a failed brief leaves the gate to be tried once more.
* `CopiesLive`: between load and return a copy takes only the steps `ThreadLife` allows, those the
  graph takes, however calls overlap.  The report is made, and the status changed, nowhere
  else, in either module.
* `CallsEnd`: a call takes ten steps at most, each of them leaves fewer, and no other call and no
  crash adds any.

`ReviewDeskProofs` builds on it, for any clients, lost answers, calls and crashes:

* `DeskKeepsToRuns`: what the clients do, see and lose adds nothing to what a thread can do;
  `DeskApprovalComesFirst` follows.
* `DeskTypeCorrect`, `ScreensAreFollowed` and `DecisionsAreCarriedOut` from `DeskInv`, which
  follows one decision along its way.  A fresh screen is the checkpoint itself while no call
  is served (`FreshIsTrue`); a call sent from it and left alone is the only one there is
  (`Lonely`); and `Course` says at each station, from the call that was only checked over
  the stored answer and the gate to the node the decision leads to, what of the draft, the
  status is settled by then.  That a report is there only if it was accepted is `PlacesInv`.

`MemoryStoreProofs` proves, for any runs, sessions, failures and crashes, any line length and
any cap that holds a line:

* `TypeCorrect`, `EpisodesComeFirst` and `RecallSound` from `MemInv`.  A summary travels: it
  is read into a run, extended, trimmed, written, committed or taken back.  `Sound` is what has
  to hold of a text wherever it is: its incidents have their episodes, its lines are whole
  but the oldest.  `NotYet` adds that a run that may still recall has no episode, which
  is why nobody recalls itself.  Lemmas on concatenation and
  trimming carry wholeness along, from the library's theorems about sequences.
* `FixesAreCounted` from `FixInv`, for finitely many runs (`IncidentsAssumption`): an increment
  is in the tables once it is executed and durable once its run has returned, and every run that
  has begun to save and not counted yet still owes one.  What a crash takes back stays
  between the two bounds.
* `LinesAreKept` from `KeptInv`, where each session saves one incident (`OneSavePerSession`):
  a run past its write has its whole line in the tables, past its commit durably.  Elsewhere
  `EveryLineIsKept` fails, as `memory_lost_line` shows.

`PythonReplProofs` proves, for any number of calls and any amount of output:

* `TypeCorrect`, `LoneCallsExact`, `ConsoleReturns`: the stream is a lone call's buffer only
  while its snippet is inside, and no other snippet has saved that buffer to put it back later.
  The properties speak of the end of a call and say nothing of who may still write.

`EvidenceGatheringProofs` proves, for any plans, numbers of tasks, passes and crashes, any pod
and any size of the window:

* `TypeCorrect`, `TasksAreAccountedFor`, `FailuresLeaveNoEvidence`, `MergeIsOrdered` and
  `BundleIsSound` from `EvidenceInv`, of three parts.  `Dispatched` says what a branch that has
  ended may have written, however often it was replayed; without it nothing is known of what
  `Join` is going to merge.  `Ledger` is the accounting of the merged passes: every entry of a
  field is one of their tasks, the history has them all, reasoning and errors divide them.
  `Bundled` says that the bundle shows the first so many entries of each field, which are
  those of the passes up to one of them: it stands while `Join` makes the fields longer, and
  from it follows what the window may lose.  Lemmas: a finite set of numbers can be listed in
  order, and the lines of a full window are as many as its limit.
* `PassesEnd`: after its `Send`s a pass of N tasks takes N starts, N ends, the join and the merge;
  only a new plan or a resume adds to that.  Lemmas count the branches that have not
  started and those that have not ended, for any number of them.
* `PodToolsAgree`, `BrokerStatusAgrees` (tools that share nothing but the name tell one story),
  `CacheToolsAgree` (evictions are reported exactly where memory is short, but exactly where the
  policy is reported as one that evicts nothing), and `SeriesEndsInBreach`: for every window,
  interval, baseline and threshold a metric series begins within its threshold and ends beyond
  it.

`RetriesBounded` (`RetryCountBounded`), `RunLives`, `CopiesLive`, `RunsEnd`, the three
`CallsEnd`, `PassesEnd`, `SomebodySeeds` and the last four of
`EvidenceGatheringProofs` state what no run checks; TLC found no counterexample to any of them
on the instances of the runs.  `PodToolsAgree` is behind the claim of `BundleIsUpToDate` about
the worst line.

**What is left to TLC.**  Liveness under fairness speaks of ENABLED and stays model-checked.
What each liveness property rests on besides is proved for every value of the constants,
as a measure that every fair step lowers and no other actor raises:

| checked by TLC | its measure | proved as |
|---|---|---|
| `RestsUnlessReflectionKeepsFailing`, `DecisionIsCarriedOut` | `NodesAhead` | `RunsEnd` |
| `CallsAreAnswered` | `StepsLeft` of a call | `CallsEnd` of `ThreadRunsProofs` |
| `GatheringEnds` | `StepsLeft` of a pass | `PassesEnd` |
| `SeedingHasAWinner` | `StepsLeft` of the callers that may seed | `SomebodySeeds`, `CallsEnd` of `SeededStoresProofs` |
| `NodesGoOn` | `StepsLeft` of a call | `CallsEnd` of `AgentCallProofs` |

What TLC adds is that the fair step is enabled wherever the measure is positive.  The
refutations of section 3 are TLC's alone: they are about one behaviour each.

## 6. Assumptions about what is not in the repository

LangGraph (`>= 1.2`): super-steps; conditional edges read the state after the node's
writes; writes of parallel branches are applied in the order of their `Send`s; a
resume value is a pending write of the checkpoint it answers; checkpoints are written
asynchronously and `invoke()` returns when they are; an unfinished super-step is
replayed, its successful branches possibly from their pending writes.  SQLite: a
statement is atomic; a commit ends the connection's transaction.  Chroma: an upsert is
durable when it returns.  FastAPI: synchronous handlers run in a thread pool.
LangChain: `with_fallbacks()` and `with_retry()` handle every `Exception`; a chain over a
structured output raises when the output fails validation, and may return `None`, depending
on the library's version, when there is nothing to validate.  SQLite's busy timeout does not
run out while another caller creates the mock database.
Definitions that rest only on these are marked `external` in the map.

FastAPI's handlers and Streamlit's script are threads of their own; Streamlit stops a
running script when the person clicks elsewhere.  `contextlib.redirect_stdout` sets
`sys.stdout` on entry and restores what it found on exit, whatever the stream is by then.

Not modelled: the *content* of prompts, answers and reports; similarity scores;
static interrupts, which no caller compiles in; `update_state()`, which no route
calls; preferences, which no node writes; the SQL guard, the calculator and the file
sandbox, checks of a text character by character that keep no state; consumer lag, topics
and client connections, random draws that nothing is compared with; the formatters other
than the evidence bundle, which no control depends on; settings and logging.  Calls on
*different* threads meet in the memory store (`MemoryStore`), the mock stores (`SeededStores`)
and the providers (`AgentCall`), and nowhere else.  Callers of the Python tool would meet on
`sys.stdout` (`PythonRepl`), but no node or agent calls it: that module is about the tool.

Observed while modelling, not turned into runs:

* a run whose Final Response agent fails is complete and has no final answer to show
  (`docs/execution-flow.md:92-93` says a complete one shows it);
* a `recall_memory` that fails before it registers leaves the thread out of its
  session's history for good;
* `is_paused()` is true between the super-steps of a running call;
* a reject racing an approve may end a thread rejected, without a report (`EndsAsDecided`) and yet
  with its memory written: `SerialCallsKeepToTheGate` is about calls that do not overlap;
* `PlanTask.depends_on` is read by no code: a dependent task starts together with the ones it
  depends on;
* when calls of the Python tool overlap, what one prints may land in the other's buffer, and
  the stream may be left on the buffer of a call long over (`tools/python_repl.py:112`); the
  runs show what is exact nevertheless;
* the deployment of a pod that cannot pull its image is described as fully available, while the
  pod is pending; no node asks for the description;
* an investigation of an edited plan whose `incident_resolution` fails puts the draft of the
  plan before it in front of the human again; the failure is among the `errors`;
* the Redis tools report evicted keys for the instances whose policy they report as
  `noeviction` (`tools/redis_tool.py:28`, `:54`; `CacheToolsAgree`);
* `tools/python_repl.py:14-19` says that a snippet over its time is reported at once; one that is
  inside a long loop of a built-in, such as `sum()` over a `range()`, keeps the interpreter's lock,
  and its caller with it;
* metric series always end in breach (`SeriesEndsInBreach`), so no metric ever clears a
  component of suspicion;
* the summary is cut in the middle of its oldest line, where its docstring says that
  the oldest lines are dropped;
* an edited plan without tasks fails `HumanFeedback`'s validation outside
  `run_node()`;
* the Planner that follows a failed Reflection is given the guidance of an earlier
  one;
* if the Validator fails, the Root Cause agent's own confidence routes the retry cycle
  (`edges/confidence_check.py:3` calls it the validator's score); the models show that
  the failure is then always on record;
* a crash between `save_memory`'s writes and their checkpoint saves again on resume: the
  episode is replaced by itself, the conversation line and the fix count are doubled
  (`SerialCallsAreSafe`: once for each death at most);
* without any usable provider every node fails in turn, Reflection included, and the
  retry loop above runs to the recursion limit; the error that
  `services/llm_factory.py:25-27` wants raised instead is one entry among the `errors`;
* `knowledge_base_search` builds its service outside `run_structured()`, so a failure
  there is an exception and not a structured error of the tool (`raised` in `SeededStores`, a
  failed branch in `EvidenceGathering`);
* two first calls of `get_agent()` may both build the agent; the later one is kept, which
  harms nothing.

## 7. Plan

Done: every module of section 2, proofs beside all of them, and the two abstract views that tie
them together, `ApprovalGate` (refined by the graph and, call by call, by a thread) and
`ThreadLife` (led by the graph's run and by every copy of it).

What is left, most useful first:

1. That the fair step is enabled wherever a measure is positive, as an explicit predicate in
   place of ENABLED: the last safety part of liveness.
2. The composition of `IncidentGraph` and `ThreadRuns`, node by node under crashes, in place of
   the one-step investigation; `ThreadLife` is what it has to preserve.
3. The SQL guard, the calculator's grammar and the sandbox's path check against reference
   definitions over bounded inputs.
