------------------------------ MODULE MemoryStore ------------------------------
(***************************************************************************)
(* Long-term memory under concurrent runs.  Every run of the process writes*)
(* through one MemoryService: a Chroma collection of episodes, and one     *)
(* SQLite connection shared by all threads.  On that connection a statement*)
(* is atomic, but an open transaction belongs to nobody: whatever thread   *)
(* commits first commits everybody's statements.                           *)
(*                                                                         *)
(* Each incident is one thread's run: recall_memory registers it and reads *)
(* what is known, and once a human has applied its resolution save_memory  *)
(* persists it.  All the incidents have the same fix, the case in which    *)
(* they contend for its usage count.                                       *)
(***************************************************************************)
EXTENDS Naturals, Sequences, FiniteSets

CONSTANTS
  Incidents,   \* the runs, one thread of execution each
  Rejected,    \* those whose resolution the human rejects
  Sessions,
  SessionOf,   \* the session each incident belongs to
  LineLen,     \* length of a conversation line, in units of text
  Cap,         \* _MAX_SUMMARY_CHARS, in the same units
  MaxFailures, \* bound: calls that raise
  MaxCrashes   \* bound: process crashes

ASSUME IncidentsAssumption == IsFiniteSet(Incidents)
ASSUME SessionAssumption == SessionOf \in [Incidents -> Sessions]
ASSUME RejectedAssumption == Rejected \subseteq Incidents
\* A line is at most some 400 characters long and the cap is 2000.
ASSUME LengthAssumption == LineLen \in Nat \ {0} /\ Cap \in Nat /\ LineLen <= Cap
ASSUME BoundAssumption == MaxFailures \in Nat /\ MaxCrashes \in Nat

VARIABLES
  episodes,  \* the incidents in the Chroma collection; upserts are durable at once
  view,      \* the tables as statements on the shared connection see them
  durable,   \* the tables as a restarted process would find them
  pc,        \* where each run is
  memory,    \* the MemoryContext each run recalled, in its state
  seen,      \* the summary append_incident() has read
  applied,   \* whether the run has a draft whose usage is to be counted
  attempts,  \* observer: how often save_memory was begun with such a draft
  failures,  \* observer: calls that raised so far
  crashes    \* observer: crashes so far

tables == <<view, durable>>
vars   == <<episodes, view, durable, pc, memory, seen, applied, attempts, failures, crashes>>

-----------------------------------------------------------------------------
Recalling == {"register", "register_commit", "find_similar", "get_summary"}
Steps == Recalling \cup
         {"investigate", "rejected", "episode", "read", "write",
          "write_commit", "count", "count_commit", "returned", "failed", "saved", "unsaved"}

\* A text is a sequence of units; a line names its incident in each of them.
Line(i) == [k \in 1..LineLen |-> [incident |-> i, at |-> k]]

NoMemory == [similar |-> {}, summary |-> <<>>]

EmptyTables == [summary |-> [s \in Sessions |-> <<>>], fixes |-> 0, threads |-> {}]

Init ==
  /\ episodes = {} /\ view = EmptyTables /\ durable = EmptyTables
  /\ pc = [i \in Incidents |-> "register"]
  /\ memory = [i \in Incidents |-> NoMemory]
  /\ seen = [i \in Incidents |-> <<>>]
  /\ applied \in [Incidents -> BOOLEAN]
  /\ attempts = 0 /\ failures = 0 /\ crashes = 0

Goes(i, from, to) == pc[i] = from /\ pc' = [pc EXCEPT ![i] = to]

\* register(): ON CONFLICT DO NOTHING, so a replay registers nothing twice.
Register(i) ==
  /\ Goes(i, "register", "register_commit")
  /\ view' = [view EXCEPT !.threads = @ \cup {i}]
  /\ UNCHANGED <<episodes, durable, memory, seen, applied, attempts, failures, crashes>>

\* recall() asks the two stores one after the other: first the episodes, the three
\* most similar ones ...
FindSimilar(i) ==
  /\ Goes(i, "find_similar", "get_summary")
  /\ \E found \in SUBSET episodes :
       /\ Cardinality(found) = IF Cardinality(episodes) < 3 THEN Cardinality(episodes) ELSE 3
       /\ memory' = [memory EXCEPT ![i].similar = found]
  /\ UNCHANGED <<episodes, tables, seen, applied, attempts, failures, crashes>>

\* ... and then the session's summary, on the shared connection.  The category is not
\* known yet, so no fixes are asked for, and no node writes preferences.
GetConversation(i) ==
  /\ Goes(i, "get_summary", "investigate")
  /\ memory' = [memory EXCEPT ![i].summary = view.summary[SessionOf[i]]]
  /\ UNCHANGED <<episodes, tables, seen, applied, attempts, failures, crashes>>

\* A rejection goes past save_memory.
Reject(i) ==
  /\ i \in Rejected /\ Goes(i, "investigate", "rejected")
  /\ UNCHANGED <<episodes, tables, memory, seen, applied, attempts, failures, crashes>>

\* The investigation and the human's decision happen in between.
BeginSave(i) ==
  /\ i \notin Rejected /\ Goes(i, "investigate", "episode")
  /\ attempts' = attempts + IF applied[i] THEN 1 ELSE 0
  /\ UNCHANGED <<episodes, tables, memory, seen, applied, failures, crashes>>

\* Mutant: the episode is left for later.
PersistNothing(i) ==
  /\ Goes(i, "episode", "read")
  /\ UNCHANGED <<episodes, tables, memory, seen, applied, attempts, failures, crashes>>

\* add_documents() upserts by incident_id.
PersistIncident(i) ==
  /\ Goes(i, "episode", "read")
  /\ episodes' = episodes \cup {i}
  /\ UNCHANGED <<tables, memory, seen, applied, attempts, failures, crashes>>

\* append_incident() reads the summary in one statement ...
GetSummary(i) ==
  /\ Goes(i, "read", "write")
  /\ seen' = [seen EXCEPT ![i] = view.summary[SessionOf[i]]]
  /\ UNCHANGED <<episodes, tables, memory, applied, attempts, failures, crashes>>

\* Mutant: updated[:_MAX_SUMMARY_CHARS]
TrimmedAtTheEnd(text) == IF Len(text) > Cap THEN SubSeq(text, 1, Cap) ELSE text

\* updated[-_MAX_SUMMARY_CHARS:]
Trimmed(text) == IF Len(text) > Cap THEN SubSeq(text, Len(text) - Cap + 1, Len(text)) ELSE text

\* ... and writes the longer one in another.
UpsertSummary(i) ==
  /\ Goes(i, "write", "write_commit")
  /\ view' = [view EXCEPT !.summary[SessionOf[i]] = Trimmed(seen[i] \o Line(i))]
  /\ UNCHANGED <<episodes, durable, memory, seen, applied, attempts, failures, crashes>>

\* Mutant: the count is read from the last commit before it is written.
RecordFixReadFirst(i) ==
  /\ Goes(i, "count", "count_commit")
  /\ view' = [view EXCEPT !.fixes = durable.fixes + 1]
  /\ UNCHANGED <<episodes, durable, memory, seen, applied, attempts, failures, crashes>>

\* record_fix_usage() reads and increments in one statement.
RecordFixUsage(i) ==
  /\ Goes(i, "count", "count_commit")
  /\ view' = [view EXCEPT !.fixes = @ + 1]
  /\ UNCHANGED <<episodes, durable, memory, seen, applied, attempts, failures, crashes>>

\* Mutant: a fix is counted where there is none to count.
AfterCommitUnknown(i) ==
  CASE pc[i] = "register_commit" -> "find_similar"
    [] pc[i] = "write_commit"    -> "count_unless_rejected"
    [] pc[i] = "count_commit"    -> "returned"

\* The step after each commit.
AfterCommit(i) ==
  CASE pc[i] = "register_commit" -> "find_similar"
    [] pc[i] = "write_commit"    -> IF applied[i] THEN "count" ELSE "returned"
    [] pc[i] = "count_commit"    -> "returned"

Committing(i) == pc[i] \in {"register_commit", "write_commit", "count_commit"}

\* Mutant: the repository forgets to commit.
CommitForgotten(i) ==
  /\ Committing(i) /\ pc' = [pc EXCEPT ![i] = AfterCommit(i)]
  /\ UNCHANGED <<episodes, tables, memory, seen, applied, attempts, failures, crashes>>

\* connection.commit() ends the transaction of every thread.
Commit(i) ==
  /\ Committing(i) /\ pc' = [pc EXCEPT ![i] = AfterCommit(i)]
  /\ durable' = view
  /\ UNCHANGED <<episodes, view, memory, seen, applied, attempts, failures, crashes>>

\* A call raises.  run_node() records it and the graph goes on: without recall, or
\* without having saved.  Nobody rolls back: what this node executed before stays
\* in the open transaction.
Raise(i) ==
  /\ failures < MaxFailures /\ failures' = failures + 1
  /\ \/ /\ pc[i] \in Recalling
        /\ pc' = [pc EXCEPT ![i] = "investigate"]
        /\ memory' = [memory EXCEPT ![i] = NoMemory]
     \/ /\ pc[i] \in {"episode", "read", "write", "write_commit", "count", "count_commit"}
        /\ pc' = [pc EXCEPT ![i] = "failed"]
        /\ UNCHANGED memory
  /\ UNCHANGED <<episodes, tables, seen, applied, attempts, crashes>>

\* LangGraph commits the checkpoint that save_memory_node has run.
Checkpoint(i) ==
  /\ Goes(i, "returned", "saved") \/ Goes(i, "failed", "unsaved")
  /\ UNCHANGED <<episodes, tables, memory, seen, applied, attempts, failures, crashes>>

\* Mutant: the run starts again from the beginning.
ReplayedFromStart(i) == IF pc[i] \in {"saved", "unsaved"} THEN pc[i] ELSE "register"

\* Where a run that crashed resumes: at the node its last checkpoint leaves it at.
Replayed(i) ==
  IF pc[i] \in Recalling THEN "register"
  ELSE IF pc[i] \in {"rejected", "saved", "unsaved"} THEN pc[i] ELSE "investigate"

\* The process dies and is restarted; the open transaction is gone.
Crash ==
  /\ crashes < MaxCrashes /\ crashes' = crashes + 1
  /\ view' = durable
  /\ pc' = [i \in Incidents |-> Replayed(i)]
  /\ memory' = [i \in Incidents |-> IF pc[i] \in Recalling THEN NoMemory ELSE memory[i]]
  /\ seen' = [i \in Incidents |-> <<>>]
  /\ UNCHANGED <<episodes, durable, applied, attempts, failures>>

Run(i) ==
  \/ Register(i) \/ FindSimilar(i) \/ GetConversation(i) \/ Reject(i) \/ BeginSave(i)
  \/ PersistIncident(i) \/ GetSummary(i) \/ UpsertSummary(i) \/ RecordFixUsage(i)
  \/ Commit(i) \/ Checkpoint(i)

Next == (\E i \in Incidents : Run(i) \/ Raise(i)) \/ Crash

Spec == Init /\ [][Next]_vars

-----------------------------------------------------------------------------
(* Properties. *)

Units == [incident : Incidents, at : 1..LineLen]

TypeOK ==
  /\ episodes \subseteq Incidents
  /\ \A t \in {view, durable} :
       /\ t.summary \in [Sessions -> Seq(Units)] /\ t.fixes \in Nat
       /\ t.threads \subseteq Incidents
  /\ pc \in [Incidents -> Steps]
  /\ memory \in [Incidents -> [similar : SUBSET Incidents, summary : Seq(Units)]]
  /\ seen \in [Incidents -> Seq(Units)]
  /\ applied \in [Incidents -> BOOLEAN]
  /\ attempts \in Nat /\ failures \in 0..MaxFailures /\ crashes \in 0..MaxCrashes

\* The runs whose save_memory has returned its flag, metadata.memory_persisted.
Saved == {i \in Incidents : pc[i] \in {"returned", "saved"}}

Contains(text, line) ==
  \E k \in 0..(Len(text) - Len(line)) : SubSeq(text, k + 1, k + Len(line)) = line

\* The stores never disagree the wrong way round: an incident the conversation
\* mentions, or would after the next commit, is there to be recalled as an episode.
LinesHaveEpisodes ==
  \A s \in Sessions : \A k \in DOMAIN view.summary[s] :
    view.summary[s][k].incident \in episodes

\* No usage is lost to concurrency, and only a replay counts one twice: the count
\* lies between the runs that have saved and the times a save was begun.
FixCountIsBounded ==
  /\ Cardinality({i \in Saved : applied[i]}) <= durable.fixes
  /\ view.fixes <= attempts

\* memory_persisted tells the truth: a run that returned it has its whole line in
\* its session's summary for good, however runs of other sessions, failures in the
\* shared transaction and crashes interleave with it.
EveryLineIsKept == \A i \in Saved : Contains(durable.summary[SessionOf[i]], Line(i))

Mentioned(text) == {text[k].incident : k \in DOMAIN text}

\* Each unit continues the line of the one before or begins a line after a whole one.
WholeButTheOldest(text) ==
  /\ \A k \in DOMAIN text \ {1} :
       IF text[k].at = 1 THEN text[k - 1].at = LineLen
       ELSE text[k - 1] = [text[k] EXCEPT !.at = @ - 1]
  /\ text # <<>> => text[Len(text)].at = LineLen

\* What a run recalled is past, true and legible: although it reads the two stores at
\* different times, and rows that others have not committed and a crash may take back,
\* it names no incident without its episode, never itself, not even replayed, and of
\* the conversation no line but the oldest is cut.
RecallIsSound ==
  \A i \in Incidents :
    /\ i \notin memory[i].similar \cup Mentioned(memory[i].summary)
    /\ memory[i].similar \cup Mentioned(memory[i].summary) \subseteq episodes
    /\ WholeButTheOldest(memory[i].summary)

=============================================================================
