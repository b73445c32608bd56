----------------------------- MODULE SeededStores -----------------------------
(***************************************************************************)
(* The two stores that whoever comes first creates and seeds: the mock     *)
(* Postgres (services/mock_database.py) and the knowledge base             *)
(* (services/vector_store.py).  Both hide behind a function under          *)
(* lru_cache, which remembers a result but does not keep several threads   *)
(* from computing it at once; the branches of an evidence pass, and passes *)
(* of other threads, are such callers.                                     *)
(*                                                                         *)
(* They guard the seeding differently: the database by its file not having *)
(* existed before connecting, the knowledge base by holding no documents.  *)
(* Whatever fails on the way to the knowledge base -- opening it, loading  *)
(* the embedding model, counting, writing -- raises out of the tool.       *)
(***************************************************************************)
EXTENDS Naturals

CONSTANTS
  Callers,    \* threads whose tools use the stores
  LastTable,  \* how many tables the database's schema has
  MaxCalls,   \* bound: tool calls accepted
  MaxCrashes  \* bound: process crashes

ASSUME SchemaAssumption == LastTable \in Nat \ {0}
ASSUME BoundAssumption == MaxCalls \in Nat /\ MaxCrashes \in Nat

VARIABLES
  exists,    \* the database file is there
  tables,    \* its tables 1..tables are created, in the order of the script
  seeds,     \* how often the seed rows have been committed to it
  documents, \* how often the corpus has been written to the knowledge base
  cached,    \* the stores whose lru_cache holds a result
  call,      \* each caller's progress in its present, or last, call
  calls,     \* observer: calls so far
  crashes    \* observer: crashes so far

disk     == <<exists, tables, seeds, documents>>
observed == <<calls, crashes>>
vars     == <<disk, cached, call, observed>>

-----------------------------------------------------------------------------
Stores == {"mock_database", "knowledge_base"}
Busy   == {"check", "connect", "create", "insert", "count", "upsert", "ready"}
Ended  == {"idle", "rows", "no_rows", "error", "raised"}
Calls  == [at : Busy \cup Ended, store : Stores, is_new : BOOLEAN, next : 1..LastTable,
           table : 1..LastTable]

Idle == [at |-> "idle", store |-> "mock_database", is_new |-> FALSE, next |-> 1, table |-> 1]

Init ==
  /\ exists = FALSE /\ tables = 0 /\ seeds = 0 /\ documents = 0
  /\ cached = {} /\ call = [c \in Callers |-> Idle]
  /\ calls = 0 /\ crashes = 0

Goes(c, from, to) == call[c].at = from /\ call' = [call EXCEPT ![c].at = to]

\* A tool asks for its store's singleton: sql_query and the Postgres tool for the
\* connection, to read one of the tables, the search tools for the service.
Begin(c, store, table) ==
  /\ call[c].at \in Ended /\ calls < MaxCalls
  /\ call' = [call EXCEPT ![c] =
       [Idle EXCEPT !.store = store, !.table = table,
                    !.at = IF store \in cached THEN "ready"
                           ELSE IF store = "mock_database" THEN "check" ELSE "count"]]
  /\ calls' = calls + 1
  /\ UNCHANGED <<disk, cached, crashes>>

-----------------------------------------------------------------------------
(* get_connection() of the mock database.                                  *)

\* Mutant: the file is looked for after it has been opened.
CheckTooLate(c) ==
  /\ call[c].at = "check"
  /\ exists' = TRUE
  /\ call' = [call EXCEPT ![c].at = "connect", ![c].is_new = ~exists']
  /\ UNCHANGED <<tables, seeds, documents, cached, observed>>

\* is_new = not MOCK_DB_PATH.exists()
CheckFile(c) ==
  /\ call[c].at = "check"
  /\ call' = [call EXCEPT ![c].at = "connect", ![c].is_new = ~exists]
  /\ UNCHANGED <<disk, cached, observed>>

\* sqlite3.connect() creates an empty file; a connection to a file that was there
\* is returned, and cached, as it is.
Connect(c) ==
  /\ exists' = TRUE
  /\ IF call[c].is_new
     THEN Goes(c, "connect", "create") /\ UNCHANGED cached
     ELSE Goes(c, "connect", "ready") /\ cached' = cached \cup {"mock_database"}
  /\ UNCHANGED <<tables, seeds, documents, observed>>

\* Mutant: CREATE TABLE IF NOT EXISTS.
CreateTableUnlessThere(c) ==
  /\ tables' = IF call[c].next > tables THEN call[c].next ELSE tables
  /\ IF call[c].next = LastTable
     THEN Goes(c, "create", "insert")
     ELSE call[c].at = "create" /\ call' = [call EXCEPT ![c].next = @ + 1]
  /\ UNCHANGED <<exists, seeds, documents, cached, observed>>

\* executescript() commits each CREATE TABLE by itself; one that finds its table
\* raises, the tool reports an error, and lru_cache keeps nothing.
CreateTable(c) ==
  /\ IF call[c].next <= tables
     THEN Goes(c, "create", "error") /\ UNCHANGED tables
     ELSE /\ tables' = call[c].next
          /\ IF call[c].next = LastTable
             THEN Goes(c, "create", "insert")
             ELSE call[c].at = "create" /\ call' = [call EXCEPT ![c].next = @ + 1]
  /\ UNCHANGED <<exists, seeds, documents, cached, observed>>

\* The rows of all tables are inserted in one transaction.
InsertRows(c) ==
  /\ Goes(c, "insert", "ready")
  /\ seeds' = seeds + 1 /\ cached' = cached \cup {"mock_database"}
  /\ UNCHANGED <<exists, tables, documents, observed>>

-----------------------------------------------------------------------------
(* get_vector_store_service(): seed_if_empty() on the collection.          *)

\* Opens the collection and counts.
CountDocuments(c) ==
  /\ \/ documents > 0 /\ Goes(c, "count", "ready") /\ cached' = cached \cup {"knowledge_base"}
     \/ documents = 0 /\ Goes(c, "count", "upsert") /\ UNCHANGED cached
     \/ Goes(c, "count", "raised") /\ UNCHANGED cached
  /\ UNCHANGED <<disk, observed>>

\* Mutant: add() in place of upsert().
AddCorpus(c) ==
  /\ Goes(c, "upsert", "ready")
  /\ documents' = documents + 1 /\ cached' = cached \cup {"knowledge_base"}
  /\ UNCHANGED <<exists, tables, seeds, observed>>

\* Mutant: a failing seeding does not keep the service from being handed out.
UpsertOrLeaveEmpty(c) ==
  /\ Goes(c, "upsert", "ready")
  /\ documents' \in {documents, 1} /\ cached' = cached \cup {"knowledge_base"}
  /\ UNCHANGED <<exists, tables, seeds, observed>>

\* One upsert of the corpus; a second one replaces every document by itself.  It may raise
\* before or after its write, and then lru_cache keeps nothing.
UpsertCorpus(c) ==
  /\ \/ Goes(c, "upsert", "ready") /\ documents' = 1 /\ cached' = cached \cup {"knowledge_base"}
     \/ Goes(c, "upsert", "raised") /\ documents' \in {documents, 1} /\ UNCHANGED cached
  /\ UNCHANGED <<exists, tables, seeds, observed>>

-----------------------------------------------------------------------------
\* What the tool's query may return: a failing search, or no such table, is an error; else
\* it is what is in the store.
Answers(c) ==
  IF call[c].store = "knowledge_base" THEN {"error", IF documents > 0 THEN "rows" ELSE "no_rows"}
  ELSE IF call[c].table > tables THEN {"error"} ELSE {IF seeds > 0 THEN "rows" ELSE "no_rows"}

Query(c) ==
  /\ \E a \in Answers(c) : Goes(c, "ready", a)
  /\ UNCHANGED <<disk, cached, observed>>

\* The process dies: caches, calls and open transactions are lost.
Crash ==
  /\ crashes < MaxCrashes /\ crashes' = crashes + 1
  /\ cached' = {} /\ call' = [c \in Callers |-> Idle]
  /\ UNCHANGED <<disk, calls>>

Serve(c) ==
  \/ CheckFile(c) \/ Connect(c) \/ CreateTable(c) \/ InsertRows(c)
  \/ CountDocuments(c) \/ UpsertCorpus(c) \/ Query(c)

Next ==
  \/ \E c \in Callers :
       Serve(c) \/ (\E s \in Stores, t \in 1..LastTable : Begin(c, s, t))
  \/ Crash

Spec == Init /\ [][Next]_vars

\* A caller's thread keeps running until its tool has answered.
FairSpec == Spec /\ \A c \in Callers : WF_vars(Serve(c))

-----------------------------------------------------------------------------
(* How far a call is from its answer, and the seeding from its end.        *)

\* The steps that c's call may still take, at most.
StepsLeft(c) ==
  CASE call[c].at = "check"              -> LastTable + 4
    [] call[c].at = "connect"            -> LastTable + 3
    [] call[c].at = "create"             -> LastTable - call[c].next + 3
    [] call[c].at \in {"insert", "upsert"} -> 2
    [] call[c].at = "count"              -> 3
    [] call[c].at = "ready"              -> 1
    [] OTHER                             -> 0

\* c holds the database for new, and no other caller has created the table it is to
\* create next.
MaySeed(c) ==
  \/ call[c].at = "connect" /\ call[c].is_new /\ tables = 0
  \/ call[c].at = "create" /\ call[c].next = tables + 1
  \/ call[c].at = "insert"

-----------------------------------------------------------------------------
(* Properties. *)

TypeOK ==
  /\ exists \in BOOLEAN /\ tables \in 0..LastTable
  /\ seeds \in Nat /\ documents \in {0, 1}
  /\ cached \subseteq Stores /\ call \in [Callers -> Calls]
  /\ calls \in 0..MaxCalls /\ crashes \in 0..MaxCrashes

\* However many callers believe the database to be new, its rows are inserted once:
\* evidence is never doubled.
SeededAtMostOnce == seeds <= 1

\* Callers that lose the race fail, but never all of them: unless the process dies,
\* a mock database that has been created gets seeded.
SeedingHasAWinner == exists ~> seeds = 1 \/ crashes > 0

\* What SeedingHasAWinner rests on.  A database file without its rows has, as long as no
\* process has died, a caller that may still seed it.  Once the file is there nobody else
\* becomes one; such a caller's own step leaves it one, nearer to its end, or inserts the
\* rows; and the step of another takes the seeding from it only by leaving that other one
\* to do it.
SeedingIsInHand ==
  /\ [](exists /\ crashes = 0 /\ seeds = 0 => \E c \in Callers : MaySeed(c))
  /\ [][/\ exists => \A c \in Callers : MaySeed(c)' => MaySeed(c)
        /\ \A c \in Callers : MaySeed(c) =>
             /\ Serve(c) => StepsLeft(c)' < StepsLeft(c) /\ (MaySeed(c)' \/ seeds' = 1)
             /\ \A d \in Callers \ {c} : Serve(d) => MaySeed(c)' \/ MaySeed(d)']_vars

\* Every call ends: its own steps use up what is left of it, and the steps of others do
\* not give it any more.
CallsAreShort ==
  /\ []\A c \in Callers : /\ StepsLeft(c) \in 0..LastTable + 4
                          /\ call[c].at \in Busy <=> StepsLeft(c) > 0
  /\ [][\A c \in Callers :
           /\ Serve(c) => StepsLeft(c)' < StepsLeft(c)
           /\ call[c].at \in Busy => StepsLeft(c)' <= StepsLeft(c)]_vars

\* No search is answered from, and no service is handed out or cached over, an empty
\* knowledge base: whoever seeds it at the same time, and whatever fails or dies during
\* the seeding, a search ends with rows or with a failure that its branch reports.
SearchFindsTheCorpus ==
  /\ "knowledge_base" \in cached => documents > 0
  /\ \A c \in Callers : call[c].store = "knowledge_base" =>
       call[c].at # "no_rows" /\ (call[c].at = "ready" => documents > 0)

(***************************************************************************)
(* What mock_database.py says and concurrent first use, or a crash in it,  *)
(* breaks.                                                                 *)
(***************************************************************************)
\* get_connection() is a connection to the seeded database.
ConnectionIsSeeded ==
  \A c \in Callers : call[c].store = "mock_database" /\ call[c].at = "ready" => seeds = 1

=============================================================================
