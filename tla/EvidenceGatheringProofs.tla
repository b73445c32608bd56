------------------------ MODULE EvidenceGatheringProofs ------------------------
(***************************************************************************)
(* Proofs about EvidenceGathering, for any plans, passes, crashes and size *)
(* of the window, and about the simulated tools beneath it.                *)
(*                                                                         *)
(* What the analyst reads is arranged three times over: branches write as  *)
(* they end, the join sorts what they wrote, the bundle cuts it.  The      *)
(* invariant keeps a ledger of the accumulators, in which every entry is   *)
(* that of a task dispatched in a merged pass, and says of the bundle that *)
(* it is what the first entries of each field show.                        *)
(***************************************************************************)
EXTENDS EvidenceGathering, FunctionTheorems, FiniteSetTheorems, SequenceTheorems, TLAPS

-----------------------------------------------------------------------------
(* Sets of numbers in order.                                               *)

\* A finite set of numbers can be enumerated from the least to the greatest: the n-th is
\* the one that n members do not exceed.
LEMMA OrderExists ==
  ASSUME NEW S \in SUBSET Nat, IsFiniteSet(S)
  PROVE  \E q \in [1..Cardinality(S) -> S] : \A j, k \in DOMAIN q : j < k => q[j] < q[k]
<1> DEFINE n == Cardinality(S)
           Below(s) == {t \in S : t <= s}
           rank == [s \in S |-> Cardinality(Below(s))]
<1>1. n \in Nat
  BY FS_CardinalityType
<1>2. ASSUME NEW s \in S
      PROVE  IsFiniteSet(Below(s)) /\ Cardinality(Below(s)) \in 1..n
  <2>1. Below(s) \in SUBSET S
    OBVIOUS
  <2>2. IsFiniteSet(Below(s)) /\ Cardinality(Below(s)) <= n
    BY <2>1, FS_Subset
  <2>3. Cardinality(Below(s)) \in Nat
    BY <2>2, FS_CardinalityType
  <2>4. s \in Below(s)
    OBVIOUS
  <2>5. Cardinality(Below(s)) # 0
    BY <2>2, <2>4, FS_EmptySet
  <2> HIDE DEF Below, n
  <2> QED
    BY <1>1, <2>2, <2>3, <2>5, SMT
<1>3. ASSUME NEW s \in S, NEW t \in S, s < t
      PROVE  Cardinality(Below(s)) < Cardinality(Below(t))
  <2>0. s \in Nat /\ t \in Nat /\ S \subseteq Nat
    OBVIOUS
  <2>1. Below(s) \in SUBSET Below(t)
    <3> SUFFICES ASSUME NEW u \in S, u <= s PROVE u <= t
      OBVIOUS
    <3>1. u \in Nat
      BY <2>0
    <3> QED
      BY <1>3, <2>0, <3>1, SMT
  <2>2. t \in Below(t) /\ t \notin Below(s)
    BY <1>3
  <2>3. /\ Cardinality(Below(s)) <= Cardinality(Below(t))
        /\ Cardinality(Below(t)) = Cardinality(Below(s)) => Below(t) = Below(s)
    BY <1>2, <2>1, FS_Subset
  <2>4. Cardinality(Below(t)) # Cardinality(Below(s))
    BY <2>2, <2>3
  <2>5. Cardinality(Below(s)) \in 1..n /\ Cardinality(Below(t)) \in 1..n
    BY <1>2
  <2> HIDE DEF Below, n
  <2> QED
    BY <2>3, <2>4, <2>5, SMT
<1>4. rank \in [S -> 1..n] /\ \A s \in S : rank[s] = Cardinality(Below(s))
  BY <1>2
<1> HIDE DEF Below
<1>5. \A s, t \in S : s < t => rank[s] < rank[t]
  BY <1>3, <1>4
<1> HIDE DEF rank
<1>6. \A s, t \in S : rank[s] = rank[t] => s = t
  <2> SUFFICES ASSUME NEW s \in S, NEW t \in S, rank[s] = rank[t] PROVE s = t
    OBVIOUS
  <2>1. ~(s < t) /\ ~(t < s)
    BY <1>4, <1>5, SMT
  <2> QED
    BY <2>1, SMT
<1>7. rank \in Injection(S, 1..n)
  BY <1>4, <1>6, Fun_IsInj
<1>8. IsFiniteSet(1..n) /\ Cardinality(1..n) = n
  BY <1>1, FS_Interval, SMT
<1>9. rank \in Surjection(S, 1..n)
  BY <1>7, <1>8, FS_Injection DEF n
<1>10. \A k \in 1..n : \E s \in S : rank[s] = k
  BY <1>9, Fun_SurjectionProperties
<1> DEFINE q == [k \in 1..n |-> CHOOSE s \in S : rank[s] = k]
<1>11. q \in [1..n -> S] /\ \A k \in 1..n : rank[q[k]] = k
  BY <1>10
<1> HIDE DEF q
<1>12. ASSUME NEW j \in 1..n, NEW k \in 1..n, j < k PROVE q[j] < q[k]
  <2>1. q[j] \in S /\ q[k] \in S /\ rank[q[j]] = j /\ rank[q[k]] = k
    BY <1>11
  <2> HIDE DEF n
  <2> j \in Nat /\ k \in Nat
    BY <1>1
  <2> q[j] \in Nat /\ q[k] \in Nat
    BY <2>1
  <2>2. q[j] # q[k]
    BY <1>12, <2>1, SMT
  <2>3. ~(q[k] < q[j])
    <3> SUFFICES ASSUME q[k] < q[j] PROVE FALSE
      OBVIOUS
    <3>1. rank[q[k]] < rank[q[j]]
      BY <1>5, <2>1
    <3> QED
      BY <1>12, <2>1, <3>1, SMT
  <2> QED
    BY <2>2, <2>3, SMT
<1> QED
  BY <1>11, <1>12 DEF n

LEMMA InOrderOrders ==
  ASSUME NEW S \in SUBSET Nat, IsFiniteSet(S)
  PROVE  /\ Cardinality(S) \in Nat
         /\ InOrder(S) \in [1..Cardinality(S) -> S]
         /\ \A j, k \in 1..Cardinality(S) : j < k => InOrder(S)[j] < InOrder(S)[k]
         /\ \A s \in S : \E k \in 1..Cardinality(S) : InOrder(S)[k] = s
<1> DEFINE n == Cardinality(S)
           q == InOrder(S)
<1>1. n \in Nat
  BY FS_CardinalityType
<1>2. q \in [1..n -> S] /\ \A j, k \in DOMAIN q : j < k => q[j] < q[k]
  BY OrderExists DEF InOrder
<1> HIDE DEF n, q
<1>3. \A j, k \in 1..n : j < k => q[j] < q[k]
  BY <1>2
<1>4. \A j, k \in 1..n : q[j] = q[k] => j = k
  <2> SUFFICES ASSUME NEW j \in 1..n, NEW k \in 1..n, q[j] = q[k] PROVE j = k
    OBVIOUS
  <2>1. q[j] \in Nat
    BY <1>2
  <2>2. ~(j < k) /\ ~(k < j)
    BY <1>3, <2>1, SMT
  <2> QED
    BY <1>1, <2>2, SMT
<1>5. q \in Injection(1..n, S)
  BY <1>2, <1>4, Fun_IsInj
<1>6. Cardinality(1..n) = Cardinality(S)
  BY <1>1, FS_Interval, SMT DEF n
<1>7. q \in Surjection(1..n, S)
  BY <1>5, <1>6, FS_Injection
<1>8. \A s \in S : \E k \in 1..n : q[k] = s
  BY <1>7 DEF Surjection
<1> QED
  BY <1>1, <1>2, <1>3, <1>8 DEF n, q

-----------------------------------------------------------------------------
(* What a branch may write.                                                *)

\* A branch that succeeds has reasoned and reports no error; one that fails reports its
\* error and nothing else.
LEMMA OutcomesAreClean ==
  ASSUME NEW type \in TaskTypes, NEW c \in Outcomes(type)
  PROVE  /\ c \subseteq Fields /\ "execution_history" \in c
         /\ "reasoning" \in c \/ "errors" \in c
         /\ "errors" \in c => c = {"errors", "execution_history"}
<1> DEFINE Findings == {"logs", "tool_results", "metrics", "retrieved_documents",
                        "citations", "sql_results"}
<1>1. Contributions[type] \subseteq SUBSET Findings
  <2>1. CASE type = "log_analysis"
    BY <2>1 DEF Contributions, LogAnalysis
  <2>2. CASE type = "metrics_analysis"
    BY <2>2 DEF Contributions, MetricsAnalysis
  <2>3. CASE type = "vector_search"
    BY <2>3 DEF Contributions, VectorSearch
  <2>4. CASE type = "sql_query"
    BY <2>4 DEF Contributions, SqlQuery
  <2>5. CASE type = "web_search"
    BY <2>5 DEF Contributions, WebSearch
  <2>6. CASE type = "knowledge_graph"
    BY <2>6 DEF Contributions, KnowledgeGraph
  <2> QED
    BY <2>1, <2>2, <2>3, <2>4, <2>5, <2>6 DEF TaskTypes
<1>2. Findings \subseteq Fields \ {"errors", "reasoning", "execution_history"}
  BY DEF Fields
<1>3. {"errors", "reasoning", "execution_history"} \subseteq Fields
  BY DEF Fields
<1> HIDE DEF Findings
<1>4. CASE c = {"errors", "execution_history"}
  BY <1>3, <1>4
<1>5. ASSUME NEW d \in Contributions[type], c = d \cup {"reasoning", "execution_history"}
      PROVE  c \subseteq Fields /\ "execution_history" \in c /\ "reasoning" \in c
             /\ "errors" \notin c
  <2>1. d \subseteq Findings
    BY <1>1
  <2> QED
    BY <1>2, <1>3, <1>5, <2>1
<1> QED
  BY <1>4, <1>5 DEF Outcomes

\* Branches and their tasks.
Progress(b, type) == b.at = "done" => b.wrote \in Outcomes(type)

Branches == [at : {"waiting", "running", "done"}, wrote : SUBSET Fields]

Dispatched ==
  /\ phase \in {"planning", "dispatching", "gathering", "crashed", "merging"}
  /\ plan \in Plans \cup {NoPlan} /\ sends \in Plans \cup {NoPlan, <<GeneralReview>>}
  /\ branch \in [DOMAIN sends -> Branches]
  /\ \A i \in DOMAIN sends : Progress(branch[i], sends[i])
  /\ dispatched \in Seq(Nat \ {0}) /\ Len(dispatched) <= MaxPasses
  /\ phase = "dispatching" => Len(dispatched) < MaxPasses
  /\ phase \in {"gathering", "crashed"} =>
       Len(dispatched) > 0 /\ dispatched[Len(dispatched)] = Len(sends)
  /\ crashes \in 0..MaxCrashes

\* The accumulators: what of every merged task is where.
Ledger ==
  /\ acc \in [Fields -> Seq(Tags)]
  /\ \A f \in Fields : Entries(f) \subseteq MergedTasks
  /\ Entries("execution_history") = MergedTasks
  /\ Entries("reasoning") \cup Entries("errors") = MergedTasks
  /\ FailedBranchesLeaveNoEvidence
  /\ MergeIsOrderedOnce

LEMMA SendsAreTasks ==
  ASSUME Dispatched
  PROVE  sends \in Seq(TaskTypes) /\ Len(sends) \in Nat /\ DOMAIN sends = 1..Len(sends)
<1>1. NoPlan \in Seq(TaskTypes) /\ <<GeneralReview>> \in Seq(TaskTypes)
  BY DEF NoPlan, GeneralReview, TaskTypes
<1>2. sends \in Seq(TaskTypes)
  BY <1>1, PlansAssumption DEF Dispatched
<1> QED
  BY <1>2, LenProperties

LEMMA PlansHaveTasks ==
  ASSUME plan \in Plans \cup {NoPlan}
  PROVE  /\ Sends \in Plans \cup {NoPlan, <<GeneralReview>>}
         /\ Sends \in Seq(TaskTypes) /\ Len(Sends) \in Nat \ {0}
         /\ DOMAIN Sends = 1..Len(Sends)
<1>1. <<GeneralReview>> \in Seq(TaskTypes) /\ <<GeneralReview>> # <<>>
  BY DEF GeneralReview, TaskTypes
<1>2. Sends \in Seq(TaskTypes) \ {<<>>} /\ Sends \in Plans \cup {NoPlan, <<GeneralReview>>}
  BY <1>1, PlansAssumption DEF Sends, NoPlan
<1> QED
  BY <1>2, LenProperties, EmptySeq

-----------------------------------------------------------------------------
(* The join.                                                               *)

Writers(f) == {i \in DOMAIN branch : f \in branch[i].wrote}

\* In Send order the entries of a field are those of its writers, by task.
LEMMA GatheredInOrder ==
  ASSUME Dispatched, NEW f
  PROVE  LET g == Gathered(f, SendOrder)
         IN /\ g \in Seq({Entry(i) : i \in Writers(f)})
            /\ \A i \in Writers(f) : \E k \in DOMAIN g : g[k] = Entry(i)
            /\ \A j, k \in DOMAIN g : j < k => g[j].task < g[k].task
<1> DEFINE W == Writers(f)
           g == Gathered(f, SendOrder)
           q == InOrder(W)
           n == Cardinality(W)
<1>1. sends \in Seq(TaskTypes) /\ Len(sends) \in Nat /\ DOMAIN sends = 1..Len(sends)
  BY SendsAreTasks
<1>2. DOMAIN branch = 1..Len(sends)
  BY <1>1 DEF Dispatched
<1>3. IsFiniteSet(1..Len(sends))
  BY <1>1, FS_Interval
<1>4. W \in SUBSET (1..Len(sends)) /\ W \in SUBSET Nat
  BY <1>1, <1>2 DEF Writers
<1>5. IsFiniteSet(W)
  BY <1>3, <1>4, FS_Subset
<1>6. {k \in DOMAIN SendOrder : SendOrder[k] \in W} = W
  BY <1>1, <1>4 DEF SendOrder
<1>7. /\ n \in Nat /\ q \in [1..n -> W]
      /\ \A j, k \in 1..n : j < k => q[j] < q[k]
      /\ \A i \in W : \E k \in 1..n : q[k] = i
  BY <1>4, <1>5, InOrderOrders
<1>8. Chosen(SendOrder, W) = [k \in 1..n |-> q[k]]
  <2>1. Chosen(SendOrder, W) = [k \in DOMAIN q |-> SendOrder[q[k]]]
    BY <1>6 DEF Chosen
  <2>2. \A k \in 1..n : SendOrder[q[k]] = q[k]
    BY <1>1, <1>4, <1>7 DEF SendOrder
  <2> QED
    BY <1>7, <2>1, <2>2
<1>9. g = [k \in 1..n |-> Entry(q[k])]
  <2>1. g = [k \in DOMAIN Chosen(SendOrder, W) |-> Entry(Chosen(SendOrder, W)[k])]
    BY DEF Gathered, Writers
  <2> HIDE DEF W, n, q
  <2> QED
    BY <1>8, <2>1
<1> HIDE DEF W, n, q, g
<1>10. DOMAIN g = 1..n /\ \A k \in 1..n : g[k] = Entry(q[k]) /\ g[k].task = q[k]
  BY <1>9 DEF Entry
<1>11. g \in Seq({Entry(i) : i \in W})
  <2>1. g \in [1..n -> {Entry(i) : i \in W}]
    BY <1>7, <1>9
  <2> QED
    BY <1>7, <2>1, SeqDef
<1>12. \A i \in W : \E k \in DOMAIN g : g[k] = Entry(i)
  BY <1>7, <1>10
<1>13. \A j, k \in DOMAIN g : j < k => g[j].task < g[k].task
  BY <1>7, <1>10
<1> QED
  BY <1>11, <1>12, <1>13 DEF W, g

-----------------------------------------------------------------------------
(* Dispatched is inductive.                                                *)

LEMMA InitDispatched == Init => Dispatched
<1> SUFFICES ASSUME Init PROVE Dispatched
  OBVIOUS
<1>1. sends = <<>> /\ branch = <<>> /\ dispatched = <<>> /\ plan = NoPlan /\ crashes = 0
      /\ phase = "planning"
  BY DEF Init
<1>2. DOMAIN sends = {} /\ branch \in [DOMAIN sends -> Branches]
  BY <1>1
<1>3. dispatched \in Seq(Nat \ {0}) /\ Len(dispatched) = 0
  BY <1>1
<1>4. sends \in Plans \cup {NoPlan, <<GeneralReview>>}
  BY <1>1 DEF NoPlan
<1> QED
  BY <1>1, <1>2, <1>3, <1>4, PassesAssumption, SMT DEF Dispatched

LEMMA DispatchIsDispatched ==
  ASSUME Dispatched, Dispatch
  PROVE  Dispatched'
<1>1. /\ phase = "dispatching" /\ phase' = "gathering" /\ sends' = Sends /\ plan' = plan
      /\ branch' = [i \in DOMAIN Sends |-> Waiting] /\ crashes' = crashes
      /\ dispatched' = Append(dispatched, Len(Sends))
  BY DEF Dispatch
<1>2. /\ Sends \in Plans \cup {NoPlan, <<GeneralReview>>} /\ Len(Sends) \in Nat \ {0}
  BY PlansHaveTasks DEF Dispatched
<1>3. dispatched \in Seq(Nat \ {0}) /\ Len(dispatched) \in Nat /\ Len(dispatched) < MaxPasses
  BY <1>1, LenProperties DEF Dispatched
<1>4. /\ dispatched' \in Seq(Nat \ {0}) /\ Len(dispatched') = Len(dispatched) + 1
      /\ dispatched'[Len(dispatched) + 1] = Len(Sends)
  BY <1>1, <1>2, <1>3, AppendProperties
<1>5. Waiting \in Branches /\ Waiting.at # "done"
  BY DEF Waiting, Branches
<1>6. branch' \in [DOMAIN sends' -> Branches] /\ \A i \in DOMAIN sends' : Progress(branch'[i], sends'[i])
  BY <1>1, <1>5 DEF Progress
<1>7. /\ Len(dispatched') <= MaxPasses /\ Len(dispatched') > 0
      /\ dispatched'[Len(dispatched')] = Len(sends')
  BY <1>1, <1>3, <1>4, PassesAssumption, SMT
<1> QED
  BY <1>1, <1>2, <1>4, <1>6, <1>7 DEF Dispatched

LEMMA BranchIsDispatched ==
  ASSUME Dispatched, NEW i \in DOMAIN branch, Start(i) \/ Finish(i)
  PROVE  /\ Dispatched' /\ phase' = phase /\ dispatched' = dispatched
         /\ acc' = acc /\ bundle' = bundle
<1>1. i \in DOMAIN sends /\ branch \in [DOMAIN sends -> Branches] /\ sends' = sends
  BY DEF Dispatched, Start, Finish
<1>2. sends[i] \in TaskTypes
  BY <1>1, SendsAreTasks, ElementOfSeq
<1>3. ASSUME NEW b \in Branches, Progress(b, sends[i]), branch' = [branch EXCEPT ![i] = b]
      PROVE  /\ branch' \in [DOMAIN sends' -> Branches]
             /\ \A j \in DOMAIN sends' : Progress(branch'[j], sends'[j])
  BY <1>1, <1>3 DEF Dispatched
<1>4. CASE Start(i)
  <2> DEFINE b == [branch[i] EXCEPT !.at = "running"]
  <2>1. b \in Branches /\ b.at = "running"
    BY <1>1 DEF Branches
  <2>2. branch' = [branch EXCEPT ![i] = b]
    BY <1>4 DEF Start
  <2>3. Progress(b, sends[i])
    BY <2>1 DEF Progress
  <2> HIDE DEF b
  <2>4. /\ branch' \in [DOMAIN sends' -> Branches]
        /\ \A j \in DOMAIN sends' : Progress(branch'[j], sends'[j])
    BY <1>3, <2>1, <2>2, <2>3
  <2> QED
    BY <1>4, <2>4 DEF Dispatched, Start
<1>5. CASE Finish(i)
  <2>1. PICK fields \in Outcomes(sends[i]) :
          branch' = [branch EXCEPT ![i] = [at |-> "done", wrote |-> fields]]
    BY <1>5 DEF Finish
  <2> DEFINE b == [at |-> "done", wrote |-> fields]
  <2>2. b \in Branches
    BY <1>2, OutcomesAreClean DEF Branches
  <2>3. Progress(b, sends[i])
    BY DEF Progress
  <2>4. /\ branch' \in [DOMAIN sends' -> Branches]
        /\ \A j \in DOMAIN sends' : Progress(branch'[j], sends'[j])
    BY <1>3, <2>1, <2>2, <2>3
  <2> QED
    BY <1>5, <2>4 DEF Dispatched, Finish
<1> QED
  BY <1>4, <1>5

LEMMA ResumeIsDispatched ==
  ASSUME Dispatched, Resume
  PROVE  Dispatched'
<1>1. PICK kept \in SUBSET {i \in DOMAIN branch : branch[i].at = "done"} :
        branch' = [i \in DOMAIN branch |-> IF i \in kept THEN branch[i] ELSE Waiting]
  BY DEF Resume
<1>2. /\ phase = "crashed" /\ phase' = "gathering" /\ plan' = plan /\ sends' = sends
      /\ dispatched' = dispatched /\ crashes' = crashes
  BY DEF Resume
<1>3. Waiting \in Branches /\ Waiting.at # "done"
  BY DEF Waiting, Branches
<1>4. DOMAIN branch = DOMAIN sends
  BY DEF Dispatched
<1>5. ASSUME NEW i \in DOMAIN sends
      PROVE  branch'[i] \in Branches /\ Progress(branch'[i], sends[i])
  <2>1. branch[i] \in Branches /\ Progress(branch[i], sends[i])
    BY DEF Dispatched
  <2> QED
    BY <1>1, <1>3, <1>4, <2>1 DEF Progress
<1>6. branch' \in [DOMAIN sends -> Branches]
  <2>1. \A i \in DOMAIN sends : branch'[i] \in Branches
    BY <1>5
  <2>2. branch' = [i \in DOMAIN sends |-> branch'[i]]
    BY <1>1, <1>4
  <2> QED
    BY <2>1, <2>2, Zenon
<1> QED
  BY <1>2, <1>5, <1>6 DEF Dispatched

-----------------------------------------------------------------------------
(* The ledger.                                                             *)

LEMMA MergedOnes ==
  ASSUME NEW x
  PROVE  x \in MergedTasks <=>
           \E p \in 1..Merged : \E i \in 1..dispatched[p] : x = [pass |-> p, task |-> i]
BY DEF MergedTasks

LEMMA MergedBounds ==
  ASSUME Dispatched
  PROVE  /\ Merged \in Nat /\ Merged <= Len(dispatched) /\ Len(dispatched) \in Nat
         /\ Merged <= MaxPasses
         /\ \A p \in 1..Len(dispatched) : dispatched[p] \in Nat \ {0}
         /\ MergedTasks \subseteq Tags
<1>1. dispatched \in Seq(Nat \ {0}) /\ Len(dispatched) \in Nat
  BY LenProperties DEF Dispatched
<1>2. \A p \in 1..Len(dispatched) : dispatched[p] \in Nat \ {0}
  BY <1>1, ElementOfSeq
<1>3. /\ Merged \in Nat /\ Merged <= Len(dispatched) /\ Len(dispatched) <= MaxPasses
  BY <1>1, SMT DEF Dispatched, Merged
<1>4. Merged <= MaxPasses
  BY <1>1, <1>3, PassesAssumption, SMT
<1>5. ASSUME NEW x \in MergedTasks PROVE x \in Tags
  <2>1. PICK p \in 1..Merged : \E i \in 1..dispatched[p] : x = [pass |-> p, task |-> i]
    BY MergedOnes
  <2>2. p \in 1..Len(dispatched) /\ p \in 1..MaxPasses
    BY <1>1, <1>3, <1>4, PassesAssumption, SMT
  <2>3. dispatched[p] \in Nat
    BY <1>2, <2>2
  <2>4. PICK i \in 1..dispatched[p] : x = [pass |-> p, task |-> i]
    BY <2>1
  <2>5. i \in Nat \ {0}
    BY <2>3, <2>4, SMT
  <2> QED
    BY <2>2, <2>4, <2>5 DEF Tags
<1> QED
  BY <1>1, <1>2, <1>3, <1>4, <1>5

LEMMA LedgerKept ==
  ASSUME Ledger, acc' = acc, MergedTasks' = MergedTasks
  PROVE  Ledger'
<1>1. \A f : Entries(f)' = Entries(f)
  BY DEF Entries
<1>2. FailedBranchesLeaveNoEvidence' /\ MergeIsOrderedOnce'
  BY <1>1 DEF Ledger, FailedBranchesLeaveNoEvidence, MergeIsOrderedOnce, Before
<1> QED
  BY <1>1, <1>2 DEF Ledger

\* A new pass is not merged yet.
LEMMA DispatchMergesNothing ==
  ASSUME Dispatched, Dispatch
  PROVE  MergedTasks' = MergedTasks
<1>1. /\ phase = "dispatching" /\ phase' = "gathering"
      /\ dispatched' = Append(dispatched, Len(Sends))
  BY DEF Dispatch
<1>2. Len(Sends) \in Nat \ {0} /\ dispatched \in Seq(Nat \ {0})
  BY PlansHaveTasks DEF Dispatched
<1>3. /\ Len(dispatched') = Len(dispatched) + 1 /\ Len(dispatched) \in Nat
      /\ \A p \in 1..Len(dispatched) : dispatched'[p] = dispatched[p]
  BY <1>1, <1>2, AppendProperties, LenProperties
<1>4. Merged' = Len(dispatched) /\ Merged = Len(dispatched)
  BY <1>1, <1>3, SMT DEF Merged
<1> QED
  BY <1>3, <1>4 DEF MergedTasks

LEMMA JoinKeepsLedger ==
  ASSUME Dispatched, Ledger, Join
  PROVE  Ledger'
<1> DEFINE new == Len(dispatched)
           G(f) == Gathered(f, SendOrder)
<1>1. /\ phase = "gathering" /\ \A i \in DOMAIN branch : branch[i].at = "done"
      /\ phase' = "merging" /\ dispatched' = dispatched
      /\ acc' = [f \in Fields |-> acc[f] \o G(f)]
  BY DEF Join, AllDone
<1>2. /\ new \in Nat \ {0} /\ dispatched[new] = Len(sends) /\ new <= MaxPasses
      /\ DOMAIN sends = 1..Len(sends) /\ DOMAIN branch = DOMAIN sends /\ Len(sends) \in Nat
  BY <1>1, SendsAreTasks, MergedBounds DEF Dispatched
<1>3. Merged = new - 1 /\ Merged' = new
  BY <1>1 DEF Merged
<1> HIDE DEF new, G
<1>4. ASSUME NEW i \in DOMAIN sends
      PROVE  /\ "execution_history" \in branch[i].wrote
             /\ "reasoning" \in branch[i].wrote \/ "errors" \in branch[i].wrote
             /\ "errors" \in branch[i].wrote => branch[i].wrote = {"errors", "execution_history"}
  <2>1. sends[i] \in TaskTypes
    BY SendsAreTasks, ElementOfSeq
  <2>2. branch[i].wrote \in Outcomes(sends[i])
    BY <1>1, <1>2 DEF Dispatched, Progress
  <2> QED
    BY <2>1, <2>2, OutcomesAreClean
<1>5. /\ Writers("execution_history") = DOMAIN sends
      /\ Writers("reasoning") \cup Writers("errors") = DOMAIN sends
      /\ \A f : Writers(f) \subseteq DOMAIN sends
      /\ \A f \in Fields \ {"errors", "execution_history"} : Writers(f) \cap Writers("errors") = {}
  BY <1>2, <1>4 DEF Writers
<1>6. \A i : Entry(i) = [pass |-> new, task |-> i]
  BY DEF Entry, new
<1>7. MergedTasks' = MergedTasks \cup {Entry(i) : i \in DOMAIN sends}
  <2>1. \A x : x \in MergedTasks' <=>
                 \E p \in 1..new : \E i \in 1..dispatched[p] : x = [pass |-> p, task |-> i]
    BY <1>1, <1>3 DEF MergedTasks
  <2>2. \A x : x \in MergedTasks <=>
                 \E p \in 1..(new - 1) : \E i \in 1..dispatched[p] : x = [pass |-> p, task |-> i]
    BY <1>3, MergedOnes
  <2>3. 1..new = (1..(new - 1)) \cup {new}
    BY <1>2, SMT
  <2> QED
    BY <1>2, <1>6, <2>1, <2>2, <2>3
<1>8. \A i \in DOMAIN sends : Entry(i) \in Tags /\ Entry(i) \notin MergedTasks
  <2> SUFFICES ASSUME NEW i \in DOMAIN sends
               PROVE  Entry(i) \in Tags /\ Entry(i) \notin MergedTasks
    OBVIOUS
  <2>1. new \in 1..MaxPasses /\ i \in Nat \ {0}
    BY <1>2, PassesAssumption, SMT
  <2>2. \A p \in 1..Merged : p # new
    BY <1>2, <1>3, SMT
  <2>3. Entry(i) \in Tags
    BY <1>6, <2>1 DEF Tags
  <2>4. ASSUME Entry(i) \in MergedTasks PROVE FALSE
    <3>1. PICK p \in 1..Merged : \E j \in 1..dispatched[p] : Entry(i) = [pass |-> p, task |-> j]
      BY <2>4, MergedOnes
    <3>2. Entry(i).pass = p
      BY <3>1
    <3>3. Entry(i).pass = new
      BY <1>6
    <3> QED
      BY <2>2, <3>2, <3>3
  <2> QED
    BY <2>3, <2>4
<1>9. ASSUME NEW f \in Fields
      PROVE  /\ acc[f] \in Seq(Tags) /\ G(f) \in Seq(Tags) /\ acc'[f] = acc[f] \o G(f)
             /\ \A k \in DOMAIN G(f) : G(f)[k] \in {Entry(i) : i \in Writers(f)}
             /\ \A i \in Writers(f) : \E k \in DOMAIN G(f) : G(f)[k] = Entry(i)
             /\ \A j, k \in DOMAIN G(f) : j < k => G(f)[j].task < G(f)[k].task
  <2>1. acc[f] \in Seq(Tags) /\ acc'[f] = acc[f] \o G(f)
    BY <1>1 DEF Ledger
  <2>2. /\ G(f) \in Seq({Entry(i) : i \in Writers(f)})
        /\ \A i \in Writers(f) : \E k \in DOMAIN G(f) : G(f)[k] = Entry(i)
        /\ \A j, k \in DOMAIN G(f) : j < k => G(f)[j].task < G(f)[k].task
    BY GatheredInOrder DEF G
  <2>3. {Entry(i) : i \in Writers(f)} \subseteq Tags
    BY <1>5, <1>8
  <2>4. \A k \in DOMAIN G(f) : G(f)[k] \in {Entry(i) : i \in Writers(f)}
    BY <2>2, ElementOfSeq, LenProperties
  <2>5. G(f) \in Seq(Tags)
    BY <2>2, <2>3, SMT
  <2> QED
    BY <2>1, <2>2, <2>4, <2>5
<1>10. ASSUME NEW f \in Fields
       PROVE  /\ acc'[f] \in Seq(Tags)
              /\ Len(acc[f]) \in Nat /\ Len(G(f)) \in Nat
              /\ DOMAIN acc[f] = 1..Len(acc[f]) /\ DOMAIN G(f) = 1..Len(G(f))
              /\ DOMAIN acc'[f] = 1..(Len(acc[f]) + Len(G(f)))
              /\ \A k \in 1..(Len(acc[f]) + Len(G(f))) :
                   acc'[f][k] = IF k <= Len(acc[f]) THEN acc[f][k] ELSE G(f)[k - Len(acc[f])]
  <2>1. acc[f] \in Seq(Tags) /\ G(f) \in Seq(Tags) /\ acc'[f] = acc[f] \o G(f)
    BY <1>9
  <2> DEFINE a == acc[f]
             g == G(f)
  <2> HIDE DEF a, g
  <2>2. /\ a \o g \in Seq(Tags) /\ Len(a \o g) = Len(a) + Len(g)
        /\ \A k \in 1..Len(a) + Len(g) : (a \o g)[k] = IF k <= Len(a) THEN a[k] ELSE g[k - Len(a)]
    BY <2>1, ConcatProperties DEF a, g
  <2>3. /\ Len(a) \in Nat /\ Len(g) \in Nat /\ DOMAIN a = 1..Len(a) /\ DOMAIN g = 1..Len(g)
        /\ DOMAIN (a \o g) = 1..Len(a \o g)
    BY <2>1, <2>2, LenProperties DEF a, g
  <2> QED
    BY <2>1, <2>2, <2>3 DEF a, g
<1>11. ASSUME NEW f \in Fields
       PROVE  Entries(f)' = Entries(f) \cup {Entry(i) : i \in Writers(f)}
  <2> DEFINE a == acc[f]
             g == G(f)
             b == acc'[f]
  <2>1. /\ Len(a) \in Nat /\ Len(g) \in Nat /\ DOMAIN a = 1..Len(a) /\ DOMAIN g = 1..Len(g)
        /\ DOMAIN b = 1..(Len(a) + Len(g))
        /\ \A k \in 1..(Len(a) + Len(g)) : b[k] = IF k <= Len(a) THEN a[k] ELSE g[k - Len(a)]
        /\ \A k \in DOMAIN g : g[k] \in {Entry(i) : i \in Writers(f)}
        /\ \A i \in Writers(f) : \E k \in DOMAIN g : g[k] = Entry(i)
    BY <1>9, <1>10
  <2>2. Entries(f) = {a[k] : k \in DOMAIN a} /\ Entries(f)' = {b[k] : k \in DOMAIN b}
    BY DEF Entries
  <2> HIDE DEF a, g, b
  <2>3. ASSUME NEW k \in DOMAIN b PROVE b[k] \in {a[j] : j \in DOMAIN a} \cup {Entry(i) : i \in Writers(f)}
    <3>1. CASE k <= Len(a)
      BY <2>1, <3>1
    <3>2. CASE ~(k <= Len(a))
      <4>1. k - Len(a) \in DOMAIN g /\ b[k] = g[k - Len(a)]
        BY <2>1, <3>2, SMT
      <4> QED
        BY <2>1, <4>1
    <3> QED
      BY <3>1, <3>2
  <2>4. ASSUME NEW k \in DOMAIN a PROVE a[k] \in {b[j] : j \in DOMAIN b}
    <3>1. k \in DOMAIN b /\ b[k] = a[k]
      BY <2>1, SMT
    <3> QED
      BY <3>1
  <2>5. ASSUME NEW i \in Writers(f) PROVE Entry(i) \in {b[j] : j \in DOMAIN b}
    <3>1. PICK k \in DOMAIN g : g[k] = Entry(i)
      BY <2>1
    <3>2. k \in 1..Len(g)
      BY <2>1
    <3>3. k + Len(a) \in DOMAIN b /\ b[k + Len(a)] = g[k]
      BY <2>1, <3>2, SMT
    <3> QED
      BY <3>1, <3>3
  <2> QED
    BY <2>2, <2>3, <2>4, <2>5
<1>12. acc' \in [Fields -> Seq(Tags)]
  <2>1. \A f \in Fields : acc[f] \o G(f) \in Seq(Tags)
    BY <1>9, <1>10
  <2> QED
    BY <1>1, <2>1
<1>13. \A f \in Fields : Entries(f)' \subseteq MergedTasks'
  BY <1>5, <1>7, <1>11 DEF Ledger
<1>14. {"execution_history", "reasoning", "errors"} \subseteq Fields
  BY DEF Fields
<1>15. /\ Entries("execution_history")' = MergedTasks'
       /\ Entries("reasoning")' \cup Entries("errors")' = MergedTasks'
  <2>1. Entries("execution_history")' = Entries("execution_history") \cup {Entry(i) : i \in DOMAIN sends}
    BY <1>5, <1>11, <1>14
  <2>2. /\ Entries("reasoning")' = Entries("reasoning") \cup {Entry(i) : i \in Writers("reasoning")}
        /\ Entries("errors")' = Entries("errors") \cup {Entry(i) : i \in Writers("errors")}
    BY <1>11, <1>14
  <2>3. {Entry(i) : i \in Writers("reasoning")} \cup {Entry(i) : i \in Writers("errors")}
          = {Entry(i) : i \in DOMAIN sends}
    BY <1>5
  <2> QED
    BY <1>7, <2>1, <2>2, <2>3 DEF Ledger
<1>16. ASSUME NEW f \in Fields \ {"errors", "execution_history"}
       PROVE  Entries(f)' \cap Entries("errors")' = {}
  <2>1. /\ Entries(f)' = Entries(f) \cup {Entry(i) : i \in Writers(f)}
        /\ Entries("errors")' = Entries("errors") \cup {Entry(i) : i \in Writers("errors")}
    BY <1>11, <1>14
  <2>2. Entries(f) \cap Entries("errors") = {}
    BY DEF Ledger, FailedBranchesLeaveNoEvidence
  <2>3. Entries(f) \subseteq MergedTasks /\ Entries("errors") \subseteq MergedTasks
    BY <1>14 DEF Ledger
  <2>4. {Entry(i) : i \in Writers(f)} \cap MergedTasks = {}
    BY <1>5, <1>8
  <2>5. {Entry(i) : i \in Writers("errors")} \cap MergedTasks = {}
    BY <1>5, <1>8
  <2>6. {Entry(i) : i \in Writers(f)} \cap {Entry(i) : i \in Writers("errors")} = {}
    <3>1. \A i, j : Entry(i) = Entry(j) => i = j
      BY <1>6
    <3> QED
      BY <1>5, <3>1
  <2> QED
    BY <2>1, <2>2, <2>3, <2>4, <2>5, <2>6
<1>17. ASSUME NEW f \in Fields, NEW j \in DOMAIN acc'[f], NEW k \in DOMAIN acc'[f], j < k
       PROVE  Before(acc'[f][j], acc'[f][k])
  <2> DEFINE a == acc[f]
             g == G(f)
             b == acc'[f]
  <2>1. /\ Len(a) \in Nat /\ Len(g) \in Nat /\ DOMAIN a = 1..Len(a) /\ DOMAIN g = 1..Len(g)
        /\ DOMAIN b = 1..(Len(a) + Len(g))
        /\ \A n \in 1..(Len(a) + Len(g)) : b[n] = IF n <= Len(a) THEN a[n] ELSE g[n - Len(a)]
        /\ \A n \in DOMAIN g : g[n] \in {Entry(i) : i \in Writers(f)}
        /\ \A m, n \in DOMAIN g : m < n => g[m].task < g[n].task
    BY <1>9, <1>10
  <2>2. \A m, n \in DOMAIN a : m < n => Before(a[m], a[n])
    BY DEF Ledger, MergeIsOrderedOnce
  <2>3. \A n \in DOMAIN a : a[n] \in MergedTasks
    BY DEF Ledger, Entries
  <2>4. j \in DOMAIN b /\ k \in DOMAIN b
    OBVIOUS
  <2> HIDE DEF a, g, b
  <2>5. \A n \in DOMAIN g : g[n].pass = new
    BY <1>6, <2>1
  <2>6. \A n \in DOMAIN a : a[n].pass < new
    <3> SUFFICES ASSUME NEW n \in DOMAIN a PROVE a[n].pass < new
      OBVIOUS
    <3>1. PICK p \in 1..Merged : \E i \in 1..dispatched[p] : a[n] = [pass |-> p, task |-> i]
      BY <2>3, MergedOnes
    <3>2. a[n].pass = p
      BY <3>1
    <3> QED
      BY <1>2, <1>3, <3>2, SMT
  <2>7. CASE k <= Len(a)
    <3>1. j \in DOMAIN a /\ k \in DOMAIN a /\ b[j] = a[j] /\ b[k] = a[k]
      BY <1>17, <2>1, <2>4, <2>7, SMT
    <3> QED
      BY <1>17, <2>2, <3>1 DEF b
  <2>8. CASE j <= Len(a) /\ ~(k <= Len(a))
    <3>1. /\ j \in DOMAIN a /\ k - Len(a) \in DOMAIN g
          /\ b[j] = a[j] /\ b[k] = g[k - Len(a)]
      BY <1>17, <2>1, <2>4, <2>8, SMT
    <3>2. b[j].pass < b[k].pass
      BY <2>5, <2>6, <3>1
    <3> QED
      BY <3>2 DEF b, Before
  <2>9. CASE ~(j <= Len(a))
    <3>1. /\ j - Len(a) \in DOMAIN g /\ k - Len(a) \in DOMAIN g /\ j - Len(a) < k - Len(a)
          /\ b[j] = g[j - Len(a)] /\ b[k] = g[k - Len(a)]
      BY <1>17, <2>1, <2>4, <2>9, SMT
    <3>2. b[j].pass = b[k].pass /\ b[j].task < b[k].task
      BY <2>1, <2>5, <3>1
    <3> QED
      BY <3>2 DEF b, Before
  <2> QED
    BY <2>7, <2>8, <2>9
<1>18. FailedBranchesLeaveNoEvidence' /\ MergeIsOrderedOnce'
  BY <1>16, <1>17 DEF FailedBranchesLeaveNoEvidence, MergeIsOrderedOnce
<1> QED
  BY <1>12, <1>13, <1>15, <1>18 DEF Ledger

-----------------------------------------------------------------------------
(* The bundle.                                                             *)

\* The lines that the first n entries of field f show.
Showing(f, a, n) ==
  {[entry |-> a[x[1]], line |-> x[2]] : x \in
     {y \in (1..n) \X (1..Batch(f)) :
        f \in Windowed => (n - y[1]) * Batch(f) + Batch(f) - y[2] < Limit}}

\* The first n entries of field f are those of the passes up to p.
UpTo(f, a, n, p) == n \in 0..Len(a) /\ \A k \in DOMAIN a : a[k].pass <= p <=> k <= n

\* The bundle has been made of the passes up to p.
MadeAt(p) ==
  \A f \in Shown : \E n \in Nat : UpTo(f, acc[f], n, p) /\ bundle[f] = Showing(f, acc[f], n)

Bundled == \E p \in 0..Merged : MadeAt(p)

LEMMA ShownAreFields == Shown \subseteq Fields
BY DEF Shown, Fields

LEMMA AccIsText ==
  ASSUME Ledger, NEW f \in Fields
  PROVE  /\ acc[f] \in Seq(Tags) /\ Len(acc[f]) \in Nat /\ DOMAIN acc[f] = 1..Len(acc[f])
         /\ \A k \in DOMAIN acc[f] : acc[f][k] \in Tags /\ acc[f][k] \in MergedTasks
<1>1. acc[f] \in Seq(Tags)
  BY DEF Ledger
<1>2. Len(acc[f]) \in Nat /\ DOMAIN acc[f] = 1..Len(acc[f])
  BY <1>1, LenProperties
<1>3. \A k \in DOMAIN acc[f] : acc[f][k] \in Tags
  BY <1>1, <1>2, ElementOfSeq
<1>4. \A k \in DOMAIN acc[f] : acc[f][k] \in MergedTasks
  BY DEF Ledger, Entries
<1> QED
  BY <1>1, <1>2, <1>3, <1>4

LEMMA PassesAreMerged ==
  ASSUME Dispatched, NEW x \in MergedTasks
  PROVE  x.pass \in 1..Merged
<1>1. PICK p \in 1..Merged : \E i \in 1..dispatched[p] : x = [pass |-> p, task |-> i]
  BY MergedOnes
<1> QED
  BY <1>1

\* What the join adds is behind what there was, and of the new pass.
LEMMA JoinAppends ==
  ASSUME Dispatched, Ledger, Join, NEW f \in Fields
  PROVE  /\ DOMAIN acc[f] \subseteq DOMAIN acc'[f]
         /\ \A k \in DOMAIN acc[f] : acc'[f][k] = acc[f][k]
         /\ \A k \in DOMAIN acc'[f] \ DOMAIN acc[f] : acc'[f][k].pass = Len(dispatched)
         /\ Len(acc[f]) <= Len(acc'[f])
<1> DEFINE a == acc[f]
           g == Gathered(f, SendOrder)
           S == Tags \cup {Entry(i) : i \in Writers(f)}
<1>1. acc'[f] = a \o g
  BY DEF Join
<1>2. a \in Seq(Tags) /\ g \in Seq({Entry(i) : i \in Writers(f)})
  BY AccIsText, GatheredInOrder
<1>3. \A i : Entry(i).pass = Len(dispatched)
  BY DEF Entry
<1>4. Len(g) \in Nat /\ DOMAIN g = 1..Len(g) /\ \A k \in DOMAIN g : g[k] \in {Entry(i) : i \in Writers(f)}
  <2> HIDE DEF g
  <2> QED
    BY <1>2, LenProperties, ElementOfSeq
<1>5. \A k \in DOMAIN g : g[k].pass = Len(dispatched)
  BY <1>3, <1>4
<1>6. a \in Seq(S) /\ g \in Seq(S)
  <2> HIDE DEF a, g
  <2> QED
    BY <1>2, SMT
<1> HIDE DEF a, g, S
<1>7. /\ a \o g \in Seq(S) /\ Len(a \o g) = Len(a) + Len(g) /\ Len(a) \in Nat /\ DOMAIN a = 1..Len(a)
      /\ \A k \in 1..Len(a) + Len(g) : (a \o g)[k] = IF k <= Len(a) THEN a[k] ELSE g[k - Len(a)]
  BY <1>6, ConcatProperties, LenProperties
<1>8. DOMAIN (a \o g) = 1..(Len(a) + Len(g))
  BY <1>7, LenProperties
<1>9. \A k \in DOMAIN a : k \in DOMAIN (a \o g) /\ (a \o g)[k] = a[k]
  BY <1>4, <1>7, <1>8, SMT
<1>10. ASSUME NEW k \in DOMAIN (a \o g) \ DOMAIN a PROVE (a \o g)[k].pass = Len(dispatched)
  <2>1. k - Len(a) \in DOMAIN g /\ (a \o g)[k] = g[k - Len(a)]
    BY <1>4, <1>7, <1>8, SMT
  <2> QED
    BY <1>5, <2>1
<1>11. Len(a) <= Len(a \o g)
  BY <1>4, <1>7, SMT
<1> QED
  BY <1>1, <1>9, <1>10, <1>11 DEF a

LEMMA JoinKeepsBundle ==
  ASSUME Dispatched, Ledger, Bundled, Join
  PROVE  Bundled'
<1>1. PICK p \in 0..Merged : MadeAt(p)
  BY DEF Bundled
<1>2. /\ phase = "gathering" /\ phase' = "merging" /\ dispatched' = dispatched /\ bundle' = bundle
  BY DEF Join, AllDone
<1>3. Len(dispatched) \in Nat /\ Merged = Len(dispatched) - 1 /\ Merged' = Len(dispatched)
  BY <1>2, MergedBounds DEF Merged
<1>4. p \in 0..Merged' /\ p < Len(dispatched) /\ p \in Nat
  BY <1>1, <1>3, MergedBounds, SMT
<1>5. ASSUME NEW f \in Shown
      PROVE  \E n \in Nat : UpTo(f, acc'[f], n, p) /\ bundle'[f] = Showing(f, acc'[f], n)
  <2>1. f \in Fields
    BY ShownAreFields
  <2>2. PICK n \in Nat : UpTo(f, acc[f], n, p) /\ bundle[f] = Showing(f, acc[f], n)
    BY <1>1 DEF MadeAt
  <2>3. /\ \A k \in DOMAIN acc[f] : k \in DOMAIN acc'[f] /\ acc'[f][k] = acc[f][k]
        /\ \A k \in DOMAIN acc'[f] \ DOMAIN acc[f] : acc'[f][k].pass = Len(dispatched)
        /\ Len(acc[f]) <= Len(acc'[f])
    BY <2>1, JoinAppends
  <2>4. Len(acc[f]) \in Nat /\ DOMAIN acc[f] = 1..Len(acc[f]) /\ n \in 0..Len(acc[f])
    BY <2>1, <2>2, AccIsText DEF UpTo
  <2>5. Len(acc'[f]) \in Nat /\ DOMAIN acc'[f] = 1..Len(acc'[f])
    <3>1. Ledger'
      BY JoinKeepsLedger
    <3>2. acc'[f] \in Seq(Tags)
      BY <2>1, <3>1 DEF Ledger
    <3> QED
      BY <3>2, LenProperties
  <2>6. n \in 0..Len(acc'[f])
    BY <2>3, <2>4, <2>5, SMT
  <2>7. ASSUME NEW k \in DOMAIN acc'[f] PROVE acc'[f][k].pass <= p <=> k <= n
    <3>1. CASE k \in DOMAIN acc[f]
      BY <2>2, <2>3, <3>1 DEF UpTo
    <3>2. CASE k \notin DOMAIN acc[f]
      <4>1. ~(k <= n)
        BY <2>4, <2>5, <3>2, SMT
      <4>2. acc'[f][k].pass = Len(dispatched)
        BY <2>3, <3>2
      <4>3. ~(Len(dispatched) <= p)
        BY <1>3, <1>4, SMT
      <4> QED
        BY <4>1, <4>2, <4>3
    <3> QED
      BY <3>1, <3>2
  <2>8. \A k \in 1..n : acc'[f][k] = acc[f][k]
    BY <2>3, <2>4, SMT
  <2>9. Showing(f, acc'[f], n) = Showing(f, acc[f], n)
    BY <2>8 DEF Showing
  <2> QED
    BY <1>2, <2>2, <2>6, <2>7, <2>9 DEF UpTo
<1> QED
  BY <1>4, <1>5 DEF Bundled, MadeAt

LEMMA MergeKeepsBundle ==
  ASSUME Dispatched, Ledger, Bundled, MergeResults
  PROVE  Bundled'
<1>1. /\ phase = "merging" /\ phase' = "planning" /\ acc' = acc /\ dispatched' = dispatched
      /\ bundle' \in {bundle, [f \in Shown |-> Visible(f)]}
  BY DEF MergeResults
<1>2. Merged' = Merged
  BY <1>1 DEF Merged
<1>3. CASE bundle' = bundle
  BY <1>1, <1>2, <1>3 DEF Bundled, MadeAt
<1>4. CASE bundle' = [f \in Shown |-> Visible(f)]
  <2>1. ASSUME NEW f \in Shown
        PROVE  /\ Len(acc[f]) \in Nat
               /\ UpTo(f, acc[f], Len(acc[f]), Merged)
               /\ bundle'[f] = Showing(f, acc[f], Len(acc[f]))
    <3>1. /\ Len(acc[f]) \in Nat /\ DOMAIN acc[f] = 1..Len(acc[f])
          /\ \A k \in DOMAIN acc[f] : acc[f][k] \in MergedTasks
      BY AccIsText, ShownAreFields
    <3>2. \A k \in DOMAIN acc[f] : acc[f][k].pass <= Merged
      BY <3>1, PassesAreMerged, MergedBounds
    <3>3. UpTo(f, acc[f], Len(acc[f]), Merged)
      BY <3>1, <3>2, SMT DEF UpTo
    <3>4. Visible(f) = Showing(f, acc[f], Len(acc[f]))
      BY <3>1 DEF Visible, Showing, LineOf
    <3> QED
      BY <1>4, <3>1, <3>3, <3>4
  <2>2. Merged \in 0..Merged'
    BY <1>2, MergedBounds, SMT
  <2> QED
    BY <1>1, <2>1, <2>2 DEF Bundled, MadeAt
<1> QED
  BY <1>1, <1>3, <1>4

-----------------------------------------------------------------------------
(* The invariant.                                                          *)

EvidenceInv == Dispatched /\ Ledger /\ Bundled

LEMMA InitEvidenceInv == Init => EvidenceInv
<1> SUFFICES ASSUME Init PROVE EvidenceInv
  OBVIOUS
<1>1. /\ acc = [f \in Fields |-> <<>>] /\ bundle = [f \in Shown |-> {}] /\ dispatched = <<>>
      /\ phase = "planning"
  BY DEF Init
<1>2. Merged = 0 /\ MergedTasks = {}
  <2>1. Merged = 0
    BY <1>1 DEF Merged
  <2> QED
    BY <2>1 DEF MergedTasks
<1>3. /\ \A f \in Fields : acc[f] = <<>> /\ Entries(f) = {}
      /\ acc \in [Fields -> Seq(Tags)]
  BY <1>1 DEF Entries
<1>4. {"execution_history", "reasoning", "errors"} \subseteq Fields
  BY DEF Fields
<1>5. FailedBranchesLeaveNoEvidence /\ MergeIsOrderedOnce
  BY <1>3, <1>4 DEF FailedBranchesLeaveNoEvidence, MergeIsOrderedOnce
<1>6. Ledger
  BY <1>2, <1>3, <1>4, <1>5 DEF Ledger
<1>7. ASSUME NEW f \in Shown
      PROVE  UpTo(f, acc[f], 0, 0) /\ bundle[f] = Showing(f, acc[f], 0)
  <2>1. acc[f] = <<>> /\ bundle[f] = {}
    BY <1>1, <1>3, ShownAreFields
  <2>2. UpTo(f, acc[f], 0, 0)
    BY <2>1 DEF UpTo
  <2>3. (1..0) \X (1..Batch(f)) = {}
    BY SMT
  <2>4. Showing(f, acc[f], 0) = {}
    BY <2>3 DEF Showing
  <2> QED
    BY <2>1, <2>2, <2>4
<1>8. Bundled
  BY <1>2, <1>7 DEF Bundled, MadeAt
<1> QED
  BY <1>6, <1>8, InitDispatched DEF EvidenceInv

\* Steps that merge nothing and render nothing.
LEMMA BundleKept ==
  ASSUME Bundled, acc' = acc, bundle' = bundle, Merged' = Merged
  PROVE  Bundled'
BY DEF Bundled, MadeAt

LEMMA NextEvidenceInv == EvidenceInv /\ [Next]_vars => EvidenceInv'
<1> SUFFICES ASSUME EvidenceInv, [Next]_vars PROVE EvidenceInv'
  OBVIOUS
<1>1. Dispatched /\ Ledger /\ Bundled
  BY DEF EvidenceInv
<1>2. ASSUME Dispatched', acc' = acc, bundle' = bundle, MergedTasks' = MergedTasks, Merged' = Merged
      PROVE  EvidenceInv'
  BY <1>1, <1>2, LedgerKept, BundleKept DEF EvidenceInv
<1>3. CASE UNCHANGED vars
  <2>1. Merged' = Merged /\ MergedTasks' = MergedTasks
    BY <1>3 DEF vars, Merged, MergedTasks
  <2>2. Dispatched'
    BY <1>1, <1>3 DEF Dispatched, vars
  <2> QED
    BY <1>2, <1>3, <2>1, <2>2 DEF vars
<1>4. CASE Planner
  <2>1. /\ phase = "planning" /\ phase' = "dispatching" /\ Len(dispatched) < MaxPasses
        /\ plan' \in Plans \cup {plan}
        /\ UNCHANGED <<sends, branch, acc, bundle, dispatched, crashes>>
    BY <1>4 DEF Planner
  <2>2. Dispatched'
    BY <1>1, <2>1 DEF Dispatched
  <2>3. Merged' = Merged
    BY <2>1 DEF Merged
  <2>4. MergedTasks' = MergedTasks
    BY <2>1, <2>3 DEF MergedTasks
  <2> QED
    BY <1>2, <2>1, <2>2, <2>3, <2>4
<1>5. CASE Dispatch
  <2>1. acc' = acc /\ bundle' = bundle /\ phase = "dispatching" /\ phase' = "gathering"
        /\ dispatched' = Append(dispatched, Len(Sends))
    BY <1>5 DEF Dispatch
  <2>2. Len(dispatched') = Len(dispatched) + 1 /\ Len(dispatched) \in Nat
    <3>1. Len(Sends) \in Nat \ {0} /\ dispatched \in Seq(Nat \ {0})
      BY <1>1, PlansHaveTasks DEF Dispatched
    <3> QED
      BY <2>1, <3>1, AppendProperties, LenProperties
  <2>3. Merged' = Merged
    BY <2>1, <2>2, SMT DEF Merged
  <2> QED
    BY <1>1, <1>2, <1>5, <2>1, <2>3, DispatchIsDispatched, DispatchMergesNothing
<1>6. ASSUME NEW i \in DOMAIN branch, Start(i) \/ Finish(i) PROVE EvidenceInv'
  <2>1. /\ Dispatched' /\ phase' = phase /\ dispatched' = dispatched
        /\ acc' = acc /\ bundle' = bundle
    BY <1>1, <1>6, BranchIsDispatched
  <2>2. Merged' = Merged
    BY <2>1 DEF Merged
  <2>3. MergedTasks' = MergedTasks
    BY <2>1, <2>2 DEF MergedTasks
  <2> QED
    BY <1>2, <2>1, <2>2, <2>3
<1>7. CASE Join
  <2>1. Dispatched'
    BY <1>1, <1>7 DEF Dispatched, Join
  <2> QED
    BY <1>1, <1>7, <2>1, JoinKeepsLedger, JoinKeepsBundle DEF EvidenceInv
<1>8. CASE MergeResults
  <2>1. /\ phase = "merging" /\ phase' = "planning" /\ acc' = acc
        /\ UNCHANGED <<plan, sends, branch, dispatched, crashes>>
    BY <1>8 DEF MergeResults
  <2>2. Dispatched'
    BY <1>1, <2>1 DEF Dispatched
  <2>3. MergedTasks' = MergedTasks
    BY <2>1 DEF Merged, MergedTasks
  <2> QED
    BY <1>1, <1>8, <2>1, <2>2, <2>3, LedgerKept, MergeKeepsBundle DEF EvidenceInv
<1>9. CASE Crash
  <2>1. /\ phase = "gathering" /\ phase' = "crashed" /\ crashes < MaxCrashes /\ crashes' = crashes + 1
        /\ UNCHANGED <<plan, sends, branch, acc, bundle, dispatched>>
    BY <1>9 DEF Crash
  <2>2. crashes' \in 0..MaxCrashes
    BY <1>1, <2>1, PassesAssumption, SMT DEF Dispatched
  <2>3. Dispatched'
    BY <1>1, <2>1, <2>2 DEF Dispatched
  <2>4. Merged' = Merged
    BY <2>1 DEF Merged
  <2>5. MergedTasks' = MergedTasks
    BY <2>1, <2>4 DEF MergedTasks
  <2> QED
    BY <1>2, <2>1, <2>3, <2>4, <2>5
<1>10. CASE Resume
  <2>1. /\ phase = "crashed" /\ phase' = "gathering" /\ UNCHANGED <<acc, bundle, dispatched>>
    BY <1>10 DEF Resume
  <2>2. Merged' = Merged
    BY <2>1 DEF Merged
  <2>3. MergedTasks' = MergedTasks
    BY <2>1, <2>2 DEF MergedTasks
  <2> QED
    BY <1>1, <1>2, <1>10, <2>1, <2>2, <2>3, ResumeIsDispatched
<1> QED
  BY <1>3, <1>4, <1>5, <1>6, <1>7, <1>8, <1>9, <1>10 DEF Next, Gather

LEMMA EvidenceInvAlways == Spec => []EvidenceInv
  BY InitEvidenceInv, NextEvidenceInv, PTL DEF Spec

-----------------------------------------------------------------------------
(* What the simulated tools say of one name fits together.                 *)

\* The worst line of a pod's log is its last.
WorstIsLast(scenario) ==
  \A l \in 1..Len(LogLines(scenario)) :
    LogLines(scenario)[l] <= LogLines(scenario)[Len(LogLines(scenario))]

\* The three tools that log_analysis and metrics_analysis ask about a pod tell one story:
\* it is not ready exactly if its events warn, and exactly if its log ends in something
\* worse than information.
THEOREM PodToolsAgree ==
  ASSUME NEW s \in PodScenarios
  PROVE  /\ PodStatus(s).ready <=> "Warning" \notin Events(s)
         /\ PodStatus(s).ready <=> LogLines(s)[Len(LogLines(s))] = info
         /\ WorstIsLast(s)
<1>1. PodStatus(s).ready <=> s = "healthy"
  BY Zenon DEF PodStatus
<1>2. "Warning" \in Events(s) <=> s # "healthy"
  <2>1. PodStatus(s).reason = "none" <=> s = "healthy"
    BY SMT DEF PodStatus, PodScenarios
  <2> QED
    BY <2>1 DEF Events
<1>3. /\ LogLines(s)[Len(LogLines(s))] = info <=> s = "healthy"
      /\ WorstIsLast(s)
  <2>1. CASE s = "oom_killed"
    <3>1. LogLines(s) = <<info, warning, warning, error>>
      BY <2>1 DEF LogLines
    <3> QED
      BY <2>1, <3>1, SMT DEF WorstIsLast, info, warning, error
  <2>2. CASE s = "probe_failure"
    <3>1. LogLines(s) = <<info, info, warning, warning>>
      BY <2>2 DEF LogLines
    <3> QED
      BY <2>2, <3>1, SMT DEF WorstIsLast, info, warning, error
  <2>3. CASE s = "image_pull_backoff"
    <3>1. LogLines(s) = <<error>>
      BY <2>3 DEF LogLines
    <3> QED
      BY <2>3, <3>1, SMT DEF WorstIsLast, info, warning, error
  <2>4. CASE s = "healthy"
    <3>1. LogLines(s) = <<info, info, info>>
      BY <2>4 DEF LogLines
    <3> QED
      BY <2>4, <3>1, SMT DEF WorstIsLast, info, warning, error
  <2> QED
    BY <2>1, <2>2, <2>3, <2>4 DEF PodScenarios
<1> QED
  BY <1>1, <1>2, <1>3

\* A broker snapshot is consistent in itself: the cluster is called healthy exactly if all
\* its brokers are online, and exactly if none of its partitions is under-replicated.
THEOREM BrokerStatusAgrees ==
  ASSUME NEW s \in BrokerScenarios,
         NEW count \in {3, 5}, NEW under \in 5..60
  PROVE  /\ BrokerStatus(s, count, under).status = "healthy"
              <=> BrokerStatus(s, count, under).online = count
         /\ BrokerStatus(s, count, under).status = "healthy"
              <=> BrokerStatus(s, count, under).under_replicated = 0
<1>1. CASE s = "healthy"
  BY <1>1, SMT DEF BrokerStatus
<1>2. CASE s \in {"one_broker_down", "disk_full"}
  BY <1>2, SMT DEF BrokerStatus
<1>3. CASE s = "controller_unavailable"
  BY <1>3, SMT DEF BrokerStatus
<1> QED
  BY <1>1, <1>2, <1>3 DEF BrokerScenarios

\* The two Redis tools agree on how full the memory is: keys are evicted exactly if it is
\* nearly full.  They do not agree on the policy: keys are evicted exactly where the policy
\* reported is the one that evicts none (_memory_stats_payload, _eviction_stats_payload).
THEOREM CacheToolsAgree ==
  ASSUME NEW s \in MemoryScenarios
  PROVE  /\ Evicts(s) <=> \A percent \in MemoryStats(s).range : percent >= 85
         /\ Evicts(s) <=> MemoryStats(s).policy = "noeviction"
<1>1. CASE s = "healthy"
  <2>1. 20 \in MemoryStats(s).range /\ MemoryStats(s).policy # "noeviction"
    BY <1>1, SMT DEF MemoryStats
  <2> QED
    BY <1>1, <2>1, SMT DEF Evicts
<1>2. CASE s = "near_maxmemory"
  BY <1>2, SMT DEF Evicts, MemoryStats
<1>3. CASE s = "over_maxmemory"
  BY <1>3, SMT DEF Evicts, MemoryStats
<1> QED
  BY <1>1, <1>2, <1>3 DEF MemoryScenarios

\* A window never has fewer than the two samples that the ramp divides by.
LEMMA EnoughPoints ==
  ASSUME NEW minutes \in Int, NEW interval \in Int
  PROVE  NumPoints(minutes, interval) \in Nat /\ NumPoints(minutes, interval) >= 2
<1> DEFINE step == IF interval < 1 THEN 1 ELSE interval
<1>1. step \in Nat /\ step > 0
  BY SMT
<1>2. (minutes * 60) \div step \in Int
  BY <1>1, SMT
<1> QED
  BY <1>2, SMT DEF NumPoints

\* Every series tells of an incident in progress, whatever the window, its interval and
\* the noise: it begins within its threshold and ends beyond it.  So no metric ever clears
\* a component of suspicion, whatever the other tools say of it.
THEOREM SeriesEndsInBreach ==
  ASSUME NEW minutes \in Int, NEW interval \in Int,
         NEW baseline \in Nat, NEW threshold \in Nat \ {0},
         20 * baseline <= 19 * threshold
  PROVE  LET n == NumPoints(minutes, interval)
         IN /\ ~MayBeAnomalous(baseline, threshold, n, 0)
            /\ IsAnomalous(baseline, threshold, n, n - 1)
<1> DEFINE n == NumPoints(minutes, interval)
           m == n - 1
<1>1. n \in Nat /\ m \in Nat /\ m >= 1 /\ m = n - 1
  <2>1. n \in Nat /\ n >= 2
    BY EnoughPoints
  <2> QED
    BY <2>1, SMT
<1> HIDE DEF n, m
<1>2. m * threshold >= 1 /\ m * threshold \in Nat
  BY <1>1, SMT
<1>3. Lowest(baseline, threshold, n, m) = 25 * (m * threshold)
  <2>1. n - 1 - m = 0
    BY <1>1, SMT
  <2> QED
    BY <1>1, <1>2, <2>1, SMT DEF Lowest, Ramp
<1>4. IsAnomalous(baseline, threshold, n, m)
  BY <1>1, <1>2, <1>3, SMT DEF IsAnomalous
<1>5. Highest(baseline, threshold, n, 0) = m * (20 * baseline + threshold)
  BY <1>1, SMT DEF Highest, Ramp
<1>6. m * (20 * baseline + threshold) <= m * (20 * threshold)
  <2>1. 20 * baseline + threshold <= 20 * threshold
    BY SMT
  <2> QED
    BY <1>1, <2>1, SMT
<1>7. ~MayBeAnomalous(baseline, threshold, n, 0)
  BY <1>1, <1>5, <1>6, SMT DEF MayBeAnomalous
<1> QED
  BY <1>1, <1>4, <1>7 DEF n, m

-----------------------------------------------------------------------------
(* The window.                                                             *)

Sizes == {1, 3, 4, 15}

\* A pod logs one, three or four lines; a metric has fifteen samples.
LEMMA BatchSizes ==
  ASSUME NEW f \in Shown
  PROVE  /\ Batch(f) \in Sizes
         /\ f = "logs" => Batch(f) = Len(LogLines(Pod))
<1>1. CASE f = "logs"
  <2>1. Batch(f) = Len(LogLines(Pod))
    BY <1>1 DEF Batch
  <2>2. CASE Pod = "oom_killed"
    BY <2>1, <2>2 DEF LogLines, Sizes
  <2>3. CASE Pod = "probe_failure"
    BY <2>1, <2>3 DEF LogLines, Sizes
  <2>4. CASE Pod = "image_pull_backoff"
    BY <2>1, <2>4 DEF LogLines, Sizes
  <2>5. CASE Pod = "healthy"
    BY <2>1, <2>5 DEF LogLines, Sizes
  <2> QED
    BY <2>1, <2>2, <2>3, <2>4, <2>5, SceneAssumption DEF PodScenarios
<1>2. CASE f = "metrics"
  <2>1. Batch(f) = DefaultPoints
    BY <1>2 DEF Batch
  <2>2. DefaultPoints = 15
    BY SMT DEF DefaultPoints, NumPoints
  <2> QED
    BY <1>2, <2>1, <2>2 DEF Sizes
<1>3. CASE f \notin {"logs", "metrics"}
  <2>1. Batch(f) = 1
    BY <1>3, Zenon DEF Batch
  <2> QED
    BY <1>3, <2>1 DEF Sizes
<1> QED
  BY <1>1, <1>2, <1>3

\* Counted from the newest, line m is in the batch m \div size before the last one.
LEMMA LineAtDistance ==
  ASSUME NEW size \in Sizes, NEW n \in Nat, NEW limit \in Nat, limit <= n * size,
         NEW m \in 0..(limit - 1)
  PROVE  /\ n - (m \div size) \in 1..n /\ size - (m % size) \in 1..size
         /\ (n - (n - (m \div size))) * size + size - (size - (m % size)) = m
<1>1. CASE size = 1
  BY <1>1, SMT
<1>2. CASE size = 3
  BY <1>2, SMT
<1>3. CASE size = 4
  BY <1>3, SMT
<1>4. CASE size = 15
  BY <1>4, SMT
<1> QED
  BY <1>1, <1>2, <1>3, <1>4 DEF Sizes

LEMMA DistanceOfLine ==
  ASSUME NEW size \in Sizes, NEW n \in Nat, NEW k \in 1..n, NEW l \in 1..size
  PROVE  LET m == (n - k) * size + size - l
         IN m \in Nat /\ m \div size = n - k /\ m % size = size - l
<1>1. CASE size = 1
  BY <1>1, SMT
<1>2. CASE size = 3
  BY <1>2, SMT
<1>3. CASE size = 4
  BY <1>3, SMT
<1>4. CASE size = 15
  BY <1>4, SMT
<1> QED
  BY <1>1, <1>2, <1>3, <1>4 DEF Sizes

\* A window that cuts something off is full: its lines are those at the distances below
\* the limit, one each.
LEMMA WindowIsFull ==
  ASSUME NEW f \in Windowed, Batch(f) \in Sizes, NEW a, NEW n \in Nat,
         \A j, k \in 1..n : a[j] = a[k] => j = k,
         Limit <= n * Batch(f)
  PROVE  Cardinality(Showing(f, a, n)) = Limit
<1> DEFINE size == Batch(f)
           Mark(k, l) == [entry |-> a[k], line |-> l]
           W == Showing(f, a, n)
           K(m) == n - (m \div size)
           L(m) == size - (m % size)
           h == [m \in 0..(Limit - 1) |-> Mark(K(m), L(m))]
<1>1. W = {Mark(x[1], x[2]) : x \in {y \in (1..n) \X (1..size) :
                                        (n - y[1]) * size + size - y[2] < Limit}}
  BY DEF Showing
<1>2. Limit \in Nat /\ Limit > 0
  BY LimitAssumption
<1> HIDE DEF size, W
<1>3. ASSUME NEW m \in 0..(Limit - 1)
      PROVE  K(m) \in 1..n /\ L(m) \in 1..size /\ (n - K(m)) * size + size - L(m) = m
  BY <1>2, LineAtDistance DEF size
<1>4. ASSUME NEW k \in 1..n, NEW l \in 1..size, (n - k) * size + size - l < Limit
      PROVE  \E m \in 0..(Limit - 1) : K(m) = k /\ L(m) = l
  <2> DEFINE m == (n - k) * size + size - l
  <2>1. m \in Nat /\ m \div size = n - k /\ m % size = size - l
    BY DistanceOfLine DEF size
  <2>2. m < Limit
    BY <1>4
  <2> HIDE DEF m
  <2>3. m \in 0..(Limit - 1)
    BY <1>2, <2>1, <2>2, SMT
  <2>4. size \in Nat
    BY SMT DEF size, Sizes
  <2>5. K(m) = k /\ L(m) = l
    BY <2>1, <2>4, SMT
  <2> QED
    BY <2>3, <2>5
<1> HIDE DEF K, L
<1>5. ASSUME NEW m \in 0..(Limit - 1) PROVE h[m] \in W
  <2>1. <<K(m), L(m)>> \in {y \in (1..n) \X (1..size) : (n - y[1]) * size + size - y[2] < Limit}
    <3>1. (n - K(m)) * size + size - L(m) < Limit
      BY <1>2, <1>3, SMT
    <3> QED
      BY <1>3, <3>1
  <2> QED
    BY <1>1, <2>1
<1>6. ASSUME NEW m1 \in 0..(Limit - 1), NEW m2 \in 0..(Limit - 1), h[m1] = h[m2]
      PROVE  m1 = m2
  <2>1. h[m1] = Mark(K(m1), L(m1)) /\ h[m2] = Mark(K(m2), L(m2))
    OBVIOUS
  <2>2. Mark(K(m1), L(m1)) = Mark(K(m2), L(m2))
    BY <1>6, <2>1
  <2>3. a[K(m1)] = a[K(m2)] /\ L(m1) = L(m2)
    BY <2>2
  <2>4. K(m1) = K(m2)
    BY <1>3, <2>3
  <2>5. /\ (n - K(m1)) * size + size - L(m1) = m1
        /\ (n - K(m2)) * size + size - L(m2) = m2
    BY <1>3
  <2> QED
    BY <2>3, <2>4, <2>5
<1>7. ASSUME NEW x \in W PROVE \E m \in 0..(Limit - 1) : h[m] = x
  <2>1. PICK y \in (1..n) \X (1..size) :
          (n - y[1]) * size + size - y[2] < Limit /\ x = Mark(y[1], y[2])
    BY <1>1
  <2>2. y[1] \in 1..n /\ y[2] \in 1..size
    OBVIOUS
  <2>3. PICK m \in 0..(Limit - 1) : K(m) = y[1] /\ L(m) = y[2]
    BY <1>4, <2>1, <2>2
  <2> QED
    BY <2>1, <2>3
<1>8. h \in [0..(Limit - 1) -> W]
  BY <1>5
<1> HIDE DEF h
<1>9. h \in Bijection(0..(Limit - 1), W)
  BY <1>6, <1>7, <1>8, Fun_IsBij
<1>10. IsFiniteSet(0..(Limit - 1)) /\ Cardinality(0..(Limit - 1)) = Limit
  BY <1>2, FS_Interval, SMT
<1> QED
  BY <1>9, <1>10, FS_Bijection DEF W, ExistsBijection

-----------------------------------------------------------------------------
(* What follows of it.                                                     *)

LEMMA BundleOf ==
  ASSUME EvidenceInv
  PROVE  \E p \in 0..Merged : MadeAt(p)
BY DEF EvidenceInv, Bundled

\* Plans, branches, accumulators and the bundle keep their types, for any plans and any
\* number of passes and crashes.
THEOREM TypeCorrect == Spec => []TypeOK
<1>1. ASSUME EvidenceInv PROVE TypeOK
  <2>1. Dispatched /\ Ledger
    BY <1>1 DEF EvidenceInv
  <2>2. DOMAIN branch = DOMAIN sends /\ \A i \in DOMAIN branch : branch[i] \in Branches
    BY <2>1 DEF Dispatched
  <2>3. \A i \in DOMAIN branch : /\ branch[i].at \in {"waiting", "running", "done"}
                                 /\ branch[i].wrote \subseteq Fields
    BY <2>2 DEF Branches
  <2>4. DOMAIN acc = Fields /\ \A f \in Fields : Entries(f) \subseteq Tags
    BY <2>1, MergedBounds DEF Ledger
  <2>5. ASSUME NEW f \in Shown PROVE bundle[f] \subseteq [entry : Tags, line : 1..Batch(f)]
    <3>1. PICK p \in 0..Merged : MadeAt(p)
      BY <1>1, BundleOf
    <3>2. PICK n \in Nat : UpTo(f, acc[f], n, p) /\ bundle[f] = Showing(f, acc[f], n)
      BY <3>1 DEF MadeAt
    <3>3. /\ Len(acc[f]) \in Nat /\ DOMAIN acc[f] = 1..Len(acc[f])
          /\ \A k \in DOMAIN acc[f] : acc[f][k] \in Tags
      BY <2>1, AccIsText, ShownAreFields
    <3>4. \A k \in 1..n : acc[f][k] \in Tags
      BY <3>2, <3>3, SMT DEF UpTo
    <3> QED
      BY <3>2, <3>4 DEF Showing
  <2> QED
    BY <2>1, <2>2, <2>3, <2>4, <2>5 DEF TypeOK, Dispatched
<1> QED
  BY <1>1, EvidenceInvAlways, PTL

\* No task of a merged pass goes missing, whoever of its siblings fails and however often
\* the pass is replayed (invoke_evidence_subgraph, run_node).
THEOREM TasksAreAccountedFor == Spec => []EveryTaskIsAccountedFor
<1>1. ASSUME EvidenceInv PROVE EveryTaskIsAccountedFor
  <2>1. Dispatched /\ Ledger
    BY <1>1 DEF EvidenceInv
  <2>2. \A p \in DOMAIN dispatched : dispatched[p] > 0
    <3>1. DOMAIN dispatched = 1..Len(dispatched)
      BY <2>1, LenProperties DEF Dispatched
    <3>2. \A p \in 1..Len(dispatched) : dispatched[p] \in Nat \ {0}
      BY <2>1, MergedBounds
    <3> QED
      BY <3>1, <3>2, SMT
  <2> QED
    BY <2>1, <2>2 DEF EveryTaskIsAccountedFor, Ledger
<1> QED
  BY <1>1, EvidenceInvAlways, PTL

\* Nothing the analyst reads comes from a branch that failed (run_node's except clause).
THEOREM FailuresLeaveNoEvidence == Spec => []FailedBranchesLeaveNoEvidence
<1>1. EvidenceInv => FailedBranchesLeaveNoEvidence
  BY DEF EvidenceInv, Ledger
<1> QED
  BY <1>1, EvidenceInvAlways, PTL

\* The order of what was merged is the plan's, whichever thread was faster (the reducers
\* of IncidentState behind the Sends).
THEOREM MergeIsOrdered == Spec => []MergeIsOrderedOnce
<1>1. EvidenceInv => MergeIsOrderedOnce
  BY DEF EvidenceInv, Ledger
<1> QED
  BY <1>1, EvidenceInvAlways, PTL

\* What a bundle made of the first n entries of field f has of them.
LEMMA SeenAndWhole ==
  ASSUME Ledger, NEW f \in Shown, NEW p \in Nat, NEW n \in Nat,
         UpTo(f, acc[f], n, p), bundle[f] = Showing(f, acc[f], n)
  PROVE  /\ \A e \in Seen(f) : \E k \in 1..n : e = acc[f][k]
         /\ \A e \in Seen(f) : e \in Entries(f) /\ e.pass <= p
         /\ \A e \in Entries(f) : e.pass <= p => \E k \in 1..n : e = acc[f][k]
         /\ \A k \in 1..n :
              (f \in Windowed => (n - k) * Batch(f) + Batch(f) - 1 < Limit) => acc[f][k] \in Whole(f)
         /\ \A e \in Whole(f) : \E k \in 1..n :
              e = acc[f][k] /\ (f \in Windowed => (n - k) * Batch(f) + Batch(f) - 1 < Limit)
<1> DEFINE B == Batch(f)
           Fits(k, l) == f \in Windowed => (n - k) * B + B - l < Limit
<1>1. /\ Len(acc[f]) \in Nat /\ DOMAIN acc[f] = 1..Len(acc[f]) /\ n <= Len(acc[f])
      /\ \A k \in DOMAIN acc[f] : acc[f][k].pass <= p <=> k <= n
  BY AccIsText, ShownAreFields DEF UpTo
<1>2. \A k \in 1..n : k \in DOMAIN acc[f] /\ k <= n
  BY <1>1, SMT
<1>3. B \in Nat \ {0}
  BY BatchSizes, SMT DEF Sizes
<1>4. bundle[f] = {[entry |-> acc[f][x[1]], line |-> x[2]] : x \in
                     {y \in (1..n) \X (1..B) : Fits(y[1], y[2])}}
  BY DEF Showing
<1> HIDE DEF Fits, B
<1>5. ASSUME NEW b \in bundle[f]
      PROVE  \E k \in 1..n, l \in 1..B : Fits(k, l) /\ b = [entry |-> acc[f][k], line |-> l]
  <2>1. PICK y \in (1..n) \X (1..B) :
          Fits(y[1], y[2]) /\ b = [entry |-> acc[f][y[1]], line |-> y[2]]
    BY <1>4
  <2> QED
    BY <2>1
<1>6. \A e \in Seen(f) : \E k \in 1..n : e = acc[f][k]
  BY <1>5 DEF Seen
<1>7. \A e \in Seen(f) : e \in Entries(f) /\ e.pass <= p
  BY <1>1, <1>2, <1>6 DEF Entries
<1>8. ASSUME NEW e \in Entries(f), e.pass <= p PROVE \E k \in 1..n : e = acc[f][k]
  <2>1. PICK k \in DOMAIN acc[f] : e = acc[f][k]
    BY DEF Entries
  <2>2. k \in 1..n
    BY <1>1, <1>8, <2>1, SMT
  <2> QED
    BY <2>1, <2>2
<1>9. ASSUME NEW k \in 1..n, Fits(k, 1) PROVE acc[f][k] \in Whole(f)
  <2>1. <<k, 1>> \in {y \in (1..n) \X (1..B) : Fits(y[1], y[2])}
    BY <1>3, <1>9
  <2>2. [entry |-> acc[f][k], line |-> 1] \in bundle[f]
    BY <1>4, <2>1
  <2> QED
    BY <2>2 DEF Whole, Seen
<1>10. ASSUME NEW e \in Whole(f) PROVE \E k \in 1..n : e = acc[f][k] /\ Fits(k, 1)
  <2>1. [entry |-> e, line |-> 1] \in bundle[f]
    BY DEF Whole
  <2>2. PICK k \in 1..n, l \in 1..B :
          Fits(k, l) /\ [entry |-> e, line |-> 1] = [entry |-> acc[f][k], line |-> l]
    BY <1>5, <2>1
  <2>3. e = acc[f][k] /\ l = 1
    BY <2>2
  <2> QED
    BY <2>2, <2>3
<1> QED
  BY <1>6, <1>7, <1>8, <1>9, <1>10 DEF Fits, B

\* The last line of an entry of the logs that is seen at all is seen.
LEMMA LastLineIsSeen ==
  ASSUME NEW f \in Shown, NEW n \in Nat, bundle[f] = Showing(f, acc[f], n), NEW e \in Seen(f)
  PROVE  [entry |-> e, line |-> Batch(f)] \in bundle[f]
<1> DEFINE B == Batch(f)
           Fits(k, l) == f \in Windowed => (n - k) * B + B - l < Limit
<1>1. B \in Nat \ {0}
  BY BatchSizes, SMT DEF Sizes
<1>2. bundle[f] = {[entry |-> acc[f][x[1]], line |-> x[2]] : x \in
                     {y \in (1..n) \X (1..B) : Fits(y[1], y[2])}}
  BY DEF Showing
<1> HIDE DEF B
<1>3. ASSUME NEW k \in 1..n, NEW l \in 1..B, Fits(k, l) PROVE Fits(k, B)
  <2> DEFINE d == (n - k) * B
  <2>1. d \in Int
    BY <1>1
  <2> HIDE DEF d
  <2>2. d + B - l < Limit => d + B - B < Limit
    BY <1>1, <2>1, LimitAssumption, SMT
  <2> QED
    BY <1>3, <2>2 DEF d
<1> HIDE DEF Fits
<1>4. PICK b \in bundle[f] : e = b.entry
  BY DEF Seen
<1>5. PICK y \in (1..n) \X (1..B) :
        Fits(y[1], y[2]) /\ b = [entry |-> acc[f][y[1]], line |-> y[2]]
  BY <1>2, <1>4
<1>6. y[1] \in 1..n /\ y[2] \in 1..B
  OBVIOUS
<1>7. <<y[1], B>> \in {z \in (1..n) \X (1..B) : Fits(z[1], z[2])}
  BY <1>1, <1>3, <1>5, <1>6
<1> QED
  BY <1>2, <1>4, <1>5, <1>7 DEF B

\* The bundle is one of whole passes, loses the oldest entries first and only when its
\* window is full, and never the worst line of a log it cuts into (build_evidence_bundle,
\* format_logs, format_metrics, merge_results_node).
THEOREM BundleIsSound == Spec => []BundleIsUpToDate
<1>1. ASSUME EvidenceInv PROVE BundleIsUpToDate
  <2>1. Dispatched /\ Ledger
    BY <1>1 DEF EvidenceInv
  <2>2. PICK p \in 0..Merged : MadeAt(p)
    BY <1>1, BundleOf
  <2>3. p \in Nat
    BY <2>1, <2>2, MergedBounds, SMT
  <2>4. Seen("reasoning") = {e \in MergedTasks : e.pass <= p} \ Entries("errors")
    <3>1. "reasoning" \in Shown /\ "reasoning" \notin Windowed /\ "reasoning" \in Fields
      BY DEF Shown, Windowed, Fields
    <3>2. PICK n \in Nat : /\ UpTo("reasoning", acc["reasoning"], n, p)
                           /\ bundle["reasoning"] = Showing("reasoning", acc["reasoning"], n)
      BY <2>2, <3>1 DEF MadeAt
    <3>3. /\ \A e \in Seen("reasoning") : e \in Entries("reasoning") /\ e.pass <= p
          /\ \A e \in Entries("reasoning") : e.pass <= p => \E k \in 1..n : e = acc["reasoning"][k]
          /\ \A k \in 1..n : acc["reasoning"][k] \in Whole("reasoning")
      BY <2>1, <2>3, <3>1, <3>2, SeenAndWhole
    <3>4. Seen("reasoning") = {e \in Entries("reasoning") : e.pass <= p}
      BY <3>3 DEF Whole
    <3>5. Entries("reasoning") \cap Entries("errors") = {}
      BY <2>1, <3>1 DEF Ledger, FailedBranchesLeaveNoEvidence
    <3>6. Entries("reasoning") = MergedTasks \ Entries("errors")
      BY <2>1, <3>5 DEF Ledger
    <3> QED
      BY <3>4, <3>6
  <2>5. ASSUME NEW f \in Shown, NEW e \in Entries(f)
        PROVE  /\ e \in Seen(f) => e.pass <= p
               /\ e.pass <= p /\ e \notin Whole(f) =>
                    /\ f \in Windowed /\ Cardinality(bundle[f]) = Limit
                    /\ \A d \in Whole(f) : Before(e, d)
    <3> DEFINE B == Batch(f)
    <3>1. PICK n \in Nat : UpTo(f, acc[f], n, p) /\ bundle[f] = Showing(f, acc[f], n)
      BY <2>2 DEF MadeAt
    <3>2. /\ \A d \in Seen(f) : d \in Entries(f) /\ d.pass <= p
          /\ \A d \in Entries(f) : d.pass <= p => \E k \in 1..n : d = acc[f][k]
          /\ \A k \in 1..n : (f \in Windowed => (n - k) * B + B - 1 < Limit) => acc[f][k] \in Whole(f)
          /\ \A d \in Whole(f) : \E k \in 1..n :
               d = acc[f][k] /\ (f \in Windowed => (n - k) * B + B - 1 < Limit)
      BY <2>1, <2>3, <3>1, SeenAndWhole
    <3>3. B \in Sizes /\ B \in Nat \ {0}
      BY BatchSizes DEF Sizes
    <3>4. /\ n <= Len(acc[f]) /\ Len(acc[f]) \in Nat /\ DOMAIN acc[f] = 1..Len(acc[f])
          /\ \A k \in DOMAIN acc[f] : acc[f][k] \in Tags
      BY <2>1, <3>1, AccIsText, ShownAreFields DEF UpTo
    <3>5. \A j, k \in 1..n : j < k => Before(acc[f][j], acc[f][k])
      <4>1. \A k \in 1..n : k \in DOMAIN acc[f]
        BY <3>4, SMT
      <4>2. f \in Fields
        BY ShownAreFields
      <4> QED
        BY <2>1, <4>1, <4>2 DEF Ledger, MergeIsOrderedOnce
    <3>6. \A j, k \in 1..n : acc[f][j] = acc[f][k] => j = k
      <4> SUFFICES ASSUME NEW j \in 1..n, NEW k \in 1..n, acc[f][j] = acc[f][k] PROVE j = k
        OBVIOUS
      <4>1. acc[f][j] \in Tags /\ acc[f][k] \in Tags
        BY <3>4, SMT
      <4>2. ~Before(acc[f][j], acc[f][k]) /\ ~Before(acc[f][k], acc[f][j])
        BY <4>1, PassesAssumption, SMT DEF Tags, Before
      <4>3. ~(j < k) /\ ~(k < j)
        BY <3>5, <4>2
      <4> QED
        BY <4>3, SMT
    <3> HIDE DEF B
    <3>7. ASSUME e.pass <= p, e \notin Whole(f)
          PROVE  /\ f \in Windowed /\ Cardinality(bundle[f]) = Limit
                 /\ \A d \in Whole(f) : Before(e, d)
      <4>1. PICK k \in 1..n : e = acc[f][k]
        BY <3>2, <3>7
      <4>2. f \in Windowed /\ ~((n - k) * B + B - 1 < Limit)
        BY <3>2, <3>7, <4>1
      <4>3. Limit <= n * B
        BY <3>3, <4>2, LimitAssumption, SMT DEF Sizes
      <4>4. Cardinality(bundle[f]) = Limit
        BY <3>1, <3>3, <3>6, <4>2, <4>3, WindowIsFull DEF B
      <4>5. ASSUME NEW d \in Whole(f) PROVE Before(e, d)
        <5>1. PICK j \in 1..n : d = acc[f][j] /\ (n - j) * B + B - 1 < Limit
          BY <3>2, <4>2
        <5>2. k < j
          BY <3>3, <4>2, <5>1, LimitAssumption, SMT DEF Sizes
        <5> QED
          BY <3>5, <4>1, <5>1, <5>2
      <4> QED
        BY <4>2, <4>4, <4>5
    <3> QED
      BY <3>2, <3>7
  <2>6. ASSUME NEW e \in Seen("logs")
        PROVE  \E l \in DOMAIN LogLines(Pod) :
                 IsWorst(l) /\ [entry |-> e, line |-> l] \in bundle["logs"]
    <3>1. "logs" \in Shown
      BY DEF Shown
    <3>2. PICK n \in Nat : bundle["logs"] = Showing("logs", acc["logs"], n)
      BY <2>2, <3>1 DEF MadeAt
    <3> DEFINE last == Len(LogLines(Pod))
    <3>3. Batch("logs") = last /\ last \in Sizes
      BY <3>1, BatchSizes
    <3>4. [entry |-> e, line |-> last] \in bundle["logs"]
      BY <3>1, <3>2, <3>3, LastLineIsSeen
    <3>5. LogLines(Pod) \in Seq({info, warning, error}) /\ DOMAIN LogLines(Pod) = 1..last
      <4>1. LogLines(Pod) \in Seq({info, warning, error})
        <5>1. CASE Pod = "oom_killed"
          <6>1. LogLines(Pod) = <<info, warning, warning, error>>
            BY <5>1 DEF LogLines
          <6> QED
            BY <6>1
        <5>2. CASE Pod = "probe_failure"
          <6>1. LogLines(Pod) = <<info, info, warning, warning>>
            BY <5>2 DEF LogLines
          <6> QED
            BY <6>1
        <5>3. CASE Pod = "image_pull_backoff"
          <6>1. LogLines(Pod) = <<error>>
            BY <5>3 DEF LogLines
          <6> QED
            BY <6>1
        <5>4. CASE Pod = "healthy"
          <6>1. LogLines(Pod) = <<info, info, info>>
            BY <5>4 DEF LogLines
          <6> QED
            BY <6>1
        <5> QED
          BY <5>1, <5>2, <5>3, <5>4, SceneAssumption DEF PodScenarios
      <4> QED
        BY <4>1, LenProperties
    <3>6. last \in DOMAIN LogLines(Pod)
      BY <3>3, <3>5, SMT DEF Sizes
    <3>7. IsWorst(last)
      BY <3>5, SceneAssumption, PodToolsAgree DEF IsWorst, WorstIsLast
    <3> QED
      BY <3>4, <3>6, <3>7
  <2> QED
    BY <2>2, <2>4, <2>5, <2>6 DEF BundleIsUpToDate
<1> QED
  BY <1>1, EvidenceInvAlways, PTL

-----------------------------------------------------------------------------
(* A pass gets to its end.                                                 *)

\* The branches of a pass can be counted.
LEMMA BranchesCounted ==
  ASSUME Dispatched
  PROVE  /\ IsFiniteSet(Unstarted) /\ IsFiniteSet(Unfinished)
         /\ Cardinality(Unstarted) \in 0..Len(sends)
         /\ Cardinality(Unfinished) \in 0..Len(sends)
         /\ Len(sends) \in Nat
<1>1. Len(sends) \in Nat /\ DOMAIN branch = 1..Len(sends)
  BY SendsAreTasks DEF Dispatched
<1>2. IsFiniteSet(1..Len(sends)) /\ Cardinality(1..Len(sends)) = Len(sends)
  BY <1>1, FS_Interval, SMT
<1>3. Unstarted \in SUBSET (1..Len(sends)) /\ Unfinished \in SUBSET (1..Len(sends))
  BY <1>1 DEF Unstarted, Unfinished
<1>4. ASSUME NEW B, B \in SUBSET (1..Len(sends))
      PROVE  IsFiniteSet(B) /\ Cardinality(B) <= Len(sends)
  <2> DEFINE All == 1..Len(sends)
  <2>1. IsFiniteSet(All) /\ Cardinality(All) = Len(sends) /\ B \in SUBSET All
    BY <1>2, <1>4
  <2> HIDE DEF All
  <2>2. IsFiniteSet(B) /\ Cardinality(B) <= Cardinality(All)
    BY <2>1, FS_Subset
  <2> QED
    BY <2>1, <2>2
<1>5. /\ IsFiniteSet(Unstarted) /\ Cardinality(Unstarted) <= Len(sends)
      /\ IsFiniteSet(Unfinished) /\ Cardinality(Unfinished) <= Len(sends)
  BY <1>3, <1>4
<1>6. Cardinality(Unstarted) \in Nat /\ Cardinality(Unfinished) \in Nat
  BY <1>5, FS_CardinalityType
<1> QED
  BY <1>1, <1>5, <1>6, SMT

\* What is left of a pass, phase by phase.
LEMMA StepsLeftIs ==
  ASSUME Dispatched
  PROVE  /\ phase = "dispatching" => StepsLeft = 2 * Len(Sends) + 3 /\ Len(Sends) \in Nat
         /\ phase = "gathering" =>
              /\ StepsLeft = Cardinality(Unstarted) + Cardinality(Unfinished) + 2
              /\ StepsLeft \in 2..2 * Len(sends) + 2
         /\ phase = "merging" => StepsLeft = 1
         /\ phase \in {"planning", "crashed"} => StepsLeft = 0
         /\ StepsLeft \in Nat
<1>1. phase \in {"planning", "dispatching", "gathering", "crashed", "merging"}
  BY DEF Dispatched
<1>2. Len(Sends) \in Nat
  BY PlansHaveTasks DEF Dispatched
<1>3. /\ Cardinality(Unstarted) \in 0..Len(sends) /\ Cardinality(Unfinished) \in 0..Len(sends)
      /\ Len(sends) \in Nat
  BY BranchesCounted
<1>4. /\ phase = "dispatching" => StepsLeft = 2 * Len(Sends) + 3
      /\ phase = "gathering" => StepsLeft = Cardinality(Unstarted) + Cardinality(Unfinished) + 2
      /\ phase = "merging" => StepsLeft = 1
      /\ phase \in {"planning", "crashed"} => StepsLeft = 0
  BY DEF StepsLeft
<1> QED
  BY <1>1, <1>2, <1>3, <1>4, SMT

\* A branch that starts is one less to start, one that ends one less to wait for.
LEMMA BranchLeavesFewer ==
  ASSUME Dispatched, Dispatched', NEW i \in DOMAIN branch, Start(i) \/ Finish(i)
  PROVE  StepsLeft' < StepsLeft
<1>1. /\ phase = "gathering" /\ phase' = "gathering" /\ DOMAIN branch' = DOMAIN branch
      /\ \A j \in DOMAIN branch \ {i} : branch'[j] = branch[j]
  BY DEF Start, Finish, Dispatched
<1>2. /\ IsFiniteSet(Unstarted) /\ IsFiniteSet(Unfinished)
      /\ Cardinality(Unstarted) \in Nat /\ Cardinality(Unfinished) \in Nat
  BY BranchesCounted, SMT
<1>3. /\ StepsLeft = Cardinality(Unstarted) + Cardinality(Unfinished) + 2
      /\ StepsLeft' = Cardinality(Unstarted') + Cardinality(Unfinished') + 2
  BY <1>1 DEF StepsLeft
<1>4. CASE Start(i)
  <2>1. branch[i].at = "waiting" /\ branch'[i].at = "running"
    <3>1. branch \in [DOMAIN branch -> Branches]
      BY DEF Dispatched
    <3> QED
      BY <1>4, <3>1 DEF Start, Branches
  <2>2. Unstarted' = Unstarted \ {i} /\ Unfinished' = Unfinished /\ i \in Unstarted
    BY <1>1, <2>1 DEF Unstarted, Unfinished
  <2>3. Cardinality(Unstarted') = Cardinality(Unstarted) - 1
    BY <1>2, <2>2, FS_RemoveElement
  <2> QED
    BY <1>2, <1>3, <2>2, <2>3, SMT
<1>5. CASE Finish(i)
  <2>1. branch[i].at = "running" /\ branch'[i].at = "done"
    BY <1>5 DEF Finish
  <2>2. Unstarted' = Unstarted /\ Unfinished' = Unfinished \ {i} /\ i \in Unfinished
    BY <1>1, <2>1 DEF Unstarted, Unfinished
  <2>3. Cardinality(Unfinished') = Cardinality(Unfinished) - 1
    BY <1>2, <2>2, FS_RemoveElement
  <2> QED
    BY <1>2, <1>3, <2>2, <2>3, SMT
<1> QED
  BY <1>4, <1>5

\* Each step of a pass leaves fewer of them.
LEMMA GatherLeavesFewer ==
  ASSUME Dispatched, Dispatched', Gather
  PROVE  StepsLeft' < StepsLeft
<1>1. CASE Dispatch
  <2>1. /\ phase = "dispatching" /\ phase' = "gathering" /\ Len(sends') = Len(Sends)
    BY <1>1 DEF Dispatch
  <2>2. StepsLeft = 2 * Len(Sends) + 3 /\ Len(Sends) \in Nat
    BY <2>1, StepsLeftIs
  <2>3. StepsLeft' \in 2..2 * Len(sends') + 2
    <3>1. (Dispatched => (phase = "gathering" => StepsLeft \in 2..2 * Len(sends) + 2))'
      BY StepsLeftIs, PTL
    <3> QED
      BY <2>1, <3>1
  <2> QED
    BY <2>1, <2>2, <2>3, SMT
<1>2. CASE \E i \in DOMAIN branch : Start(i) \/ Finish(i)
  BY <1>2, BranchLeavesFewer
<1>3. CASE Join
  <2>1. phase = "gathering" /\ phase' = "merging"
    BY <1>3 DEF Join, AllDone
  <2>2. StepsLeft \in 2..2 * Len(sends) + 2 /\ StepsLeft' = 1 /\ Len(sends) \in Nat
    BY <2>1, StepsLeftIs, BranchesCounted DEF StepsLeft
  <2> QED
    BY <2>2, SMT
<1>4. CASE MergeResults
  <2>1. phase = "merging" /\ phase' = "planning"
    BY <1>4 DEF MergeResults
  <2>2. StepsLeft = 1 /\ StepsLeft' = 0
    BY <2>1 DEF StepsLeft
  <2> QED
    BY <2>2, SMT
<1> QED
  BY <1>1, <1>2, <1>3, <1>4 DEF Gather

\* A pass ends: invoke_evidence_subgraph() returns once each branch of the super-step has
\* ended, however they fail and in whatever order, and none can start another.
THEOREM PassesEnd == Spec => PassesAreShort
<1> DEFINE Bounded ==
             /\ StepsLeft \in Nat
             /\ StepsLeft > 0 <=> phase \in {"dispatching", "gathering", "merging"}
             /\ phase = "gathering" => StepsLeft <= 2 * Len(sends) + 2
           Falls ==
             /\ Gather => StepsLeft' < StepsLeft
             /\ StepsLeft' > StepsLeft => Planner \/ Resume
<1>1. EvidenceInv => Bounded
  <2> SUFFICES ASSUME Dispatched PROVE Bounded
    BY DEF EvidenceInv
  <2>1. phase \in {"planning", "dispatching", "gathering", "crashed", "merging"}
    BY DEF Dispatched
  <2>2. Len(sends) \in Nat
    BY BranchesCounted
  <2> QED
    BY <2>1, <2>2, StepsLeftIs, SMT
<1>2. EvidenceInv /\ EvidenceInv' /\ [Next]_vars => [Falls]_vars
  <2> SUFFICES ASSUME EvidenceInv, EvidenceInv', Next PROVE Falls
    OBVIOUS
  <2>b. Bounded /\ Bounded'
    BY <1>1, PTL
  <2>d. Dispatched /\ Dispatched'
    BY DEF EvidenceInv
  <2>1. Gather => StepsLeft' < StepsLeft
    BY <2>d, GatherLeavesFewer
  <2>2. Crash => StepsLeft' = 0
    BY DEF Crash, StepsLeft
  <2> QED
    BY <2>1, <2>2, <2>b, SMT DEF Next
<1> QED
  BY <1>1, <1>2, EvidenceInvAlways, PTL DEF Spec, PassesAreShort

=============================================================================
