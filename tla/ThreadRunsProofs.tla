--------------------------- MODULE ThreadRunsProofs ---------------------------
(***************************************************************************)
(* Proofs about ThreadRuns, for any numbers of workers, calls and crashes. *)
(* The gate holds because an approving decision leaves a trace wherever it *)
(* goes: in a call, in the answer stored with a checkpoint, in a thread on *)
(* its way to the report.  The bound on the drafts holds because each call *)
(* can lead to one investigation at most.  Calls that follow one another   *)
(* are safe because the thread has one life then: the copy of the call at  *)
(* work, or the checkpoint between two calls.                              *)
(***************************************************************************)
EXTENDS ThreadRunsGate, FiniteSetTheorems, TLAPS

Statuses == {"pending", "approved", "rejected", "modified"}

\* A thread whatever the number of its draft.
AnyThread ==
  [next : Nodes, interrupted : BOOLEAN, answer : Decisions \cup {"none"},
   draft : Nat, report : BOOLEAN, status : Statuses]

Copies == AnyThread \cup {NoThread}

Accepted == [at : {"checked", "running"}, kind : Kinds, dirty : BOOLEAN]

\* What is known of a thread after d investigations and a approving calls.
Accounted(t, d, a) ==
  t \in AnyThread =>
    /\ t.draft <= d
    /\ a = 0 => /\ t.answer \notin Approving /\ ~t.report
                /\ t.next \notin {"report_generator", "save_memory"}

Shape ==
  /\ ckpt \in Copies /\ run \in [Workers -> Copies]
  /\ call \in [Workers -> {Idle} \cup Accepted]
  /\ saves \in Nat /\ listed \in BOOLEAN /\ drafts \in Nat
  /\ calls \in 0..MaxCalls /\ approvals \in 0..calls
  /\ overlapped \in BOOLEAN /\ crashes \in 0..MaxCrashes

\* What is known of w's call, k, that holds the copy t.
Serving(k, t) == k.at = "running" => t \in AnyThread

\* Calls that may still lead to an investigation.
MayDraft(k, t) ==
  \/ k.at = "checked"
  \/ /\ k.at = "running"
     /\ \/ t.next \in {"recall_memory", "investigation"}
        \/ t.next = "human_approval" /\ t.answer # "none"

Drafting == {w \in Workers : MayDraft(call[w], run[w])}

Counted == drafts + Cardinality(Drafting) <= calls

Calls(w) ==
  /\ Serving(call[w], run[w])
  /\ call[w].at = "checked" => ckpt \in AnyThread
  /\ call[w].at # "idle" => calls > 0
  /\ approvals = 0 /\ call[w].at # "idle" => call[w].kind \notin Approving

RunInv ==
  /\ Shape /\ Counted
  /\ \A w \in Workers : Calls(w) /\ Accounted(run[w], drafts, approvals)
  /\ Accounted(ckpt, drafts, approvals)
  /\ approvals = 0 => saves = 0

-----------------------------------------------------------------------------
(* What is left of a record when one of its fields changes.                *)

LEMMA PutNext ==
  ASSUME NEW t \in AnyThread, NEW n \in Nodes, NEW u, u = [t EXCEPT !.next = n]
  PROVE  /\ u \in AnyThread /\ u.next = n /\ u.interrupted = t.interrupted
         /\ u.answer = t.answer /\ u.draft = t.draft /\ u.report = t.report
BY SMT DEF AnyThread

LEMMA PutInterrupted ==
  ASSUME NEW t \in AnyThread, NEW b \in BOOLEAN, NEW u, u = [t EXCEPT !.interrupted = b]
  PROVE  /\ u \in AnyThread /\ u.next = t.next /\ u.interrupted = b
         /\ u.answer = t.answer /\ u.draft = t.draft /\ u.report = t.report
BY SMT DEF AnyThread

LEMMA PutAnswer ==
  ASSUME NEW t \in AnyThread, NEW a \in Decisions \cup {"none"}, NEW u, u = [t EXCEPT !.answer = a]
  PROVE  /\ u \in AnyThread /\ u.next = t.next /\ u.interrupted = t.interrupted
         /\ u.answer = a /\ u.draft = t.draft /\ u.report = t.report
BY SMT DEF AnyThread

LEMMA PutDraft ==
  ASSUME NEW t \in AnyThread, NEW d \in Nat, NEW u, u = [t EXCEPT !.draft = d]
  PROVE  /\ u \in AnyThread /\ u.next = t.next /\ u.interrupted = t.interrupted
         /\ u.answer = t.answer /\ u.draft = d /\ u.report = t.report
BY SMT DEF AnyThread

LEMMA PutReport ==
  ASSUME NEW t \in AnyThread, NEW b \in BOOLEAN, NEW u, u = [t EXCEPT !.report = b]
  PROVE  /\ u \in AnyThread /\ u.next = t.next /\ u.interrupted = t.interrupted
         /\ u.answer = t.answer /\ u.draft = t.draft /\ u.report = b
BY SMT DEF AnyThread

LEMMA PutStatus ==
  ASSUME NEW t \in AnyThread, NEW s \in Statuses, NEW u, u = [t EXCEPT !.status = s]
  PROVE  /\ u \in AnyThread /\ u.next = t.next /\ u.interrupted = t.interrupted
         /\ u.answer = t.answer /\ u.draft = t.draft /\ u.report = t.report
BY SMT DEF AnyThread

LEMMA PutAt ==
  ASSUME NEW k \in Accepted, NEW a \in {"checked", "running"}, NEW r, r = [k EXCEPT !.at = a]
  PROVE  r \in Accepted /\ r.at = a /\ r.kind = k.kind
BY SMT DEF Accepted

LEMMA PutDirty ==
  ASSUME NEW k \in Accepted, NEW b \in BOOLEAN, NEW r, r = [k EXCEPT !.dirty = b]
  PROVE  r \in Accepted /\ r.at = k.at /\ r.kind = k.kind
BY SMT DEF Accepted

\* Idle calls and missing threads are told apart from the others.
LEMMA Apart ==
  /\ NoThread \notin AnyThread
  /\ Idle.at = "idle" /\ Idle \notin Accepted
  /\ \A k \in Accepted : k.at \in {"checked", "running"} /\ k.at # "idle" /\ k.kind \in Kinds
<1>1. NoThread \notin AnyThread
  <2>1. \A t \in AnyThread : t.next \in Nodes
    BY SMT DEF AnyThread
  <2>2. NoThread.next \notin Nodes
    BY SMT DEF NoThread, Nodes
  <2> QED
    BY <2>1, <2>2
<1>2. Idle.at = "idle"
  BY DEF Idle
<1>3. \A k \in Accepted : k.at \in {"checked", "running"} /\ k.at # "idle" /\ k.kind \in Kinds
  BY SMT DEF Accepted
<1> QED
  BY <1>1, <1>2, <1>3

-----------------------------------------------------------------------------
(* Calls that may still lead to an investigation.                          *)

LEMMA DraftingIsFinite == IsFiniteSet(Drafting)
BY WorkersAssumption, FS_Subset DEF Drafting

\* No more calls than before: the account still balances.
LEMMA FewerDrafting ==
  ASSUME Counted, drafts \in Nat, calls \in Nat, drafts' = drafts, calls' = calls,
         Drafting' \subseteq Drafting
  PROVE  Counted'
<1>1. /\ IsFiniteSet(Drafting) /\ IsFiniteSet(Drafting')
      /\ Cardinality(Drafting') <= Cardinality(Drafting)
  BY DraftingIsFinite, FS_Subset
<1>2. Cardinality(Drafting) \in Nat /\ Cardinality(Drafting') \in Nat
  BY <1>1, FS_CardinalityType
<1> QED
  BY <1>1, <1>2, SMT DEF Counted

\* A call leads to its investigation, and to no other.
LEMMA OneDraftsLess ==
  ASSUME Counted, drafts \in Nat, calls \in Nat, drafts' = drafts + 1, calls' = calls,
         NEW w \in Drafting, Drafting' \subseteq Drafting \ {w}
  PROVE  Counted'
<1>1. IsFiniteSet(Drafting) /\ IsFiniteSet(Drafting \ {w}) /\ IsFiniteSet(Drafting')
  BY DraftingIsFinite, FS_Subset
<1>2. Cardinality(Drafting \ {w}) = Cardinality(Drafting) - 1
  BY <1>1, FS_RemoveElement
<1>3. Cardinality(Drafting') <= Cardinality(Drafting \ {w})
  BY <1>1, FS_Subset
<1>4. /\ Cardinality(Drafting) \in Nat /\ Cardinality(Drafting') \in Nat
      /\ Cardinality(Drafting \ {w}) \in Nat
  BY <1>1, FS_CardinalityType
<1> QED
  BY <1>2, <1>3, <1>4, SMT DEF Counted

\* A new call.
LEMMA OneDraftsMore ==
  ASSUME Counted, drafts \in Nat, calls \in Nat, drafts' = drafts, calls' = calls + 1,
         NEW w, Drafting' \subseteq Drafting \cup {w}
  PROVE  Counted'
<1>1. IsFiniteSet(Drafting) /\ IsFiniteSet(Drafting \cup {w}) /\ IsFiniteSet(Drafting')
  BY DraftingIsFinite, FS_AddElement, FS_Subset
<1>2. Cardinality(Drafting \cup {w}) <= Cardinality(Drafting) + 1
  <2>1. Cardinality(Drafting) \in Nat
    BY <1>1, FS_CardinalityType
  <2>2. \/ Cardinality(Drafting \cup {w}) = Cardinality(Drafting)
        \/ Cardinality(Drafting \cup {w}) = Cardinality(Drafting) + 1
    BY <1>1, FS_AddElement
  <2> QED
    BY <2>1, <2>2, SMT
<1>3. Cardinality(Drafting') <= Cardinality(Drafting \cup {w})
  BY <1>1, FS_Subset
<1>4. /\ Cardinality(Drafting) \in Nat /\ Cardinality(Drafting') \in Nat
      /\ Cardinality(Drafting \cup {w}) \in Nat
  BY <1>1, FS_CardinalityType
<1> QED
  BY <1>2, <1>3, <1>4, SMT DEF Counted

-----------------------------------------------------------------------------
(* The steps that concern one worker.                                      *)

\* A step of w's call that makes it k, with the copy t, and the checkpoint c.
LEMMA OneCallMoves ==
  ASSUME RunInv, NEW w \in Workers,
         NEW k \in {Idle} \cup Accepted, NEW t \in Copies, NEW c \in Copies,
         call' = [call EXCEPT ![w] = k], run' = [run EXCEPT ![w] = t], ckpt' = c,
         ckpt \in AnyThread => c \in AnyThread,
         k.at # "idle" => call[w].at # "idle" /\ k.kind = call[w].kind,
         k.at # "checked", Serving(k, t),
         Accounted(t, drafts', approvals), Accounted(c, drafts', approvals),
         saves' \in Nat, approvals = 0 => saves' = 0, listed' \in BOOLEAN,
         drafts' \in Nat, drafts <= drafts', UNCHANGED observed, Counted'
  PROVE  RunInv'
<1>1. UNCHANGED <<calls, approvals, overlapped, crashes>>
  BY DEF observed
<1>2. \A v \in Workers : call'[v] = (IF v = w THEN k ELSE call[v])
                        /\ run'[v] = (IF v = w THEN t ELSE run[v])
  BY SMT DEF RunInv, Shape
<1>3. Shape'
  <2>1. call' \in [Workers -> {Idle} \cup Accepted] /\ run' \in [Workers -> Copies]
    BY SMT DEF RunInv, Shape
  <2> QED
    BY <1>1, <2>1 DEF RunInv, Shape
<1>4. ASSUME NEW v \in Workers PROVE Accounted(run'[v], drafts', approvals')
  <2>1. CASE v = w
    BY <1>1, <1>2, <2>1
  <2>2. CASE v # w
    <3>1. run'[v] = run[v] /\ Accounted(run[v], drafts, approvals)
      BY <1>2, <2>2 DEF RunInv
    <3>2. run[v] \in AnyThread => run[v].draft \in Nat
      BY SMT DEF AnyThread
    <3>3. run[v] \in AnyThread => run[v].draft <= drafts'
      BY <3>1, <3>2, SMT DEF Accounted, RunInv, Shape
    <3> QED
      BY <1>1, <3>1, <3>3 DEF Accounted
  <2> QED
    BY <2>1, <2>2
<1>5. ASSUME NEW v \in Workers PROVE Calls(v)'
  <2>1. CASE v = w
    <3>1. Calls(w)
      BY DEF RunInv
    <3> QED
      BY <1>1, <1>2, <2>1, <3>1 DEF Calls
  <2>2. CASE v # w
    <3>1. Calls(v)
      BY DEF RunInv
    <3> QED
      BY <1>1, <1>2, <2>2, <3>1 DEF Calls
  <2> QED
    BY <2>1, <2>2
<1> QED
  BY <1>1, <1>3, <1>4, <1>5 DEF RunInv

\* The calls that may still investigate, when w's call becomes k with the copy t.
LEMMA DraftingAfter ==
  ASSUME Shape, NEW w \in Workers, NEW k, NEW t,
         call' = [call EXCEPT ![w] = k], run' = [run EXCEPT ![w] = t]
  PROVE  /\ MayDraft(k, t) => Drafting' \subseteq Drafting \cup {w}
         /\ ~MayDraft(k, t) => Drafting' \subseteq Drafting \ {w}
<1>1. \A v \in Workers : v # w => call'[v] = call[v] /\ run'[v] = run[v]
  BY SMT DEF Shape
<1>2. call'[w] = k /\ run'[w] = t
  BY SMT DEF Shape
<1> QED
  BY <1>1, <1>2 DEF Drafting

-----------------------------------------------------------------------------
(* The actions.                                                            *)

\* A super-step of w's run to the given thread.
LEMMA StepMoves ==
  ASSUME RunInv, NEW w \in Workers, NEW thread \in AnyThread, Step(w, thread),
         thread.draft <= drafts',
         approvals = 0 => ~thread.report /\ thread.next \notin {"report_generator", "save_memory"},
         \/ drafts' = drafts /\ (\/ MayDraft(call[w], run[w])
                                 \/ thread.next \notin {"recall_memory", "investigation"})
         \/ drafts' = drafts + 1 /\ MayDraft(call[w], run[w])
              /\ thread.next \notin {"recall_memory", "investigation"},
         saves' \in Nat, approvals = 0 => saves' = 0, listed' \in BOOLEAN
  PROVE  RunInv'
<1> DEFINE k == [call[w] EXCEPT !.dirty = TRUE]
           t == [thread EXCEPT !.answer = "none"]
<1>1. /\ call[w].at = "running" /\ call' = [call EXCEPT ![w] = k]
      /\ run' = [run EXCEPT ![w] = t] /\ ckpt' = ckpt /\ UNCHANGED observed
  BY DEF Step
<1>2. call[w] \in Accepted
  <2>1. call[w] \in {Idle} \cup Accepted
    BY DEF RunInv, Shape
  <2> QED
    BY <1>1, <2>1, Apart, SMT
<1>3. k \in Accepted /\ k.at = "running" /\ k.kind = call[w].kind
  BY <1>1, <1>2, PutDirty
<1>4. /\ t \in AnyThread /\ t.next = thread.next /\ t.answer = "none"
      /\ t.draft = thread.draft /\ t.report = thread.report
  BY PutAnswer
<1> HIDE DEF k, t
<1>5. "none" \notin Approving
  BY SMT DEF Approving
<1>6. Serving(k, t) /\ Accounted(t, drafts', approvals)
  BY <1>3, <1>4, <1>5 DEF Serving, Accounted
<1>7. MayDraft(k, t) <=> thread.next \in {"recall_memory", "investigation"}
  BY <1>3, <1>4, SMT DEF MayDraft
<1>8. drafts \in Nat /\ calls \in Nat /\ calls' = calls /\ Counted
  BY <1>1, SMT DEF RunInv, Shape, observed
<1>9. Counted' /\ drafts' \in Nat /\ drafts <= drafts'
  <2>1. Shape
    BY DEF RunInv
  <2>2. /\ MayDraft(k, t) => Drafting' \subseteq Drafting \cup {w}
        /\ ~MayDraft(k, t) => Drafting' \subseteq Drafting \ {w}
    BY <1>1, <2>1, DraftingAfter
  <2>3. MayDraft(call[w], run[w]) => w \in Drafting
    BY DEF Drafting
  <2>4. CASE drafts' = drafts /\ (\/ MayDraft(call[w], run[w])
                                  \/ thread.next \notin {"recall_memory", "investigation"})
    <3>1. Drafting' \subseteq Drafting
      BY <1>7, <2>2, <2>3, <2>4
    <3> QED
      BY <1>8, <2>4, <3>1, FewerDrafting
  <2>5. CASE drafts' = drafts + 1 /\ MayDraft(call[w], run[w])
              /\ thread.next \notin {"recall_memory", "investigation"}
    <3>1. w \in Drafting /\ Drafting' \subseteq Drafting \ {w}
      BY <1>7, <2>2, <2>3, <2>5
    <3>2. Counted'
      BY <1>8, <2>5, <3>1, OneDraftsLess
    <3> QED
      BY <1>8, <2>5, <3>2, SMT
  <2> QED
    BY <2>4, <2>5
<1>10. ckpt \in Copies /\ t \in Copies /\ Accounted(ckpt, drafts', approvals)
  <2>1. ckpt \in Copies /\ Accounted(ckpt, drafts, approvals)
    BY DEF RunInv, Shape
  <2>2. ckpt \in AnyThread => ckpt.draft \in Nat
    BY SMT DEF AnyThread
  <2>3. ckpt \in AnyThread => ckpt.draft <= drafts'
    BY <1>8, <1>9, <2>1, <2>2, SMT DEF Accounted
  <2> QED
    BY <1>4, <2>1, <2>3 DEF Accounted, Copies
<1>11. call[w].at # "idle" /\ k.at # "checked" /\ k \in {Idle} \cup Accepted
  BY <1>1, <1>3
<1> QED
  BY <1>1, <1>3, <1>6, <1>9, <1>10, <1>11, OneCallMoves

\* What is known of a run at work.
LEMMA Running ==
  ASSUME RunInv, NEW w \in Workers, call[w].at = "running"
  PROVE  /\ run[w] \in AnyThread /\ run[w].draft \in Nat /\ run[w].draft <= drafts
         /\ approvals = 0 => /\ run[w].answer \notin Approving /\ ~run[w].report
                             /\ run[w].next \notin {"report_generator", "save_memory"}
<1>1. run[w] \in AnyThread
  BY DEF RunInv, Calls, Serving
<1>2. run[w].draft \in Nat
  BY <1>1, SMT DEF AnyThread
<1> QED
  BY <1>1, <1>2 DEF RunInv, Accounted

LEMMA RecallKeeps == ASSUME RunInv, NEW w \in Workers, Recall(w) PROVE RunInv'
<1> DEFINE u == [run[w] EXCEPT !.next = "investigation"]
<1>1. /\ run[w].next = "recall_memory" /\ Step(w, u) /\ call[w].at = "running"
      /\ listed' \in {listed, TRUE} /\ UNCHANGED <<saves, drafts>>
  BY DEF Recall, Step
<1>2. "investigation" \in Nodes
  BY DEF Nodes
<1>3. u \in AnyThread /\ u.next = "investigation" /\ u.draft = run[w].draft /\ u.report = run[w].report
  BY <1>1, <1>2, Running, PutNext
<1>4. MayDraft(call[w], run[w])
  BY <1>1 DEF MayDraft
<1> HIDE DEF u
<1>5. u.draft <= drafts' /\ (approvals = 0 => ~u.report)
  BY <1>1, <1>3, Running
<1>6. saves' \in Nat /\ (approvals = 0 => saves' = 0) /\ listed' \in BOOLEAN
  BY <1>1 DEF RunInv, Shape
<1>7. u.next \notin {"report_generator", "save_memory"}
  BY <1>3, SMT
<1> QED
  BY <1>1, <1>3, <1>4, <1>5, <1>6, <1>7, StepMoves

\* The draft of an investigation that makes one, or the draft it leaves.
LEMMA DraftOf ==
  ASSUME RunInv, NEW q \in AnyThread, q.draft <= drafts, drafts' \in {drafts, drafts + 1},
         NEW d, d = IF drafts' > drafts THEN drafts' ELSE q.draft
  PROVE  /\ drafts \in Nat /\ drafts' \in Nat /\ d \in Nat /\ q.draft <= d /\ d <= drafts'
         /\ \/ drafts' = drafts /\ d = q.draft
            \/ drafts' = drafts + 1 /\ d = drafts'
<1>1. drafts \in Nat /\ q.draft \in Nat
  BY SMT DEF RunInv, Shape, AnyThread
<1> QED
  BY <1>1, SMT

LEMMA InvestigateKeeps == ASSUME RunInv, NEW w \in Workers, Investigate(w) PROVE RunInv'
<1> DEFINE q == [run[w] EXCEPT !.next = "human_approval"]
           d == IF drafts' > drafts THEN drafts' ELSE q.draft
           u == [q EXCEPT !.draft = d]
<1>1. /\ run[w].next = "investigation" /\ call[w].at = "running"
      /\ drafts' \in {drafts, drafts + 1} /\ UNCHANGED <<saves, listed>>
  BY DEF Investigate, Step
<1>2. Step(w, u)
  BY DEF Investigate
<1>3. "human_approval" \in Nodes
  BY DEF Nodes
<1>4. /\ q \in AnyThread /\ q.next = "human_approval" /\ q.report = run[w].report
      /\ q.draft <= drafts
  BY <1>1, <1>3, Running, PutNext
<1> HIDE DEF q
<1>5. d \in Nat /\ d <= drafts' /\ drafts' \in {drafts, drafts + 1}
  BY <1>1, <1>4, DraftOf
<1> HIDE DEF d
<1>6. u \in AnyThread /\ u.next = "human_approval" /\ u.draft = d /\ u.report = run[w].report
  BY <1>4, <1>5, PutDraft
<1>7. MayDraft(call[w], run[w])
  BY <1>1 DEF MayDraft
<1> HIDE DEF u
<1>8. u.draft <= drafts' /\ (approvals = 0 => ~u.report)
  BY <1>1, <1>5, <1>6, Running
<1>9. saves' \in Nat /\ (approvals = 0 => saves' = 0) /\ listed' \in BOOLEAN
  BY <1>1 DEF RunInv, Shape
<1>10. u.next \notin {"report_generator", "save_memory"} /\ u.next \notin {"recall_memory", "investigation"}
  BY <1>6, SMT
<1> QED
  BY <1>1, <1>2, <1>5, <1>6, <1>7, <1>8, <1>9, <1>10, StepMoves

LEMMA PauseKeeps == ASSUME RunInv, NEW w \in Workers, Pause(w) PROVE RunInv'
<1> DEFINE u == [run[w] EXCEPT !.interrupted = TRUE]
<1>1. /\ run[w].next = "human_approval" /\ Step(w, u) /\ call[w].at = "running"
      /\ UNCHANGED <<saves, listed, drafts>>
  BY DEF Pause, Step, effects
<1>2. u \in AnyThread /\ u.next = "human_approval" /\ u.draft = run[w].draft /\ u.report = run[w].report
  <2>1. run[w] \in AnyThread /\ TRUE \in BOOLEAN
    BY <1>1, Running
  <2> DEFINE r == run[w]
  <2> HIDE DEF r
  <2>2. u = [r EXCEPT !.interrupted = TRUE] /\ r \in AnyThread
    BY <2>1 DEF r
  <2> HIDE DEF u
  <2>3. u \in AnyThread /\ u.next = r.next /\ u.draft = r.draft /\ u.report = r.report
    BY <2>1, <2>2, PutInterrupted
  <2> QED
    BY <1>1, <2>3 DEF r
<1> HIDE DEF u
<1>3. u.draft <= drafts' /\ (approvals = 0 => ~u.report)
  BY <1>1, <1>2, Running
<1>4. saves' \in Nat /\ (approvals = 0 => saves' = 0) /\ listed' \in BOOLEAN
  BY <1>1 DEF RunInv, Shape
<1>5. u.next \notin {"report_generator", "save_memory"} /\ u.next \notin {"recall_memory", "investigation"}
  BY <1>2, SMT
<1> QED
  BY <1>1, <1>2, <1>3, <1>4, <1>5, StepMoves

\* Where a decision leads, and what only an approving one leads to.
LEMMA AfterGateLeads ==
  ASSUME NEW d \in Decisions
  PROVE  /\ AfterGate(d) \in Nodes /\ StatusOf[d] \in Statuses
         /\ AfterGate(d) \in {"report_generator", "save_memory"} => d \in Approving
<1>1. CASE d = "approve"
  BY <1>1, SMT DEF AfterGate, StatusOf, Nodes, Statuses, Approving
<1>2. CASE d = "reject"
  BY <1>2, SMT DEF AfterGate, StatusOf, Nodes, Statuses, Approving
<1>3. CASE d = "edit_plan"
  BY <1>3, SMT DEF AfterGate, StatusOf, Nodes, Statuses, Approving
<1>4. CASE d = "modify_draft"
  BY <1>4, SMT DEF AfterGate, StatusOf, Nodes, Statuses, Approving
<1> QED
  BY <1>1, <1>2, <1>3, <1>4 DEF Decisions

LEMMA DecideKeeps == ASSUME RunInv, NEW w \in Workers, Decide(w) PROVE RunInv'
<1> DEFINE a == run[w].answer
           p == [run[w] EXCEPT !.next = AfterGate(a)]
           q == [p EXCEPT !.status = StatusOf[a]]
           d == IF a = "modify_draft" THEN 0 ELSE q.draft
           u == [q EXCEPT !.draft = d]
<1>1. /\ run[w].next = "human_approval" /\ a # "none" /\ call[w].at = "running"
      /\ UNCHANGED <<saves, listed, drafts>>
  BY DEF Decide, Step, effects
<1>2. run[w] \in AnyThread /\ a \in Decisions
  <2>1. run[w] \in AnyThread
    BY <1>1, Running
  <2>2. a \in Decisions \cup {"none"}
    BY <2>1, SMT DEF AnyThread
  <2> QED
    BY <1>1, <2>1, <2>2
<1>3. p \in AnyThread /\ p.next = AfterGate(a) /\ p.draft = run[w].draft /\ p.report = run[w].report
  BY <1>2, AfterGateLeads, PutNext
<1>4. u = [run[w] EXCEPT !.next = AfterGate(a), !.status = StatusOf[a],
                         !.draft = IF a = "modify_draft" THEN 0 ELSE @]
  BY <1>2, <1>3, SMT DEF AnyThread
<1>5. Step(w, u)
  BY <1>4 DEF Decide
<1> HIDE DEF p
<1>6. q \in AnyThread /\ q.next = AfterGate(a) /\ q.draft = run[w].draft /\ q.report = run[w].report
  BY <1>2, <1>3, AfterGateLeads, PutStatus
<1> HIDE DEF q
<1>7. d \in Nat /\ d <= drafts
  BY <1>1, <1>6, Running, SMT DEF RunInv, Shape
<1> HIDE DEF d
<1>8. u \in AnyThread /\ u.next = AfterGate(a) /\ u.draft = d /\ u.report = run[w].report
  BY <1>6, <1>7, PutDraft
<1> HIDE DEF u
<1>9. u.draft <= drafts'
  BY <1>1, <1>7, <1>8
<1>10. approvals = 0 => ~u.report /\ u.next \notin {"report_generator", "save_memory"}
  BY <1>1, <1>2, <1>8, AfterGateLeads, Running
<1>11. MayDraft(call[w], run[w])
  BY <1>1 DEF MayDraft
<1>12. saves' \in Nat /\ (approvals = 0 => saves' = 0) /\ listed' \in BOOLEAN
  BY <1>1 DEF RunInv, Shape
<1> QED
  BY <1>1, <1>5, <1>8, <1>9, <1>10, <1>11, <1>12, StepMoves

LEMMA ReportKeeps == ASSUME RunInv, NEW w \in Workers, Report(w) PROVE RunInv'
<1>0. PICK made \in {run[w].report, TRUE} :
        Step(w, [run[w] EXCEPT !.next = "save_memory", !.report = made])
  BY DEF Report
<1> DEFINE q == [run[w] EXCEPT !.next = "save_memory"]
           u == [q EXCEPT !.report = made]
<1>1. /\ run[w].next = "report_generator" /\ call[w].at = "running"
      /\ UNCHANGED <<saves, listed, drafts>>
  BY DEF Report, Step, effects
<1>2. Step(w, u)
  BY <1>0
<1>3. "save_memory" \in Nodes /\ made \in BOOLEAN
  <2>1. run[w].report \in BOOLEAN
    BY <1>1, Running DEF AnyThread
  <2> QED
    BY <2>1 DEF Nodes
<1>4. q \in AnyThread /\ q.next = "save_memory" /\ q.draft = run[w].draft
  BY <1>1, <1>3, Running, PutNext
<1> HIDE DEF q
<1>5. u \in AnyThread /\ u.next = "save_memory" /\ u.draft = run[w].draft
  BY <1>3, <1>4, PutReport
<1> HIDE DEF u
<1>6. approvals # 0 /\ u.draft <= drafts'
  BY <1>1, <1>5, Running
<1>7. saves' \in Nat /\ listed' \in BOOLEAN
  BY <1>1 DEF RunInv, Shape
<1>8. u.next \notin {"recall_memory", "investigation"}
  BY <1>5, SMT
<1> QED
  BY <1>1, <1>2, <1>5, <1>6, <1>7, <1>8, StepMoves

LEMMA SaveKeeps == ASSUME RunInv, NEW w \in Workers, Save(w) PROVE RunInv'
<1> DEFINE u == [run[w] EXCEPT !.next = "final_response"]
<1>1. /\ run[w].next = "save_memory" /\ Step(w, u) /\ call[w].at = "running"
      /\ saves' = saves + 1 /\ UNCHANGED <<listed, drafts>>
  BY DEF Save, Step
<1>2. "final_response" \in Nodes
  BY DEF Nodes
<1>3. u \in AnyThread /\ u.next = "final_response" /\ u.draft = run[w].draft
  BY <1>1, <1>2, Running, PutNext
<1> HIDE DEF u
<1>4. approvals # 0 /\ u.draft <= drafts'
  BY <1>1, <1>3, Running
<1>5. saves' \in Nat /\ listed' \in BOOLEAN
  BY <1>1, SMT DEF RunInv, Shape
<1>6. u.next \notin {"recall_memory", "investigation"}
  BY <1>3, SMT
<1> QED
  BY <1>1, <1>3, <1>4, <1>5, <1>6, StepMoves

LEMMA RespondKeeps == ASSUME RunInv, NEW w \in Workers, Respond(w) PROVE RunInv'
<1> DEFINE u == [run[w] EXCEPT !.next = "END"]
<1>1. /\ run[w].next = "final_response" /\ Step(w, u) /\ call[w].at = "running"
      /\ UNCHANGED <<saves, listed, drafts>>
  BY DEF Respond, Step, effects
<1>2. "END" \in Nodes
  BY DEF Nodes
<1>3. u \in AnyThread /\ u.next = "END" /\ u.draft = run[w].draft /\ u.report = run[w].report
  BY <1>1, <1>2, Running, PutNext
<1> HIDE DEF u
<1>4. u.draft <= drafts' /\ (approvals = 0 => ~u.report)
  BY <1>1, <1>3, Running
<1>5. saves' \in Nat /\ (approvals = 0 => saves' = 0) /\ listed' \in BOOLEAN
  BY <1>1 DEF RunInv, Shape
<1>6. u.next \notin {"report_generator", "save_memory"} /\ u.next \notin {"recall_memory", "investigation"}
  BY <1>3, SMT
<1> QED
  BY <1>1, <1>3, <1>4, <1>5, <1>6, StepMoves

\* A call that ends takes nothing with it.
LEMMA EndKeeps ==
  ASSUME RunInv, NEW w \in Workers,
         call' = [call EXCEPT ![w] = Idle], run' = [run EXCEPT ![w] = NoThread],
         UNCHANGED <<ckpt, effects, observed>>
  PROVE  RunInv'
<1>1. Shape /\ drafts \in Nat /\ calls \in Nat /\ Counted /\ calls' = calls
      /\ UNCHANGED <<saves, listed, drafts>> /\ approvals' = approvals
  BY SMT DEF RunInv, Shape, observed, effects
<1>2. ~MayDraft(Idle, NoThread)
  BY Apart, SMT DEF MayDraft
<1>3. Counted'
  <2>1. Drafting' \subseteq Drafting
    BY <1>1, <1>2, DraftingAfter
  <2> QED
    BY <1>1, <2>1, FewerDrafting
<1>4. Serving(Idle, NoThread) /\ Accounted(NoThread, drafts', approvals)
  BY Apart, SMT DEF Serving, Accounted
<1>5. Idle.at # "checked" /\ Idle.at = "idle"
  BY Apart, SMT
<1>6. /\ NoThread \in Copies /\ ckpt \in Copies /\ Idle \in {Idle} \cup Accepted
      /\ Accounted(ckpt, drafts', approvals)
  BY <1>1 DEF Copies, RunInv, Shape
<1>7. saves' \in Nat /\ (approvals = 0 => saves' = 0) /\ listed' \in BOOLEAN /\ drafts <= drafts'
  BY <1>1, SMT DEF RunInv, Shape
<1> QED
  BY <1>1, <1>3, <1>4, <1>5, <1>6, <1>7, OneCallMoves

\* The checkpoint of a run's last step.
LEMMA CommitKeeps == ASSUME RunInv, NEW w \in Workers, Commit(w) PROVE RunInv'
<1> DEFINE k == [call[w] EXCEPT !.dirty = FALSE]
           t == run[w]
<1>1. /\ call[w].at = "running" /\ call' = [call EXCEPT ![w] = k] /\ ckpt' = t
      /\ UNCHANGED <<run, effects, observed>>
  BY DEF Commit
<1>2. t \in AnyThread /\ run' = [run EXCEPT ![w] = t]
  <2>1. run = [run EXCEPT ![w] = run[w]]
    BY SMT DEF RunInv, Shape
  <2> QED
    BY <1>1, <2>1, Running
<1>3. call[w] \in Accepted
  <2>1. call[w] \in {Idle} \cup Accepted
    BY DEF RunInv, Shape
  <2> QED
    BY <1>1, <2>1, Apart, SMT
<1>4. k \in Accepted /\ k.at = "running" /\ k.kind = call[w].kind
  BY <1>1, <1>3, PutDirty
<1> HIDE DEF k
<1>5. Serving(k, t) /\ Accounted(t, drafts, approvals)
  BY <1>1, <1>4 DEF RunInv, Calls, Serving
<1>6. Shape /\ drafts \in Nat /\ calls \in Nat /\ Counted /\ calls' = calls
      /\ UNCHANGED <<saves, listed, drafts>> /\ approvals' = approvals
  BY <1>1, SMT DEF RunInv, Shape, observed, effects
<1>7. Counted'
  <2>1. MayDraft(k, t) => MayDraft(call[w], run[w])
    BY <1>1, <1>4, SMT DEF MayDraft
  <2>2. MayDraft(call[w], run[w]) => w \in Drafting
    BY DEF Drafting
  <2>3. Drafting' \subseteq Drafting
    BY <1>1, <1>2, <1>6, <2>1, <2>2, DraftingAfter
  <2> QED
    BY <1>6, <2>3, FewerDrafting
<1>8. k.at # "checked" /\ call[w].at # "idle" /\ t \in Copies /\ k \in {Idle} \cup Accepted
  BY <1>1, <1>2, <1>4, SMT DEF Copies
<1>9. saves' \in Nat /\ (approvals = 0 => saves' = 0) /\ listed' \in BOOLEAN /\ drafts <= drafts'
  BY <1>6, SMT DEF RunInv, Shape
<1> HIDE DEF t
<1> QED
  BY <1>1, <1>2, <1>4, <1>5, <1>6, <1>7, <1>8, <1>9, OneCallMoves

LEMMA InvokeKeeps == ASSUME RunInv, NEW w \in Workers, Invoke(w) PROVE RunInv'
<1> DEFINE c == Answered(w)
           t == [c EXCEPT !.interrupted = FALSE]
           k == [call[w] EXCEPT !.at = "running"]
<1>1. /\ call[w].at = "checked" /\ ckpt' = c /\ run' = [run EXCEPT ![w] = t]
      /\ UNCHANGED <<effects, observed>>
  BY DEF Invoke
<1>2. call' = [call EXCEPT ![w] = k]
  BY DEF Invoke
<1>3. ckpt \in AnyThread /\ call[w] \in {Idle} \cup Accepted /\ Accounted(ckpt, drafts, approvals)
  BY <1>1 DEF RunInv, Calls, Shape
<1>4. call[w] \in Accepted
  BY <1>1, <1>3, Apart, SMT
<1>6. k \in Accepted /\ k.at = "running" /\ k.kind = call[w].kind
  BY <1>4, PutAt
<1> HIDE DEF k
<1>7. /\ c \in AnyThread /\ c.next = ckpt.next /\ c.draft = ckpt.draft /\ c.report = ckpt.report
      /\ c.answer = ckpt.answer \/ c.answer = call[w].kind
  <2>1. CASE call[w].kind \in Decisions
    <3>1. c = [ckpt EXCEPT !.answer = call[w].kind]
      BY <2>1 DEF Answered
    <3> HIDE DEF c
    <3> QED
      BY <1>3, <2>1, <3>1, PutAnswer
  <2>2. CASE call[w].kind \notin Decisions
    BY <1>3, <2>2 DEF Answered
  <2> QED
    BY <2>1, <2>2
<1>8. approvals = 0 => call[w].kind \notin Approving
  BY <1>1 DEF RunInv, Calls
<1>9. Accounted(c, drafts, approvals)
  BY <1>3, <1>7, <1>8 DEF Accounted
<1> HIDE DEF c
<1>10. FALSE \in BOOLEAN
  OBVIOUS
<1>11. /\ t \in AnyThread /\ t.next = c.next /\ t.draft = c.draft /\ t.report = c.report
       /\ t.answer = c.answer
  BY <1>7, <1>10, PutInterrupted
<1> HIDE DEF t
<1>12. Serving(k, t) /\ Accounted(t, drafts, approvals)
  BY <1>6, <1>7, <1>9, <1>11 DEF Serving, Accounted
<1>13. Shape /\ drafts \in Nat /\ calls \in Nat /\ Counted /\ calls' = calls
       /\ UNCHANGED <<saves, listed, drafts>> /\ approvals' = approvals
  BY <1>1, SMT DEF RunInv, Shape, observed, effects
<1>14. Counted'
  <2>1. w \in Drafting
    BY <1>1 DEF Drafting, MayDraft
  <2>2. Drafting' \subseteq Drafting
    BY <1>1, <1>2, <1>13, <2>1, DraftingAfter
  <2> QED
    BY <1>13, <2>2, FewerDrafting
<1>15. /\ k.at # "checked" /\ call[w].at # "idle" /\ t \in Copies /\ c \in Copies
       /\ k \in {Idle} \cup Accepted
  BY <1>1, <1>6, <1>7, <1>11, SMT DEF Copies
<1>16. saves' \in Nat /\ (approvals = 0 => saves' = 0) /\ listed' \in BOOLEAN /\ drafts <= drafts'
  BY <1>13, SMT DEF RunInv, Shape
<1> QED
  BY <1>1, <1>2, <1>6, <1>7, <1>9, <1>12, <1>13, <1>14, <1>15, <1>16, OneCallMoves

-----------------------------------------------------------------------------
(* Calls that come in, and the crash.                                      *)

\* When a call of some kind is accepted: w's call becomes k with the copy t.
LEMMA NewCall ==
  ASSUME RunInv, NEW w \in Workers, NEW k \in Accepted, NEW t \in Copies,
         call' = [call EXCEPT ![w] = k], run' = [run EXCEPT ![w] = t],
         k.at = "checked" => ckpt \in AnyThread, Serving(k, t),
         calls < MaxCalls, calls' = calls + 1,
         approvals' = approvals + IF k.kind \in Approving THEN 1 ELSE 0,
         Accounted(t, drafts, approvals'), overlapped' \in BOOLEAN, crashes' = crashes,
         UNCHANGED <<ckpt, effects>>
  PROVE  RunInv'
<1>1. /\ Shape /\ drafts \in Nat /\ calls \in Nat /\ approvals \in 0..calls /\ Counted
      /\ UNCHANGED <<saves, listed, drafts>>
  BY SMT DEF RunInv, Shape, effects
<1>2. \A v \in Workers : call'[v] = (IF v = w THEN k ELSE call[v])
                        /\ run'[v] = (IF v = w THEN t ELSE run[v])
  BY SMT DEF RunInv, Shape
<1>3. /\ calls' \in 0..MaxCalls /\ approvals' \in 0..calls' /\ calls' > 0
      /\ approvals' = 0 => approvals = 0 /\ k.kind \notin Approving
  BY <1>1, BoundsAssumption, SMT
<1>4. Shape'
  <2>1. call' \in [Workers -> {Idle} \cup Accepted] /\ run' \in [Workers -> Copies]
    BY SMT DEF RunInv, Shape
  <2> QED
    BY <1>1, <1>3, <2>1 DEF RunInv, Shape
<1>5. Counted'
  <2>1. Drafting' \subseteq Drafting \cup {w}
    BY <1>1, DraftingAfter
  <2> QED
    BY <1>1, <2>1, OneDraftsMore
<1>6. ASSUME NEW v \in Workers PROVE Calls(v)' /\ Accounted(run'[v], drafts', approvals')
  <2>1. CASE v = w
    BY <1>1, <1>2, <1>3, <2>1 DEF Calls
  <2>2. CASE v # w
    <3>1. Calls(v) /\ Accounted(run[v], drafts, approvals)
      BY DEF RunInv
    <3> QED
      BY <1>1, <1>2, <1>3, <2>2, <3>1 DEF Calls, Accounted
  <2> QED
    BY <2>1, <2>2
<1>7. Accounted(ckpt', drafts', approvals') /\ (approvals' = 0 => saves' = 0)
  BY <1>1, <1>3 DEF RunInv, Accounted
<1> QED
  BY <1>4, <1>5, <1>6, <1>7 DEF RunInv

LEMMA FreshThread ==
  Fresh \in AnyThread /\ Fresh.next = "recall_memory" /\ Fresh.answer = "none"
    /\ Fresh.draft = 0 /\ ~Fresh.report
<1>1. Fresh \in AnyThread
  <2>1. /\ "recall_memory" \in Nodes /\ "none" \in Decisions \cup {"none"}
        /\ "pending" \in Statuses /\ 0 \in Nat /\ FALSE \in BOOLEAN
    BY SMT DEF Nodes, Statuses
  <2> QED
    BY <2>1 DEF Fresh, AnyThread
<1> QED
  BY <1>1 DEF Fresh

LEMMA CreateKeeps == ASSUME RunInv, NEW w \in Workers, Create(w) PROVE RunInv'
<1> DEFINE k == [at |-> "running", kind |-> "create", dirty |-> TRUE]
<1>1. /\ calls < MaxCalls /\ calls' = calls + 1
      /\ run' = [run EXCEPT ![w] = Fresh] /\ call' = [call EXCEPT ![w] = k]
      /\ UNCHANGED <<ckpt, effects, approvals, overlapped, crashes>>
  BY DEF Create
<1>2. k \in Accepted /\ k.at = "running" /\ k.kind = "create"
  <2>1. "create" \in Kinds /\ "running" \in {"checked", "running"}
    BY DEF Kinds
  <2> QED
    BY <2>1 DEF Accepted
<1> HIDE DEF k
<1>3. "create" \notin Approving /\ "none" \notin Approving
  BY SMT DEF Approving
<1>4. Shape /\ approvals \in Nat /\ drafts \in Nat /\ Fresh \in Copies
  BY FreshThread, SMT DEF RunInv, Shape, Copies
<1>5. approvals' = approvals + IF k.kind \in Approving THEN 1 ELSE 0
  BY <1>1, <1>2, <1>3, <1>4, SMT
<1>6. Serving(k, Fresh)
  BY FreshThread DEF Serving
<1>7. Accounted(Fresh, drafts, approvals')
  <2>1. 0 <= drafts /\ "recall_memory" \notin {"report_generator", "save_memory"}
    BY <1>4, SMT
  <2> QED
    BY <1>3, <2>1, FreshThread DEF Accounted
<1>8. k.at # "checked" /\ overlapped' \in BOOLEAN
  BY <1>1, <1>2, <1>4, SMT DEF Shape
<1> QED
  BY <1>1, <1>2, <1>4, <1>5, <1>6, <1>7, <1>8, NewCall

LEMMA CheckKeeps ==
  ASSUME RunInv, NEW w \in Workers, NEW kind \in Kinds, Check(w, kind) PROVE RunInv'
<1> DEFINE k == [at |-> "checked", kind |-> kind, dirty |-> FALSE]
<1>1. /\ ckpt # NoThread /\ calls < MaxCalls /\ calls' = calls + 1 /\ call' = [call EXCEPT ![w] = k]
      /\ approvals' = approvals + IF kind \in Approving THEN 1 ELSE 0
      /\ UNCHANGED <<ckpt, run, effects, crashes>>
  BY DEF Check
<1>2. overlapped' \in BOOLEAN
  <2>1. overlapped' = (overlapped \/ \E v \in Workers : Busy(v))
    BY DEF Check
  <2> QED
    BY <2>1
<1>3. ckpt \in AnyThread
  BY <1>1 DEF RunInv, Shape, Copies
<1>4. k \in Accepted /\ k.at = "checked" /\ k.kind = kind
  <2>1. "checked" \in {"checked", "running"}
    OBVIOUS
  <2> QED
    BY <2>1 DEF Accepted
<1> HIDE DEF k
<1>5. Serving(k, run[w])
  BY <1>4, SMT DEF Serving
<1>6. run[w] \in Copies /\ run' = [run EXCEPT ![w] = run[w]]
  BY <1>1, SMT DEF RunInv, Shape
<1>7. Accounted(run[w], drafts, approvals')
  <2>1. Accounted(run[w], drafts, approvals)
    BY DEF RunInv
  <2>2. approvals' = 0 => approvals = 0
    BY <1>1, SMT DEF RunInv, Shape
  <2> QED
    BY <2>1, <2>2 DEF Accounted
<1> QED
  BY <1>1, <1>2, <1>3, <1>4, <1>5, <1>6, <1>7, NewCall

LEMMA CrashKeeps == ASSUME RunInv, Crash PROVE RunInv'
<1>1. /\ crashes < MaxCrashes /\ crashes' = crashes + 1
      /\ call' = [w \in Workers |-> Idle] /\ run' = [w \in Workers |-> NoThread]
      /\ UNCHANGED <<ckpt, saves, listed, drafts, calls, approvals, overlapped>>
  BY DEF Crash, effects
<1>2. \A w \in Workers : call'[w] = Idle /\ run'[w] = NoThread
  BY <1>1
<1>3. Shape'
  <2>1. crashes' \in 0..MaxCrashes
    BY <1>1, BoundsAssumption, SMT DEF RunInv, Shape
  <2>2. call' \in [Workers -> {Idle} \cup Accepted] /\ run' \in [Workers -> Copies]
    BY <1>1, SMT DEF Copies
  <2> QED
    BY <1>1, <2>1, <2>2 DEF RunInv, Shape
<1>4. Counted'
  <2>1. ~MayDraft(Idle, NoThread)
    BY Apart, SMT DEF MayDraft
  <2>2. Drafting' \subseteq Drafting
    BY <1>2, <2>1 DEF Drafting
  <2>3. drafts \in Nat /\ calls \in Nat /\ Counted
    BY SMT DEF RunInv, Shape
  <2> QED
    BY <1>1, <2>2, <2>3, FewerDrafting
<1>5. ASSUME NEW w \in Workers PROVE Calls(w)' /\ Accounted(run'[w], drafts', approvals')
  <2>1. call'[w].at = "idle" /\ run'[w] \notin AnyThread
    BY <1>2, Apart
  <2> QED
    BY <2>1, SMT DEF Calls, Serving, Accounted
<1>6. Accounted(ckpt', drafts', approvals') /\ (approvals' = 0 => saves' = 0)
  BY <1>1 DEF RunInv
<1> QED
  BY <1>3, <1>4, <1>5, <1>6 DEF RunInv

LEMMA InitRunInv == Init => RunInv
<1> SUFFICES ASSUME Init PROVE RunInv
  OBVIOUS
<1>1. /\ ckpt = NoThread /\ saves = 0 /\ listed = FALSE /\ drafts = 0
      /\ calls = 0 /\ approvals = 0 /\ overlapped = FALSE /\ crashes = 0
      /\ call = [w \in Workers |-> Idle] /\ run = [w \in Workers |-> NoThread]
  BY DEF Init
<1>2. \A w \in Workers : call[w] = Idle /\ run[w] = NoThread
  BY <1>1
<1>3. Shape
  <2>1. call \in [Workers -> {Idle} \cup Accepted] /\ run \in [Workers -> Copies] /\ ckpt \in Copies
    BY <1>1, SMT DEF Copies
  <2>2. saves \in Nat /\ drafts \in Nat /\ calls \in 0..MaxCalls /\ approvals \in 0..calls
        /\ crashes \in 0..MaxCrashes
    BY <1>1, BoundsAssumption, SMT
  <2> QED
    BY <1>1, <2>1, <2>2 DEF Shape
<1>4. Counted
  <2>1. ~MayDraft(Idle, NoThread)
    BY Apart, SMT DEF MayDraft
  <2>2. Drafting = {}
    BY <1>2, <2>1 DEF Drafting
  <2>3. Cardinality(Drafting) = 0
    BY <2>2, FS_EmptySet
  <2> QED
    BY <1>1, <2>3, SMT DEF Counted
<1>5. ASSUME NEW w \in Workers PROVE Calls(w) /\ Accounted(run[w], drafts, approvals)
  <2>1. call[w].at = "idle" /\ run[w] \notin AnyThread
    BY <1>2, Apart
  <2> QED
    BY <2>1, SMT DEF Calls, Serving, Accounted
<1>6. Accounted(ckpt, drafts, approvals)
  BY <1>1, Apart DEF Accounted
<1> QED
  BY <1>1, <1>3, <1>4, <1>5, <1>6 DEF RunInv

LEMMA NextKeeps == RunInv /\ [Next]_vars => RunInv'
<1> SUFFICES ASSUME RunInv, [Next]_vars PROVE RunInv'
  OBVIOUS
<1>1. CASE UNCHANGED vars
  <2>1. UNCHANGED <<ckpt, call, run, saves, listed, drafts, calls, approvals, overlapped, crashes>>
    BY <1>1 DEF vars, effects, observed
  <2>2. Drafting' = Drafting
    BY <2>1 DEF Drafting
  <2> QED
    BY <2>1, <2>2 DEF RunInv, Shape, Counted, Calls
<1>2. ASSUME NEW w \in Workers, BriefFails(w) \/ Return(w) PROVE RunInv'
  <2>1. /\ call' = [call EXCEPT ![w] = Idle] /\ run' = [run EXCEPT ![w] = NoThread]
        /\ UNCHANGED <<ckpt, effects, observed>>
    BY <1>2 DEF BriefFails, Return
  <2> QED
    BY <2>1, EndKeeps
<1>3. ASSUME NEW w \in Workers, Serve(w) PROVE RunInv'
  BY <1>2, <1>3, InvokeKeeps, RecallKeeps, InvestigateKeeps, PauseKeeps, DecideKeeps,
     ReportKeeps, SaveKeeps, RespondKeeps, CommitKeeps DEF Serve
<1> QED
  BY <1>1, <1>3, CreateKeeps, CheckKeeps, CrashKeeps DEF Next

LEMMA RunInvAlways == Spec => []RunInv
BY InitRunInv, NextKeeps, PTL DEF Spec

-----------------------------------------------------------------------------
(* What the steps do, field by field.                                      *)

LEMMA PutKeepsStatus ==
  ASSUME NEW t \in AnyThread
  PROVE  /\ \A x \in Nodes : [t EXCEPT !.next = x].status = t.status
         /\ \A x \in BOOLEAN : [t EXCEPT !.interrupted = x].status = t.status
         /\ \A x \in Decisions \cup {"none"} : [t EXCEPT !.answer = x].status = t.status
         /\ \A x \in Nat : [t EXCEPT !.draft = x].status = t.status
         /\ \A x \in BOOLEAN : [t EXCEPT !.report = x].status = t.status
         /\ \A x \in Statuses : [t EXCEPT !.status = x].status = x
BY SMT DEF AnyThread

\* w's call, still being served after a step, and its copy.
Goes(w, thread) ==
  /\ call[w].at = "running" /\ ~run[w].interrupted /\ run[w] \in AnyThread
  /\ call'[w].at = "running" /\ call'[w].kind = call[w].kind /\ call'[w].dirty
  /\ call'[w] \in Accepted /\ run'[w] \in AnyThread
  /\ run'[w].next = thread.next /\ run'[w].interrupted = thread.interrupted
  /\ run'[w].status = thread.status /\ run'[w].draft = thread.draft
  /\ run'[w].report = thread.report /\ run'[w].answer = "none"
  /\ ckpt' = ckpt
  /\ \A v \in Workers \ {w} : call'[v] = call[v] /\ run'[v] = run[v]

LEMMA StepGoes ==
  ASSUME RunInv, NEW w \in Workers, NEW thread \in AnyThread, Step(w, thread)
  PROVE  Goes(w, thread)
<1> DEFINE k == [call[w] EXCEPT !.dirty = TRUE]
           t == [thread EXCEPT !.answer = "none"]
<1>1. /\ call[w].at = "running" /\ ~run[w].interrupted /\ call' = [call EXCEPT ![w] = k]
      /\ run' = [run EXCEPT ![w] = t] /\ ckpt' = ckpt
  BY DEF Step
<1>2. call \in [Workers -> {Idle} \cup Accepted] /\ run \in [Workers -> Copies]
  BY DEF RunInv, Shape
<1>3. call[w] \in Accepted
  <2>1. call[w] \in {Idle} \cup Accepted
    BY <1>2
  <2> QED
    BY <1>1, <2>1, Apart, SMT
<1>4. TRUE \in BOOLEAN /\ "none" \in Decisions \cup {"none"}
  OBVIOUS
<1>5. k \in Accepted /\ k.at = "running" /\ k.kind = call[w].kind
  BY <1>1, <1>3, <1>4, PutDirty
<1>6. k.dirty
  BY <1>3 DEF Accepted
<1>7. /\ t \in AnyThread /\ t.next = thread.next /\ t.interrupted = thread.interrupted
      /\ t.draft = thread.draft /\ t.report = thread.report /\ t.answer = "none"
  BY <1>4, PutAnswer
<1>8. t.status = thread.status
  BY <1>4, PutKeepsStatus
<1>9. run[w] \in AnyThread
  BY <1>1, Running
<1> HIDE DEF k, t
<1>10. call'[w] = k /\ run'[w] = t /\ \A v \in Workers \ {w} : call'[v] = call[v] /\ run'[v] = run[v]
  BY <1>1, <1>2, SMT
<1> QED
  BY <1>1, <1>5, <1>6, <1>7, <1>8, <1>9, <1>10 DEF Goes

\* A step of w's run and its effect on the parts of the thread that most steps leave.
Same(w) ==
  /\ run'[w].interrupted = run[w].interrupted /\ run'[w].status = run[w].status
  /\ run'[w].draft = run[w].draft

LEMMA RecallGoes ==
  ASSUME RunInv, NEW w \in Workers, Recall(w)
  PROVE  /\ run[w].next = "recall_memory" /\ drafts' = drafts /\ Goes(w, run'[w])
         /\ run'[w].next = "investigation" /\ run'[w].report = run[w].report /\ Same(w)
<1> DEFINE u == [run[w] EXCEPT !.next = "investigation"]
<1>1. /\ run[w].next = "recall_memory" /\ Step(w, u) /\ call[w].at = "running" /\ drafts' = drafts
  BY DEF Recall, Step
<1>2. "investigation" \in Nodes
  BY DEF Nodes
<1>3. run[w] \in AnyThread
  BY <1>1, Running
<1>4. /\ u \in AnyThread /\ u.next = "investigation" /\ u.interrupted = run[w].interrupted
      /\ u.draft = run[w].draft /\ u.report = run[w].report /\ u.status = run[w].status
  BY <1>2, <1>3, PutNext, PutKeepsStatus
<1> HIDE DEF u
<1>5. Goes(w, u)
  BY <1>1, <1>4, StepGoes
<1> QED
  BY <1>1, <1>4, <1>5 DEF Goes, Same

LEMMA InvestigateGoes ==
  ASSUME RunInv, NEW w \in Workers, Investigate(w)
  PROVE  /\ run[w].next = "investigation" /\ drafts \in Nat /\ drafts' \in Nat
         /\ \/ drafts' = drafts /\ run'[w].draft = run[w].draft
            \/ drafts' = drafts + 1 /\ run'[w].draft = drafts'
         /\ run[w].draft \in Nat /\ run[w].draft <= run'[w].draft /\ run'[w].draft \in Nat
         /\ Goes(w, run'[w]) /\ run'[w].next = "human_approval"
         /\ run'[w].interrupted = run[w].interrupted /\ run'[w].status = run[w].status
         /\ run'[w].report = run[w].report
<1> DEFINE q == [run[w] EXCEPT !.next = "human_approval"]
           d == IF drafts' > drafts THEN drafts' ELSE q.draft
           u == [q EXCEPT !.draft = d]
<1>1. /\ run[w].next = "investigation" /\ call[w].at = "running"
      /\ drafts' \in {drafts, drafts + 1}
  BY DEF Investigate, Step
<1>2. Step(w, u)
  BY DEF Investigate
<1>3. "human_approval" \in Nodes
  BY DEF Nodes
<1>4. run[w] \in AnyThread /\ run[w].draft \in Nat /\ run[w].draft <= drafts
  BY <1>1, Running
<1>5. /\ q \in AnyThread /\ q.next = "human_approval" /\ q.interrupted = run[w].interrupted
      /\ q.status = run[w].status /\ q.report = run[w].report /\ q.draft = run[w].draft
  BY <1>3, <1>4, PutNext, PutKeepsStatus
<1> HIDE DEF q
<1>6. /\ drafts \in Nat /\ drafts' \in Nat /\ d \in Nat /\ run[w].draft <= d
      /\ \/ drafts' = drafts /\ d = run[w].draft
         \/ drafts' = drafts + 1 /\ d = drafts'
  BY <1>1, <1>4, <1>5, DraftOf
<1> HIDE DEF d
<1>7. /\ u \in AnyThread /\ u.next = q.next /\ u.interrupted = q.interrupted
      /\ u.draft = d /\ u.status = q.status /\ u.report = q.report
  BY <1>5, <1>6, PutDraft, PutKeepsStatus
<1> HIDE DEF u
<1>8. Goes(w, u)
  BY <1>2, <1>7, StepGoes
<1>9. Goes(w, run'[w]) /\ run'[w].draft = d
  BY <1>7, <1>8 DEF Goes
<1> QED
  BY <1>1, <1>4, <1>5, <1>6, <1>7, <1>8, <1>9 DEF Goes

LEMMA PauseGoes ==
  ASSUME RunInv, NEW w \in Workers, Pause(w)
  PROVE  /\ run[w].next = "human_approval" /\ run[w].answer = "none" /\ drafts' = drafts
         /\ Goes(w, run'[w]) /\ run'[w].next = "human_approval" /\ run'[w].interrupted
         /\ run'[w].report = run[w].report
         /\ run'[w].draft = run[w].draft /\ run'[w].status = run[w].status
<1> DEFINE r == run[w]
           u == [r EXCEPT !.interrupted = TRUE]
<1>1. /\ r.next = "human_approval" /\ r.answer = "none" /\ Step(w, u)
      /\ call[w].at = "running" /\ drafts' = drafts
  BY DEF Pause, Step, effects
<1>2. r \in AnyThread /\ TRUE \in BOOLEAN
  BY <1>1, Running
<1> HIDE DEF r
<1>3. u.interrupted
  BY <1>2 DEF AnyThread
<1>4. /\ u \in AnyThread /\ u.next = r.next /\ u.draft = r.draft /\ u.status = r.status
      /\ u.report = r.report
  BY <1>2, PutInterrupted, PutKeepsStatus
<1> HIDE DEF u
<1>5. Goes(w, u)
  BY <1>1, <1>4, StepGoes
<1>6. /\ run'[w].next = r.next /\ run'[w].interrupted /\ run'[w].draft = r.draft
      /\ run'[w].status = r.status /\ run'[w].report = r.report
  BY <1>3, <1>4, <1>5 DEF Goes
<1>7. Goes(w, run'[w])
  BY <1>5 DEF Goes
<1> QED
  BY <1>1, <1>6, <1>7 DEF r

LEMMA DecideGoes ==
  ASSUME RunInv, NEW w \in Workers, Decide(w)
  PROVE  /\ run[w].next = "human_approval" /\ run[w].answer \in Decisions /\ drafts' = drafts
         /\ Goes(w, run'[w]) /\ run'[w].next = AfterGate(run[w].answer)
         /\ run'[w].interrupted = run[w].interrupted /\ run'[w].report = run[w].report
         /\ run'[w].status = StatusOf[run[w].answer]
         /\ run[w].answer # "modify_draft" => run'[w].draft = run[w].draft
<1> DEFINE a == run[w].answer
           p == [run[w] EXCEPT !.next = AfterGate(a)]
           q == [p EXCEPT !.status = StatusOf[a]]
           d == IF a = "modify_draft" THEN 0 ELSE q.draft
           u == [q EXCEPT !.draft = d]
<1>1. /\ run[w].next = "human_approval" /\ a # "none" /\ call[w].at = "running"
      /\ drafts' = drafts
  BY DEF Decide, Step, effects
<1>2. run[w] \in AnyThread /\ a \in Decisions
  <2>1. run[w] \in AnyThread
    BY <1>1, Running
  <2>2. a \in Decisions \cup {"none"}
    BY <2>1, SMT DEF AnyThread
  <2> QED
    BY <1>1, <2>1, <2>2
<1>3. p \in AnyThread /\ p.next = AfterGate(a) /\ p.interrupted = run[w].interrupted
      /\ p.draft = run[w].draft /\ p.report = run[w].report
  BY <1>2, AfterGateLeads, PutNext
<1>4. u = [run[w] EXCEPT !.next = AfterGate(a), !.status = StatusOf[a],
                         !.draft = IF a = "modify_draft" THEN 0 ELSE @]
  BY <1>2, <1>3, SMT DEF AnyThread
<1>5. Step(w, u)
  BY <1>4 DEF Decide
<1> HIDE DEF p
<1>6. /\ q \in AnyThread /\ q.next = p.next /\ q.interrupted = p.interrupted
      /\ q.draft = p.draft /\ q.status = StatusOf[a] /\ q.report = p.report
  BY <1>2, <1>3, AfterGateLeads, PutStatus, PutKeepsStatus
<1> HIDE DEF q
<1>7. d \in Nat /\ (a # "modify_draft" => d = run[w].draft)
  BY <1>1, <1>3, <1>6, Running, SMT
<1> HIDE DEF d
<1>8. /\ u \in AnyThread /\ u.next = q.next /\ u.interrupted = q.interrupted
      /\ u.status = q.status /\ u.report = q.report /\ u.draft = d
  BY <1>6, <1>7, PutDraft, PutKeepsStatus
<1> HIDE DEF u
<1>9. Goes(w, u)
  BY <1>5, <1>8, StepGoes
<1> QED
  BY <1>1, <1>2, <1>3, <1>6, <1>7, <1>8, <1>9 DEF Goes

LEMMA ReportGoes ==
  ASSUME RunInv, NEW w \in Workers, Report(w)
  PROVE  /\ run[w].next = "report_generator" /\ drafts' = drafts /\ Goes(w, run'[w])
         /\ run'[w].next = "save_memory" /\ Same(w) /\ (run[w].report => run'[w].report)
<1>0. PICK made \in {run[w].report, TRUE} :
        Step(w, [run[w] EXCEPT !.next = "save_memory", !.report = made])
  BY DEF Report
<1> DEFINE q == [run[w] EXCEPT !.next = "save_memory"]
           u == [q EXCEPT !.report = made]
<1>1. run[w].next = "report_generator" /\ call[w].at = "running" /\ drafts' = drafts
  BY DEF Report, Step, effects
<1>2. Step(w, u)
  BY <1>0
<1>3. "save_memory" \in Nodes /\ made \in BOOLEAN /\ run[w] \in AnyThread
  <2>1. run[w] \in AnyThread
    BY <1>1, Running
  <2>2. run[w].report \in BOOLEAN
    BY <2>1 DEF AnyThread
  <2> QED
    BY <2>1, <2>2 DEF Nodes
<1>4. /\ q \in AnyThread /\ q.next = "save_memory" /\ q.draft = run[w].draft
      /\ q.interrupted = run[w].interrupted /\ q.status = run[w].status
  BY <1>3, PutNext, PutKeepsStatus
<1> HIDE DEF q
<1>5. u.report = made
  BY <1>4 DEF AnyThread
<1>6. /\ u \in AnyThread /\ u.next = q.next /\ u.draft = q.draft
      /\ u.interrupted = q.interrupted /\ u.status = q.status
  BY <1>3, <1>4, PutReport, PutKeepsStatus
<1> HIDE DEF u
<1>7. Goes(w, u)
  BY <1>2, <1>6, StepGoes
<1> QED
  BY <1>0, <1>1, <1>4, <1>5, <1>6, <1>7 DEF Goes, Same

LEMMA SaveGoes ==
  ASSUME RunInv, NEW w \in Workers, Save(w)
  PROVE  /\ run[w].next = "save_memory" /\ drafts' = drafts /\ Goes(w, run'[w])
         /\ run'[w].next = "final_response" /\ run'[w].report = run[w].report /\ Same(w)
<1> DEFINE u == [run[w] EXCEPT !.next = "final_response"]
<1>1. run[w].next = "save_memory" /\ Step(w, u) /\ call[w].at = "running" /\ drafts' = drafts
  BY DEF Save, Step
<1>2. "final_response" \in Nodes
  BY DEF Nodes
<1>3. run[w] \in AnyThread
  BY <1>1, Running
<1>4. /\ u \in AnyThread /\ u.next = "final_response" /\ u.interrupted = run[w].interrupted
      /\ u.draft = run[w].draft /\ u.report = run[w].report /\ u.status = run[w].status
  BY <1>2, <1>3, PutNext, PutKeepsStatus
<1> HIDE DEF u
<1>5. Goes(w, u)
  BY <1>1, <1>4, StepGoes
<1> QED
  BY <1>1, <1>4, <1>5 DEF Goes, Same

LEMMA RespondGoes ==
  ASSUME RunInv, NEW w \in Workers, Respond(w)
  PROVE  /\ run[w].next = "final_response" /\ drafts' = drafts /\ Goes(w, run'[w])
         /\ run'[w].next = "END" /\ run'[w].report = run[w].report /\ Same(w)
<1> DEFINE u == [run[w] EXCEPT !.next = "END"]
<1>1. run[w].next = "final_response" /\ Step(w, u) /\ call[w].at = "running" /\ drafts' = drafts
  BY DEF Respond, Step, effects
<1>2. "END" \in Nodes
  BY DEF Nodes
<1>3. run[w] \in AnyThread
  BY <1>1, Running
<1>4. /\ u \in AnyThread /\ u.next = "END" /\ u.interrupted = run[w].interrupted
      /\ u.draft = run[w].draft /\ u.report = run[w].report /\ u.status = run[w].status
  BY <1>2, <1>3, PutNext, PutKeepsStatus
<1> HIDE DEF u
<1>5. Goes(w, u)
  BY <1>1, <1>4, StepGoes
<1> QED
  BY <1>1, <1>4, <1>5 DEF Goes, Same

LEMMA InvokeGoes ==
  ASSUME RunInv, NEW w \in Workers, Invoke(w)
  PROVE  /\ call[w].at = "checked" /\ ckpt \in AnyThread /\ drafts' = drafts
         /\ call'[w] \in Accepted /\ call'[w].at = "running" /\ call'[w].kind = call[w].kind
         /\ call'[w].dirty = call[w].dirty
         /\ \A v \in Workers \ {w} : call'[v] = call[v] /\ run'[v] = run[v]
         /\ ckpt' \in AnyThread /\ ckpt'.next = ckpt.next /\ ckpt'.draft = ckpt.draft
         /\ ckpt'.interrupted = ckpt.interrupted
         /\ ckpt'.report = ckpt.report /\ ckpt'.status = ckpt.status
         /\ run'[w] \in AnyThread /\ run'[w].next = ckpt.next /\ run'[w].draft = ckpt.draft
         /\ run'[w].report = ckpt.report /\ run'[w].status = ckpt.status
         /\ ~run'[w].interrupted
         /\ call[w].kind \in Decisions => run'[w].answer = call[w].kind
<1> DEFINE c == Answered(w)
           t == [c EXCEPT !.interrupted = FALSE]
           k == [call[w] EXCEPT !.at = "running"]
<1>1. /\ call[w].at = "checked" /\ ckpt' = c /\ run' = [run EXCEPT ![w] = t]
      /\ drafts' = drafts
  BY DEF Invoke, effects
<1>2. call' = [call EXCEPT ![w] = k]
  BY DEF Invoke
<1>3. /\ ckpt \in AnyThread /\ call[w] \in {Idle} \cup Accepted
      /\ call \in [Workers -> {Idle} \cup Accepted] /\ run \in [Workers -> Copies]
  BY <1>1 DEF RunInv, Calls, Shape
<1>4. call[w] \in Accepted
  BY <1>1, <1>3, Apart, SMT
<1>6. k \in Accepted /\ k.at = "running" /\ k.kind = call[w].kind /\ k.dirty = call[w].dirty
  <2>1. k.dirty = call[w].dirty
    BY <1>4, SMT DEF Accepted
  <2> QED
    BY <1>4, <2>1, PutAt
<1> HIDE DEF k
<1>7. /\ c \in AnyThread /\ c.next = ckpt.next /\ c.draft = ckpt.draft
      /\ c.interrupted = ckpt.interrupted /\ c.report = ckpt.report /\ c.status = ckpt.status
      /\ call[w].kind \in Decisions => c.answer = call[w].kind
  <2>1. CASE call[w].kind \in Decisions
    <3>1. c = [ckpt EXCEPT !.answer = call[w].kind]
      BY <2>1 DEF Answered
    <3> HIDE DEF c
    <3> QED
      BY <1>3, <2>1, <3>1, PutAnswer, PutKeepsStatus
  <2>2. CASE call[w].kind \notin Decisions
    BY <1>3, <2>2 DEF Answered
  <2> QED
    BY <2>1, <2>2
<1> HIDE DEF c
<1>8. FALSE \in BOOLEAN
  OBVIOUS
<1>9. /\ t \in AnyThread /\ t.next = c.next /\ t.draft = c.draft /\ t.answer = c.answer
      /\ t.report = c.report /\ t.status = c.status
  BY <1>7, <1>8, PutInterrupted, PutKeepsStatus
<1>10. ~t.interrupted
  BY <1>7 DEF AnyThread
<1> HIDE DEF t
<1>11. /\ call'[w] = k /\ run'[w] = t
       /\ \A v \in Workers \ {w} : call'[v] = call[v] /\ run'[v] = run[v]
  BY <1>1, <1>2, <1>3, SMT
<1> QED
  BY <1>1, <1>3, <1>6, <1>7, <1>9, <1>10, <1>11

LEMMA CommitGoes ==
  ASSUME RunInv, NEW w \in Workers, Commit(w)
  PROVE  /\ call[w].at = "running" /\ call[w].dirty /\ run[w] \in AnyThread
         /\ ckpt' = run[w] /\ run' = run /\ drafts' = drafts
         /\ call'[w] \in Accepted /\ call'[w].at = "running" /\ call'[w].kind = call[w].kind
         /\ ~call'[w].dirty
         /\ \A v \in Workers \ {w} : call'[v] = call[v]
<1> DEFINE k == [call[w] EXCEPT !.dirty = FALSE]
<1>1. /\ call[w].at = "running" /\ call[w].dirty /\ call' = [call EXCEPT ![w] = k]
      /\ ckpt' = run[w] /\ run' = run /\ drafts' = drafts
  BY DEF Commit, effects
<1>2. call \in [Workers -> {Idle} \cup Accepted]
  BY DEF RunInv, Shape
<1>3. call[w] \in Accepted /\ FALSE \in BOOLEAN
  <2>1. call[w] \in {Idle} \cup Accepted
    BY <1>2
  <2> QED
    BY <1>1, <2>1, Apart, SMT
<1>4. k \in Accepted /\ k.at = "running" /\ k.kind = call[w].kind
  BY <1>1, <1>3, PutDirty
<1>5. ~k.dirty
  BY <1>3 DEF Accepted
<1> HIDE DEF k
<1>6. call'[w] = k /\ \A v \in Workers \ {w} : call'[v] = call[v]
  BY <1>1, <1>2, SMT
<1>7. run[w] \in AnyThread
  BY <1>1, Running
<1> QED
  BY <1>1, <1>4, <1>5, <1>6, <1>7

\* A call that ends leaves the others and the checkpoint alone.
LEMMA EndGoes ==
  ASSUME RunInv, NEW w \in Workers, Return(w) \/ BriefFails(w)
  PROVE  /\ call[w].at = "running" /\ ~call[w].dirty /\ ckpt' = ckpt /\ drafts' = drafts
         /\ call'[w] = Idle /\ run'[w] = NoThread
         /\ \A v \in Workers \ {w} : call'[v] = call[v] /\ run'[v] = run[v]
<1>1. /\ call[w].at = "running" /\ ~call[w].dirty
      /\ call' = [call EXCEPT ![w] = Idle] /\ run' = [run EXCEPT ![w] = NoThread]
      /\ ckpt' = ckpt /\ drafts' = drafts
  BY DEF Return, BriefFails, effects
<1>2. call \in [Workers -> {Idle} \cup Accepted] /\ run \in [Workers -> Copies]
  BY DEF RunInv, Shape
<1> QED
  BY <1>1, <1>2

LEMMA CheckGoes ==
  ASSUME RunInv, NEW w \in Workers, NEW kind \in Kinds, Check(w, kind)
  PROVE  /\ ckpt \in AnyThread /\ call[w].at = "idle" /\ call'[w].at = "checked"
         /\ call'[w].kind = kind /\ ~call'[w].dirty /\ ckpt' = ckpt /\ run' = run /\ drafts' = drafts
         /\ \A v \in Workers \ {w} : call'[v] = call[v]
<1> DEFINE k == [at |-> "checked", kind |-> kind, dirty |-> FALSE]
<1>1. /\ ckpt # NoThread /\ call[w].at = "idle" /\ call' = [call EXCEPT ![w] = k]
      /\ ckpt' = ckpt /\ run' = run /\ drafts' = drafts
  BY DEF Check, Busy, effects
<1>2. call \in [Workers -> {Idle} \cup Accepted] /\ ckpt \in Copies
  BY DEF RunInv, Shape
<1>3. k.at = "checked" /\ k.kind = kind /\ ~k.dirty
  OBVIOUS
<1> HIDE DEF k
<1>4. call'[w] = k /\ \A v \in Workers \ {w} : call'[v] = call[v]
  BY <1>1, <1>2
<1> QED
  BY <1>1, <1>2, <1>3, <1>4 DEF Copies

LEMMA CreateGoes ==
  ASSUME RunInv, NEW w \in Workers, Create(w)
  PROVE  /\ \A v \in Workers : call[v].at = "idle"
         /\ call'[w].at = "running" /\ call'[w].kind = "create" /\ call'[w].dirty
         /\ run'[w] = Fresh /\ ckpt' = ckpt /\ drafts' = drafts
         /\ \A v \in Workers \ {w} : call'[v] = call[v] /\ run'[v] = run[v]
<1> DEFINE k == [at |-> "running", kind |-> "create", dirty |-> TRUE]
<1>1. /\ calls = 0 /\ call' = [call EXCEPT ![w] = k] /\ run' = [run EXCEPT ![w] = Fresh]
      /\ ckpt' = ckpt /\ drafts' = drafts
  BY DEF Create, effects
<1>2. call \in [Workers -> {Idle} \cup Accepted] /\ run \in [Workers -> Copies]
  BY DEF RunInv, Shape
<1>3. k.at = "running" /\ k.kind = "create" /\ k.dirty
  OBVIOUS
<1> HIDE DEF k
<1>4. /\ call'[w] = k /\ run'[w] = Fresh
      /\ \A v \in Workers \ {w} : call'[v] = call[v] /\ run'[v] = run[v]
  BY <1>1, <1>2
<1>5. \A v \in Workers : call[v].at = "idle"
  <2>1. \A v \in Workers : call[v].at # "idle" => calls > 0
    BY DEF RunInv, Calls
  <2> QED
    BY <1>1, <2>1
<1> QED
  BY <1>1, <1>3, <1>4, <1>5

-----------------------------------------------------------------------------
(* A thread by its place in its life, and calls that follow one another.   *)

BeforeReport == {"recall_memory", "investigation", "human_approval", "report_generator"}

\* What its place says of a thread's report and status, and of its s saves.
Placed(t, s) ==
  /\ t.next \in BeforeReport => ~t.report
  /\ t.next \in {"report_generator", "save_memory"} => t.status \in {"approved", "modified"}
  /\ t.next \in {"final_response", "END"} =>
       IF t.status = "rejected" THEN ~t.report ELSE s > 0

\* Every thread, in a checkpoint or in a copy, whatever overlaps and crashes.
PlacesInv ==
  /\ ckpt \in AnyThread => Placed(ckpt, saves)
  /\ \A w \in Workers : call[w].at = "running" => Placed(run[w], saves)

\* A thread whose s saves are no more than its place, its status and c deaths allow.
Settled(t, s, c) ==
  /\ s <= c + 1
  /\ t.next \in BeforeReport \cup {"save_memory"} => s <= c
  /\ t.next \in {"final_response", "END"} /\ t.status = "rejected" => s <= c

Alike(t, u) == t.next = u.next /\ t.report = u.report /\ t.status = u.status

\* The thread has one life: that of the only call at work or, without one, that of the
\* checkpoint.  A copy is ahead of the checkpoint only while that one has not ended.
Serial ==
  /\ \A v, w \in Workers : call[v].at # "idle" /\ call[w].at # "idle" => v = w
  /\ \A w \in Workers : call[w].at = "running" =>
       /\ Settled(run[w], saves, crashes)
       /\ call[w].dirty => (ckpt \in AnyThread => ckpt.next # "END")
       /\ ~call[w].dirty => /\ ckpt \in AnyThread /\ Alike(run[w], ckpt)
                            /\ run[w].interrupted => ckpt.interrupted
  /\ (\A w \in Workers : call[w].at # "running") =>
       /\ saves <= crashes + 1
       /\ ckpt \in AnyThread => Settled(ckpt, saves, crashes)

SerialInv ==
  /\ calls = 0 => ckpt = NoThread
  /\ \A w \in Workers : call[w].at = "checked" => ~call[w].dirty
  /\ ~overlapped => Serial

LEMMA AlikeSettled ==
  ASSUME NEW t, NEW u, NEW s, NEW c, Alike(t, u), Settled(t, s, c)
  PROVE  Settled(u, s, c)
BY DEF Alike, Settled

\* Where each decision leads, and under which status.
LEMMA DecisionLeads ==
  ASSUME NEW d \in Decisions
  PROVE  \/ AfterGate(d) = "report_generator" /\ StatusOf[d] \in {"approved", "modified"}
         \/ AfterGate(d) = "final_response" /\ StatusOf[d] = "rejected"
         \/ AfterGate(d) = "investigation" /\ StatusOf[d] = "modified"
<1>1. CASE d = "approve"
  BY <1>1, SMT DEF AfterGate, StatusOf
<1>2. CASE d = "reject"
  BY <1>2, SMT DEF AfterGate, StatusOf
<1>3. CASE d = "edit_plan"
  BY <1>3, SMT DEF AfterGate, StatusOf
<1>4. CASE d = "modify_draft"
  BY <1>4, SMT DEF AfterGate, StatusOf
<1> QED
  BY <1>1, <1>2, <1>3, <1>4 DEF Decisions

\* What the gate's destinations say of the decision.
LEMMA GateTells ==
  ASSUME NEW d \in Decisions
  PROVE  /\ AfterGate(d) \in {"report_generator", "final_response", "investigation"}
         /\ AfterGate(d) = "report_generator" => StatusOf[d] \in {"approved", "modified"}
BY DecisionLeads, SMT

-----------------------------------------------------------------------------
(* What every place of a thread's life says of it.                         *)

LEMMA MoreSaves ==
  ASSUME NEW t, NEW m \in Nat, NEW n \in Nat, m <= n, Placed(t, m)
  PROVE  Placed(t, n)
BY SMT DEF Placed

LEMMA PlacedByFields ==
  ASSUME NEW t, NEW u, NEW n, Alike(t, u), Placed(t, n)
  PROVE  Placed(u, n)
BY DEF Alike, Placed

\* A super-step leaves the thread as its next place says.
LEMMA StepPlaced ==
  ASSUME RunInv, PlacesInv, NEW w \in Workers,
         \/ Recall(w) \/ Investigate(w) \/ Pause(w) \/ Decide(w)
         \/ Report(w) \/ Save(w) \/ Respond(w)
  PROVE  /\ Goes(w, run'[w]) /\ Placed(run'[w], saves') /\ saves' \in {saves, saves + 1}
<1> DEFINE t == run[w]
           u == run'[w]
<1>1. Goes(w, u) /\ saves \in Nat
  BY RecallGoes, InvestigateGoes, PauseGoes, DecideGoes, ReportGoes, SaveGoes, RespondGoes
  DEF RunInv, Shape
<1>2. Placed(t, saves)
  BY <1>1 DEF Goes, PlacesInv
<1>3. CASE Recall(w) \/ Investigate(w) \/ Pause(w)
  <2>1. /\ t.next \in {"recall_memory", "investigation", "human_approval"}
        /\ u.next \in {"investigation", "human_approval"} /\ u.report = t.report /\ saves' = saves
    BY <1>3, RecallGoes, InvestigateGoes, PauseGoes DEF Recall, Investigate, Pause, effects
  <2>2. Placed(u, saves')
    BY <1>2, <2>1, SMT DEF Placed, BeforeReport
  <2> QED
    BY <1>1, <2>1, <2>2
<1>4. CASE Decide(w)
  <2>1. /\ t.next = "human_approval" /\ t.answer \in Decisions /\ u.report = t.report
        /\ u.next = AfterGate(t.answer) /\ saves' = saves /\ u.status = StatusOf[t.answer]
    BY <1>4, DecideGoes DEF Decide, effects
  <2>2. \/ u.next = "report_generator" /\ u.status \in {"approved", "modified"}
        \/ u.next = "final_response" /\ u.status = "rejected"
        \/ u.next = "investigation" /\ u.status = "modified"
    BY <2>1, DecisionLeads
  <2>3. Placed(u, saves')
    BY <1>2, <2>1, <2>2, SMT DEF Placed, BeforeReport
  <2> QED
    BY <1>1, <2>1, <2>3
<1>5. CASE Report(w)
  <2>1. /\ t.next = "report_generator" /\ u.next = "save_memory" /\ u.status = t.status
        /\ saves' = saves
    BY <1>5, ReportGoes DEF Same, Report, effects
  <2>2. Placed(u, saves')
    BY <1>2, <2>1, SMT DEF Placed, BeforeReport
  <2> QED
    BY <1>1, <2>1, <2>2
<1>6. CASE Save(w)
  <2>1. /\ t.next = "save_memory" /\ u.next = "final_response" /\ u.status = t.status
        /\ saves' = saves + 1
    BY <1>6, SaveGoes DEF Same, Save
  <2>2. Placed(u, saves')
    BY <1>1, <1>2, <2>1, SMT DEF Placed, BeforeReport
  <2> QED
    BY <1>1, <2>1, <2>2
<1>7. CASE Respond(w)
  <2>1. /\ t.next = "final_response" /\ u.next = "END" /\ u.status = t.status
        /\ u.report = t.report /\ saves' = saves
    BY <1>7, RespondGoes DEF Same, Respond, effects
  <2>2. Placed(u, saves')
    BY <1>2, <2>1, SMT DEF Placed, BeforeReport
  <2> QED
    BY <1>1, <2>1, <2>2
<1> QED
  BY <1>3, <1>4, <1>5, <1>6, <1>7

LEMMA NextPlaces == RunInv /\ PlacesInv /\ [Next]_vars => PlacesInv'
<1> SUFFICES ASSUME RunInv, PlacesInv, [Next]_vars PROVE PlacesInv'
  OBVIOUS
<1>1. CASE UNCHANGED vars
  BY <1>1 DEF vars, effects, PlacesInv
<1>2. ASSUME NEW w \in Workers,
             \/ Recall(w) \/ Investigate(w) \/ Pause(w) \/ Decide(w)
             \/ Report(w) \/ Save(w) \/ Respond(w)
      PROVE  PlacesInv'
  <2>1. /\ Placed(run'[w], saves') /\ saves' \in {saves, saves + 1} /\ ckpt' = ckpt
        /\ \A v \in Workers \ {w} : call'[v] = call[v] /\ run'[v] = run[v]
    BY <1>2, StepPlaced DEF Goes
  <2>2. saves \in Nat /\ saves' \in Nat /\ saves <= saves'
    <3>1. saves \in Nat
      BY DEF RunInv, Shape
    <3> QED
      BY <2>1, <3>1, SMT
  <2>3. \A t : Placed(t, saves) => Placed(t, saves')
    BY <2>2, MoreSaves
  <2> QED
    BY <2>1, <2>3 DEF PlacesInv
<1>3. ASSUME NEW w \in Workers, Invoke(w) PROVE PlacesInv'
  <2>1. /\ ckpt \in AnyThread /\ Alike(ckpt, ckpt') /\ Alike(ckpt, run'[w])
        /\ \A v \in Workers \ {w} : call'[v] = call[v] /\ run'[v] = run[v]
    BY <1>3, InvokeGoes DEF Alike
  <2>2. saves' = saves
    BY <1>3 DEF Invoke, effects
  <2>3. Placed(ckpt', saves) /\ Placed(run'[w], saves)
    BY <2>1, PlacedByFields DEF PlacesInv
  <2> QED
    BY <2>1, <2>2, <2>3 DEF PlacesInv
<1>4. ASSUME NEW w \in Workers, Commit(w) PROVE PlacesInv'
  <2>1. /\ call[w].at = "running" /\ ckpt' = run[w] /\ run' = run
        /\ \A v \in Workers \ {w} : call'[v] = call[v]
    BY <1>4, CommitGoes
  <2>2. saves' = saves
    BY <1>4 DEF Commit, effects
  <2> QED
    BY <2>1, <2>2 DEF PlacesInv
<1>5. ASSUME NEW w \in Workers, Return(w) \/ BriefFails(w) PROVE PlacesInv'
  <2>1. /\ ckpt' = ckpt /\ call'[w].at # "running"
        /\ \A v \in Workers \ {w} : call'[v] = call[v] /\ run'[v] = run[v]
    BY <1>5, EndGoes, Apart, SMT
  <2>2. saves' = saves
    BY <1>5 DEF Return, BriefFails, effects
  <2> QED
    BY <2>1, <2>2 DEF PlacesInv
<1>6. ASSUME NEW w \in Workers, Create(w) PROVE PlacesInv'
  <2>1. /\ run'[w] = Fresh /\ ckpt' = ckpt
        /\ \A v \in Workers \ {w} : call'[v] = call[v] /\ run'[v] = run[v]
    BY <1>6, CreateGoes
  <2>2. saves' = saves
    BY <1>6 DEF Create, effects
  <2>3. Placed(Fresh, saves)
    BY SMT DEF Placed, Fresh, BeforeReport
  <2> QED
    BY <2>1, <2>2, <2>3 DEF PlacesInv
<1>7. ASSUME NEW w \in Workers, NEW kind \in Kinds, Check(w, kind) PROVE PlacesInv'
  <2>1. /\ call'[w].at # "running" /\ ckpt' = ckpt /\ run' = run
        /\ \A v \in Workers \ {w} : call'[v] = call[v]
    BY <1>7, CheckGoes, SMT
  <2>2. saves' = saves
    BY <1>7 DEF Check, effects
  <2> QED
    BY <2>1, <2>2 DEF PlacesInv
<1>8. CASE Crash
  <2>1. ckpt' = ckpt /\ saves' = saves /\ \A w \in Workers : call'[w].at # "running"
    BY <1>8, Apart, SMT DEF Crash, effects
  <2> QED
    BY <2>1 DEF PlacesInv
<1> QED
  BY <1>1, <1>2, <1>3, <1>4, <1>5, <1>6, <1>7, <1>8 DEF Next, Serve

LEMMA PlacesInvAlways == Spec => []PlacesInv
<1>1. Init => PlacesInv
  <2> SUFFICES ASSUME Init PROVE PlacesInv
    OBVIOUS
  <2>1. ckpt \notin AnyThread /\ \A w \in Workers : call[w].at # "running"
    BY Apart, SMT DEF Init
  <2> QED
    BY <2>1 DEF PlacesInv
<1> QED
  BY <1>1, RunInvAlways, NextPlaces, PTL DEF Spec

-----------------------------------------------------------------------------
(* What calls that follow one another make of a thread.                    *)

LEMMA InitSerialInv == Init => SerialInv
<1> SUFFICES ASSUME Init PROVE SerialInv
  OBVIOUS
<1>1. /\ ckpt = NoThread /\ saves = 0 /\ crashes = 0
      /\ \A w \in Workers : call[w].at # "running" /\ call[w].at # "checked" /\ call[w].at = "idle"
  BY Apart, SMT DEF Init
<1> QED
  BY <1>1, Apart, SMT DEF SerialInv, Serial

\* A super-step of the only call.
LEMMA SerialStep ==
  ASSUME Serial, NEW w \in Workers, Goes(w, run'[w]), run[w].next # "END",
         Settled(run'[w], saves', crashes')
  PROVE  Serial'
<1>1. /\ call[w].at = "running" /\ call'[w].at = "running" /\ call'[w].dirty /\ ckpt' = ckpt
      /\ \A v \in Workers \ {w} : call'[v] = call[v]
  BY DEF Goes
<1>2. \A v \in Workers \ {w} : call'[v].at = "idle"
  BY <1>1 DEF Serial
<1>3. ckpt \in AnyThread => ckpt.next # "END"
  BY <1>1 DEF Serial, Alike
<1> QED
  BY <1>1, <1>2, <1>3 DEF Serial

\* What the steps of the only call make of the thread.
LEMMA SerialSuperStep ==
  ASSUME RunInv, PlacesInv, Serial, NEW w \in Workers,
         \/ Recall(w) \/ Investigate(w) \/ Pause(w) \/ Decide(w)
         \/ Report(w) \/ Save(w) \/ Respond(w)
  PROVE  Serial'
<1> DEFINE t == run[w]
<1>1. call[w].at = "running" /\ saves \in Nat /\ Settled(t, saves, crashes) /\ Placed(t, saves)
  <2>1. call[w].at = "running"
    BY DEF Recall, Investigate, Pause, Decide, Report, Save, Respond, Step
  <2> QED
    BY <2>1 DEF Serial, PlacesInv, RunInv, Shape
<1>c. crashes' = crashes /\ crashes \in Nat
  <2>1. crashes' = crashes
    BY DEF Recall, Investigate, Pause, Decide, Report, Save, Respond, Step, observed
  <2>2. crashes \in Nat
    BY SMT DEF RunInv, Shape
  <2> QED
    BY <2>1, <2>2
<1>2. CASE Recall(w) \/ Investigate(w) \/ Pause(w)
  <2>1. /\ Goes(w, run'[w]) /\ t.next \in BeforeReport /\ run'[w].next \in BeforeReport
        /\ run'[w].next # "report_generator" /\ t.next # "END"
        /\ run'[w].report = t.report
    BY <1>2, RecallGoes, InvestigateGoes, PauseGoes, SMT DEF BeforeReport
  <2>2. saves' = saves
    BY <1>2 DEF Recall, Investigate, Pause, effects
  <2>3. Settled(run'[w], saves', crashes')
    BY <1>1, <1>c, <2>1, <2>2, SMT DEF Settled, BeforeReport
  <2> QED
    BY <2>1, <2>3, SerialStep
<1>3. CASE Decide(w)
  <2>1. /\ t.next = "human_approval" /\ t.answer \in Decisions /\ Goes(w, run'[w])
        /\ run'[w].next = AfterGate(t.answer) /\ run'[w].report = t.report
        /\ run'[w].status = StatusOf[t.answer]
    BY <1>3, DecideGoes
  <2>2. saves' = saves
    BY <1>3 DEF Decide, effects
  <2>3. /\ AfterGate(t.answer) \in {"report_generator", "final_response", "investigation"}
        /\ AfterGate(t.answer) = "report_generator" => StatusOf[t.answer] \in {"approved", "modified"}
    BY <2>1, GateTells
  <2>4. saves' <= crashes'
    BY <1>1, <1>c, <2>1, <2>2, SMT DEF Settled, BeforeReport
  <2>5. Settled(run'[w], saves', crashes')
    BY <1>1, <1>c, <2>2, <2>3, <2>4, SMT DEF Settled
  <2> QED
    BY <2>1, <2>5, SerialStep, SMT
<1>4. CASE Report(w)
  <2>1. /\ t.next = "report_generator" /\ Goes(w, run'[w]) /\ run'[w].next = "save_memory"
        /\ run'[w].status = t.status
    BY <1>4, ReportGoes DEF Same
  <2>2. saves' = saves
    BY <1>4 DEF Report, effects
  <2>3. Settled(run'[w], saves', crashes')
    BY <1>1, <1>c, <2>1, <2>2, SMT DEF Settled, BeforeReport
  <2> QED
    BY <2>1, <2>3, SerialStep, SMT
<1>5. CASE Save(w)
  <2>1. /\ t.next = "save_memory" /\ Goes(w, run'[w]) /\ run'[w].next = "final_response"
        /\ run'[w].status = t.status
    BY <1>5, SaveGoes DEF Same
  <2>2. saves' = saves + 1
    BY <1>5 DEF Save
  <2>3. Settled(run'[w], saves', crashes')
    BY <1>1, <1>c, <2>1, <2>2, SMT DEF Settled, Placed, BeforeReport
  <2> QED
    BY <2>1, <2>3, SerialStep, SMT
<1>6. CASE Respond(w)
  <2>1. /\ t.next = "final_response" /\ Goes(w, run'[w]) /\ run'[w].next = "END"
        /\ run'[w].status = t.status /\ run'[w].report = t.report
    BY <1>6, RespondGoes DEF Same
  <2>2. saves' = saves
    BY <1>6 DEF Respond, effects
  <2>3. Settled(run'[w], saves', crashes')
    BY <1>1, <1>c, <2>1, <2>2, SMT DEF Settled, BeforeReport
  <2> QED
    BY <2>1, <2>3, SerialStep, SMT
<1> QED
  BY <1>2, <1>3, <1>4, <1>5, <1>6

\* The other steps of the only call.
LEMMA SerialServe ==
  ASSUME RunInv, PlacesInv, SerialInv, Serial, NEW w \in Workers, Serve(w)
  PROVE  Serial'
<1>c. crashes' = crashes
  BY DEF Serve, Invoke, Recall, Investigate, Pause, Decide, Report, Save, Respond,
         BriefFails, Commit, Return, Step, observed
<1>1. CASE Invoke(w)
  <2>1. /\ call[w].at = "checked" /\ ckpt \in AnyThread /\ call'[w].at = "running"
        /\ call'[w].dirty = call[w].dirty /\ ckpt' \in AnyThread
        /\ \A v \in Workers \ {w} : call'[v] = call[v]
        /\ Alike(ckpt, run'[w]) /\ Alike(run'[w], ckpt') /\ ~run'[w].interrupted
    BY <1>1, InvokeGoes DEF Alike
  <2>2. saves' = saves /\ ~call'[w].dirty
    BY <1>1, <2>1 DEF Invoke, effects, SerialInv
  <2>3. \A v \in Workers \ {w} : call'[v].at = "idle" /\ call[v].at = "idle"
    BY <2>1 DEF Serial
  <2>4. Settled(ckpt, saves, crashes)
    BY <2>1, <2>3 DEF Serial
  <2>5. Settled(run'[w], saves', crashes')
    BY <1>c, <2>1, <2>2, <2>4, AlikeSettled
  <2> QED
    BY <2>1, <2>2, <2>3, <2>5 DEF Serial
<1>2. CASE Commit(w)
  <2>1. /\ call[w].at = "running" /\ run[w] \in AnyThread /\ ckpt' = run[w] /\ run' = run
        /\ call'[w].at = "running" /\ ~call'[w].dirty
        /\ \A v \in Workers \ {w} : call'[v] = call[v]
    BY <1>2, CommitGoes
  <2>2. saves' = saves
    BY <1>2 DEF Commit, effects
  <2>3. \A v \in Workers \ {w} : call'[v].at = "idle"
    BY <2>1 DEF Serial
  <2>4. Settled(run'[w], saves', crashes')
    BY <1>c, <2>1, <2>2 DEF Serial
  <2> QED
    BY <2>1, <2>3, <2>4 DEF Serial, Alike
<1>3. CASE Return(w) \/ BriefFails(w)
  <2>1. /\ call[w].at = "running" /\ ~call[w].dirty /\ ckpt' = ckpt /\ call'[w] = Idle
        /\ \A v \in Workers \ {w} : call'[v] = call[v]
    BY <1>3, EndGoes
  <2>2. saves' = saves
    BY <1>3 DEF Return, BriefFails, effects
  <2>3. \A v \in Workers : call'[v].at = "idle"
    BY <2>1, Apart DEF Serial
  <2>4. ckpt \in AnyThread /\ Settled(ckpt, saves, crashes)
    BY <2>1, AlikeSettled DEF Serial
  <2>5. saves <= crashes + 1
    BY <2>4 DEF Settled
  <2>6. \A v \in Workers : call'[v].at # "running" /\ call'[v].at # "checked"
    BY <2>3, SMT
  <2> QED
    BY <1>c, <2>1, <2>2, <2>3, <2>4, <2>5, <2>6 DEF Serial
<1> QED
  BY <1>1, <1>2, <1>3, SerialSuperStep DEF Serve

\* A call that is accepted while no other is being served.
LEMMA SerialStart ==
  ASSUME RunInv, SerialInv, Serial, NEW w \in Workers,
         Create(w) \/ (~overlapped' /\ \E kind \in Kinds : Check(w, kind))
  PROVE  Serial'
<1>1. CASE Create(w)
  <2>1. /\ \A v \in Workers : call[v].at = "idle"
        /\ call'[w].at = "running" /\ call'[w].dirty /\ run'[w] = Fresh /\ ckpt' = ckpt
        /\ \A v \in Workers \ {w} : call'[v] = call[v]
    BY <1>1, CreateGoes
  <2>2. ckpt = NoThread /\ saves' = saves /\ saves = 0 /\ crashes' = crashes /\ crashes \in Nat
    <3>1. calls = 0 /\ saves' = saves /\ crashes' = crashes /\ crashes \in Nat
      BY <1>1, SMT DEF Create, effects, RunInv, Shape
    <3>2. approvals = 0
      BY <3>1, SMT DEF RunInv, Shape
    <3> QED
      BY <3>1, <3>2 DEF SerialInv, RunInv
  <2>3. Settled(Fresh, 0, crashes)
    BY <2>2, SMT DEF Settled, Fresh, BeforeReport
  <2> QED
    BY <2>1, <2>2, <2>3, Apart DEF Serial
<1>2. ASSUME ~overlapped', NEW kind \in Kinds, Check(w, kind) PROVE Serial'
  <2>1. /\ ckpt \in AnyThread /\ call'[w].at = "checked" /\ ckpt' = ckpt /\ run' = run
        /\ \A v \in Workers \ {w} : call'[v] = call[v]
    BY <1>2, CheckGoes
  <2>2. saves' = saves /\ crashes' = crashes /\ \A v \in Workers : call[v].at = "idle"
    BY <1>2 DEF Check, Busy, effects
  <2>3. Settled(ckpt, saves, crashes) /\ saves <= crashes + 1
    <3>1. \A v \in Workers : call[v].at # "running"
      BY <2>2, SMT
    <3> QED
      BY <2>1, <3>1 DEF Serial
  <2> QED
    BY <2>1, <2>2, <2>3, Apart DEF Serial
<1> QED
  BY <1>1, <1>2

LEMMA NextSerialInv == RunInv /\ PlacesInv /\ SerialInv /\ [Next]_vars => SerialInv'
<1> SUFFICES ASSUME RunInv, PlacesInv, SerialInv, [Next]_vars PROVE SerialInv'
  OBVIOUS
<1>1. CASE UNCHANGED vars
  BY <1>1 DEF vars, effects, observed, SerialInv, Serial
<1>2. ASSUME NEW w \in Workers, Create(w) \/ Serve(w) \/ (\E kind \in Kinds : Check(w, kind))
      PROVE  SerialInv'
  <2>1. calls \in Nat /\ calls' # 0
    <3>1. calls \in Nat
      BY SMT DEF RunInv, Shape
    <3>2. CASE Create(w) \/ (\E kind \in Kinds : Check(w, kind))
      BY <3>1, <3>2, SMT DEF Create, Check
    <3>3. CASE Serve(w)
      <4>1. calls' = calls
        BY <3>3 DEF Serve, Invoke, Recall, Investigate, Pause, Decide, Report, Save, Respond,
                    BriefFails, Commit, Return, Step, observed
      <4>2. call[w].at # "idle"
        <5>1. call[w].at = "checked" \/ call[w].at = "running"
          BY <3>3 DEF Serve, Invoke, Recall, Investigate, Pause, Decide, Report, Save, Respond,
                      BriefFails, Commit, Return, Step
        <5> QED
          BY <5>1, SMT
      <4>3. calls > 0
        BY <4>2 DEF RunInv, Calls
      <4> QED
        BY <3>1, <4>1, <4>3, SMT
    <3> QED
      BY <1>2, <3>2, <3>3
  <2>2. ASSUME NEW v \in Workers, call'[v].at = "checked" PROVE ~call'[v].dirty
    <3>1. CASE call'[v] = call[v]
      BY <2>2, <3>1 DEF SerialInv
    <3>2. CASE call'[v] # call[v]
      <4>1. ASSUME NEW kind \in Kinds, Check(w, kind) PROVE ~call'[v].dirty
        BY <3>2, <4>1, CheckGoes
      <4>2. ~Create(w)
        BY <2>2, <3>2, CreateGoes, SMT
      <4>3. ~Serve(w)
        <5>1. Serve(w) => call'[w].at # "checked"
          BY InvokeGoes, RecallGoes, InvestigateGoes, PauseGoes, DecideGoes, ReportGoes,
             SaveGoes, RespondGoes, CommitGoes, EndGoes, Apart, SMT DEF Serve, Goes
        <5>2. Serve(w) => \A u \in Workers \ {w} : call'[u] = call[u]
          BY InvokeGoes, RecallGoes, InvestigateGoes, PauseGoes, DecideGoes, ReportGoes,
             SaveGoes, RespondGoes, CommitGoes, EndGoes DEF Serve, Goes
        <5> QED
          BY <2>2, <3>2, <5>1, <5>2
      <4> QED
        BY <1>2, <4>1, <4>2, <4>3
    <3> QED
      BY <3>1, <3>2
  <2>3. ASSUME ~overlapped' PROVE Serial'
    <3>1. Serial
      <4>1. ~overlapped
        <5>1. Serve(w) => overlapped' = overlapped
          BY DEF Serve, Invoke, Recall, Investigate, Pause, Decide, Report, Save, Respond,
                 BriefFails, Commit, Return, Step, observed
        <5>2. Create(w) => overlapped' = overlapped
          BY DEF Create
        <5>3. ASSUME NEW kind \in Kinds, Check(w, kind) PROVE ~overlapped
          BY <2>3, <5>3 DEF Check
        <5> QED
          BY <1>2, <2>3, <5>1, <5>2, <5>3
      <4> QED
        BY <4>1 DEF SerialInv
    <3> QED
      BY <1>2, <2>3, <3>1, SerialStart, SerialServe
  <2> QED
    BY <2>1, <2>2, <2>3 DEF SerialInv
<1>3. CASE Crash
  <2>1. /\ crashes' = crashes + 1 /\ calls' = calls /\ ckpt' = ckpt /\ saves' = saves
        /\ overlapped' = overlapped /\ crashes \in Nat /\ saves \in Nat
    BY <1>3, SMT DEF Crash, effects, RunInv, Shape
  <2>2. \A w \in Workers : call'[w].at = "idle"
    BY <1>3, Apart DEF Crash
  <2>3. ASSUME Serial PROVE Serial'
    <3>1. saves <= crashes + 1
      BY <2>3 DEF Serial, Settled
    <3>2. saves' <= crashes' /\ saves' <= crashes' + 1
      BY <2>1, <3>1, SMT
    <3>3. \A w \in Workers : call'[w].at # "running"
      BY <2>2, SMT
    <3>4. \A t : Settled(t, saves', crashes')
      BY <3>2 DEF Settled
    <3> QED
      BY <2>2, <3>2, <3>3, <3>4 DEF Serial
  <2>4. \A w \in Workers : call'[w].at # "checked"
    BY <2>2, SMT
  <2> QED
    BY <2>1, <2>3, <2>4 DEF SerialInv
<1> QED
  BY <1>1, <1>2, <1>3 DEF Next

LEMMA SerialInvAlways == Spec => [](RunInv /\ SerialInv)
<1>1. Init => SerialInv
  BY InitSerialInv
<1> QED
  BY <1>1, RunInvAlways, PlacesInvAlways, NextSerialInv, PTL DEF Spec

-----------------------------------------------------------------------------
(* The life that every copy leads.                                         *)

\* A thread, by its place in its life.
LEMMA LifeFields ==
  ASSUME NEW t, NEW l, l = LifeOf(t)
  PROVE  /\ l.stage = StageOf(t) /\ l.status = t.status /\ l.report = t.report
         /\ t.next # "human_approval" => l.stage = t.next
         /\ t.next = "human_approval" /\ (t.interrupted \/ t.answer # "none") =>
              l.stage = "awaiting_human"
         /\ t.next = "human_approval" /\ ~(t.interrupted \/ t.answer # "none") =>
              l.stage = "human_approval"
BY DEF LifeOf, StageOf

\* A super-step of w's copy takes it to the next stage.
LEMMA StepLives ==
  ASSUME RunInv, NEW w \in Workers,
         \/ Recall(w) \/ Investigate(w) \/ Pause(w) \/ Decide(w)
         \/ Report(w) \/ Save(w) \/ Respond(w)
  PROVE  /\ LivesOn(LifeOf(run[w]), LifeOf(run'[w])) /\ call[w].at = "running"
         /\ \A v \in Workers \ {w} : call'[v] = call[v] /\ run'[v] = run[v]
<1> DEFINE t == run[w]
           u == run'[w]
           l == LifeOf(t)
           m == LifeOf(u)
<1>1. Goes(w, u)
  BY RecallGoes, InvestigateGoes, PauseGoes, DecideGoes, ReportGoes, SaveGoes, RespondGoes
<1>2. /\ call[w].at = "running" /\ ~t.interrupted /\ u.answer = "none"
      /\ \A v \in Workers \ {w} : call'[v] = call[v] /\ run'[v] = run[v]
  BY <1>1 DEF Goes
<1>3. CASE Recall(w) \/ Save(w) \/ Respond(w)
  <2>1. /\ \/ t.next = "recall_memory" /\ u.next = "investigation"
           \/ t.next = "save_memory" /\ u.next = "final_response"
           \/ t.next = "final_response" /\ u.next = "END"
        /\ u.status = t.status /\ u.report = t.report
    BY <1>3, RecallGoes, SaveGoes, RespondGoes DEF Same
  <2> HIDE DEF t, u, l, m
  <2>2. /\ \/ l.stage = "recall_memory" /\ m.stage = "investigation"
           \/ l.stage = "save_memory" /\ m.stage = "final_response"
           \/ l.stage = "final_response" /\ m.stage = "END"
        /\ m.status = l.status /\ m.report = l.report
    BY <2>1, LifeFields DEF l, m
  <2>3. LivesOn(l, m)
    BY <2>2 DEF LivesOn, MovesOn, Following
  <2> QED
    BY <1>2, <2>3 DEF t, u, l, m
<1>4. CASE Investigate(w)
  <2>1. /\ t.next = "investigation" /\ u.next = "human_approval" /\ ~u.interrupted
        /\ u.status = t.status /\ u.report = t.report
    BY <1>2, <1>4, InvestigateGoes
  <2> HIDE DEF t, u, l, m
  <2>2. /\ l.stage = "investigation" /\ m.stage = "human_approval"
        /\ m.status = l.status /\ m.report = l.report
    BY <1>2, <2>1, LifeFields DEF l, m
  <2>3. LivesOn(l, m)
    BY <2>2 DEF LivesOn, MovesOn, Following
  <2> QED
    BY <1>2, <2>3 DEF t, u, l, m
<1>5. CASE Pause(w)
  <2>1. /\ t.next = "human_approval" /\ t.answer = "none"
        /\ u.next = "human_approval" /\ u.interrupted
        /\ u.status = t.status /\ u.report = t.report
    BY <1>5, PauseGoes
  <2> HIDE DEF t, u, l, m
  <2>2. /\ l.stage = "human_approval" /\ m.stage = "awaiting_human"
        /\ m.status = l.status /\ m.report = l.report
    BY <1>2, <2>1, LifeFields DEF l, m
  <2>3. LivesOn(l, m)
    BY <2>2 DEF LivesOn, MovesOn, Following
  <2> QED
    BY <1>2, <2>3 DEF t, u, l, m
<1>6. CASE Decide(w)
  <2>1. /\ t.next = "human_approval" /\ t.answer \in Decisions /\ t.answer # "none"
        /\ u.next = AfterGate(t.answer) /\ u.status = StatusOf[t.answer]
        /\ u.report = t.report
    BY <1>6, DecideGoes DEF Decisions
  <2>2. \/ u.next = "report_generator" /\ u.status \in {"approved", "modified"}
        \/ u.next = "final_response" /\ u.status = "rejected"
        \/ u.next = "investigation" /\ u.status = "modified"
    BY <2>1, DecisionLeads
  <2> HIDE DEF t, u, l, m
  <2>3. /\ l.stage = "awaiting_human" /\ m.stage = u.next
        /\ m.status = u.status /\ m.report = l.report
    BY <2>1, <2>2, LifeFields DEF l, m
  <2>4. LivesOn(l, m)
    BY <2>2, <2>3 DEF LivesOn, IsDecided
  <2> QED
    BY <1>2, <2>4 DEF t, u, l, m
<1>7. CASE Report(w)
  <2>1. /\ t.next = "report_generator" /\ u.next = "save_memory"
        /\ u.status = t.status /\ (t.report => u.report)
    BY <1>7, ReportGoes DEF Same
  <2>b. t.report \in BOOLEAN /\ u.report \in BOOLEAN
    BY <1>1 DEF Goes, AnyThread
  <2> HIDE DEF t, u, l, m
  <2>2. /\ l.stage = "report_generator" /\ m.stage = "save_memory"
        /\ m.status = l.status /\ (l.report => m.report)
        /\ l.report \in BOOLEAN /\ m.report \in BOOLEAN
    BY <2>1, <2>b, LifeFields DEF l, m
  <2>3. LivesOn(l, m)
    BY <2>2 DEF LivesOn, MovesOn, Following
  <2> QED
    BY <1>2, <2>3 DEF t, u, l, m
<1> QED
  BY <1>3, <1>4, <1>5, <1>6, <1>7

\* A call takes the thread up where the checkpoint has left it; with an answer for the
\* gate the copy waits there, without one it is briefed again.
LEMMA InvokeLives ==
  ASSUME RunInv, NEW w \in Workers, Invoke(w)
  PROVE  /\ LivesOn(LifeOf(ckpt), LifeOf(run'[w])) /\ call[w].at = "checked"
         /\ \A v \in Workers \ {w} : call'[v] = call[v] /\ run'[v] = run[v]
<1> DEFINE t == ckpt
           u == run'[w]
           l == LifeOf(t)
           m == LifeOf(u)
<1>1. /\ call[w].at = "checked" /\ \A v \in Workers \ {w} : call'[v] = call[v] /\ run'[v] = run[v]
      /\ u.next = t.next /\ u.status = t.status /\ u.report = t.report
  BY InvokeGoes
<1> HIDE DEF t, u, l, m
<1>2. /\ m.status = l.status /\ m.report = l.report
      /\ l = [stage |-> StageOf(t), status |-> t.status, report |-> t.report]
      /\ m = [stage |-> StageOf(u), status |-> t.status, report |-> t.report]
  BY <1>1, LifeFields DEF l, m, LifeOf
<1>3. CASE l.stage = m.stage
  <2>1. l = m
    BY <1>2, <1>3
  <2>2. LivesOn(l, m)
    BY <2>1 DEF LivesOn
  <2> QED
    BY <1>1, <2>2 DEF t, u, l, m
<1>4. CASE l.stage # m.stage
  <2>1. {l.stage, m.stage} = {"human_approval", "awaiting_human"}
    <3>1. t.next # "human_approval" => l.stage = m.stage
      BY <1>1, LifeFields DEF l, m
    <3>2. t.next = "human_approval" =>
            l.stage \in {"human_approval", "awaiting_human"}
            /\ m.stage \in {"human_approval", "awaiting_human"}
      BY <1>1, LifeFields DEF l, m
    <3> QED
      BY <1>4, <3>1, <3>2
  <2>2. \/ l.stage = "human_approval" /\ m.stage = "awaiting_human"
        \/ l.stage = "awaiting_human" /\ m.stage = "human_approval"
    BY <2>1
  <2>3. LivesOn(l, m)
    BY <1>2, <2>2 DEF LivesOn, MovesOn, IsBriefedAgain, Following
  <2> QED
    BY <1>1, <2>3 DEF t, u, l, m
<1> QED
  BY <1>3, <1>4

LEMMA CopyLives ==
  ASSUME RunInv, [Next]_vars, NEW v \in Workers, call'[v].at = "running"
  PROVE  /\ call[v].at = "idle" => Birth(LifeOf(run'[v]))
         /\ call[v].at = "checked" => LivesOn(LifeOf(ckpt), LifeOf(run'[v]))
         /\ call[v].at = "running" => LivesOn(LifeOf(run[v]), LifeOf(run'[v]))
<1> DEFINE Goal ==
      /\ call[v].at = "idle" => Birth(LifeOf(run'[v]))
      /\ call[v].at = "checked" => LivesOn(LifeOf(ckpt), LifeOf(run'[v]))
      /\ call[v].at = "running" => LivesOn(LifeOf(run[v]), LifeOf(run'[v]))
<1>1. ASSUME call'[v] = call[v], run'[v] = run[v] PROVE Goal
  BY <1>1, SMT DEF LivesOn
<1>2. ASSUME NEW w \in Workers, NEW kind \in Kinds, Check(w, kind) PROVE Goal
  <2>1. w # v
    BY <1>2, CheckGoes, SMT
  <2> QED
    BY <1>1, <1>2, <2>1, CheckGoes
<1>3. ASSUME NEW w \in Workers, Create(w) PROVE Goal
  <2>1. CASE w = v
    <3>1. run'[v] = Fresh /\ call[v].at = "idle"
      BY <1>3, <2>1, CreateGoes
    <3>2. Birth(LifeOf(Fresh))
      BY DEF Birth, LifeOf, StageOf, Fresh
    <3> QED
      BY <3>1, <3>2, SMT
  <2>2. CASE w # v
    BY <1>1, <1>3, <2>2, CreateGoes
  <2> QED
    BY <2>1, <2>2
<1>4. ASSUME NEW w \in Workers, Invoke(w) PROVE Goal
  <2>1. CASE w = v
    BY <1>4, <2>1, InvokeLives, SMT
  <2>2. CASE w # v
    BY <1>1, <1>4, <2>2, InvokeLives
  <2> QED
    BY <2>1, <2>2
<1>5. ASSUME NEW w \in Workers,
             \/ Recall(w) \/ Investigate(w) \/ Pause(w) \/ Decide(w)
             \/ Report(w) \/ Save(w) \/ Respond(w)
      PROVE  Goal
  <2>1. CASE w = v
    BY <1>5, <2>1, StepLives, SMT
  <2>2. CASE w # v
    BY <1>1, <1>5, <2>2, StepLives
  <2> QED
    BY <2>1, <2>2
<1>6. ASSUME NEW w \in Workers, Commit(w) PROVE Goal
  <2>1. /\ run'[v] = run[v] /\ (w # v => call'[v] = call[v])
        /\ w = v => call[v].at = "running"
    BY <1>6, CommitGoes
  <2> QED
    BY <1>1, <2>1, SMT DEF LivesOn
<1>7. ASSUME NEW w \in Workers, Return(w) \/ BriefFails(w) PROVE Goal
  <2>1. w # v
    BY <1>7, EndGoes, Apart, SMT
  <2> QED
    BY <1>1, <1>7, <2>1, EndGoes
<1>8. ~Crash
  BY Apart, SMT DEF Crash
<1>9. CASE UNCHANGED vars
  BY <1>1, <1>9 DEF vars
<1> QED
  BY <1>2, <1>3, <1>4, <1>5, <1>6, <1>7, <1>8, <1>9 DEF Next, Serve

-----------------------------------------------------------------------------
(* The gate that serial calls keep to.                                     *)

LEMMA LifeOfCopy == \A w : Working = {w} => Life = run[w]
BY DEF Life

LEMMA LifeOfCheckpoint == Working = {} => Life = ckpt
BY DEF Life

\* Where the thread lives, before and after a step of w's call, the others being idle.
LEMMA LoneLife ==
  ASSUME NEW w \in Workers, \A v \in Workers \ {w} : call[v].at = "idle" /\ call'[v].at = "idle"
  PROVE  /\ Life = IF call[w].at = "running" THEN run[w] ELSE ckpt
         /\ Life' = IF call'[w].at = "running" THEN run'[w] ELSE ckpt'
<1>1. Working = IF call[w].at = "running" THEN {w} ELSE {}
  BY SMT DEF Working
<1>2. Working' = IF call'[w].at = "running" THEN {w} ELSE {}
  BY SMT DEF Working
<1> QED
  BY <1>1, <1>2 DEF Life

\* The gate is in the same state if the thread looks the same to it.
LEMMA SameGate ==
  ASSUME NEW t \in AnyThread, NEW u \in AnyThread, Alike(t, u),
         t.next = "human_approval" =>
           (t.interrupted \/ t.answer # "none") = (u.interrupted \/ u.answer # "none")
  PROVE  /\ PhaseOf(t) = PhaseOf(u) /\ VerdictOf(t) = VerdictOf(u)
         /\ \A s : EffectsOf(t, s) = EffectsOf(u, s)
BY Apart DEF Alike, PhaseOf, VerdictOf, EffectsOf

LEMMA FewEffects ==
  ASSUME NEW t \in AnyThread
  PROVE  /\ EffectsOf(t, 0) = IF t.report THEN {Nth("report", 1)} ELSE {}
         /\ EffectsOf(t, 1) = {Nth("memory", 1)} \cup EffectsOf(t, 0)
<1>1. 1..0 = {} /\ 1..1 = {1}
  BY SMT
<1>2. t # NoThread
  BY Apart
<1> QED
  BY <1>1, <1>2 DEF EffectsOf

\* Where a step leads the gate from one thread to the next.
LEMMA GateMoves ==
  ASSUME NEW t \in AnyThread, NEW u \in AnyThread, Life = t, Life' = u
  PROVE  /\ GatePhase = PhaseOf(t) /\ GatePhase' = PhaseOf(u)
         /\ GateVerdict = VerdictOf(t) /\ GateVerdict' = VerdictOf(u)
         /\ GateEffects = EffectsOf(t, saves) /\ GateEffects' = EffectsOf(u, saves')
BY DEF GatePhase, GateVerdict, GateEffects

\* Before the gate has been passed a thread may be put before the human or withdrawn.
LEMMA GateBefore ==
  ASSUME NEW t \in AnyThread, NEW u \in AnyThread, Life = t, Life' = u, saves' = saves,
         PhaseOf(t) \in {"investigating", "awaiting"}, PhaseOf(u) \in {"investigating", "awaiting"},
         t.report = u.report
  PROVE  Gate!Next \/ UNCHANGED Gate!vars
<1>1. VerdictOf(t) = "none" /\ VerdictOf(u) = "none"
  BY SMT DEF VerdictOf
<1>2. EffectsOf(u, saves') = EffectsOf(t, saves)
  BY Apart DEF EffectsOf
<1>3. CASE PhaseOf(t) = PhaseOf(u)
  BY <1>1, <1>2, <1>3, GateMoves DEF Gate!vars
<1>4. CASE PhaseOf(t) = "investigating" /\ PhaseOf(u) = "awaiting"
  <2>1. Gate!Submit
    BY <1>1, <1>2, <1>4, GateMoves DEF Gate!Submit
  <2> QED
    BY <2>1 DEF Gate!Next
<1>5. CASE PhaseOf(t) = "awaiting" /\ PhaseOf(u) = "investigating"
  <2>1. Gate!Reopen
    BY <1>1, <1>2, <1>5, GateMoves DEF Gate!Reopen
  <2> QED
    BY <2>1 DEF Gate!Next
<1> QED
  BY <1>3, <1>4, <1>5

\* A thread that is loaded or put down is the same to the gate, unless the decision that
\* comes with it puts it before the human, or the gate has to be tried again.
LEMMA GateAlike ==
  ASSUME NEW t \in AnyThread, NEW u \in AnyThread, Life = t, Life' = u, saves' = saves,
         Alike(t, u)
  PROVE  Gate!Next \/ UNCHANGED Gate!vars
<1>1. CASE t.next = "human_approval"
  <2>1. PhaseOf(t) \in {"investigating", "awaiting"} /\ PhaseOf(u) \in {"investigating", "awaiting"}
    BY <1>1, SMT DEF Alike, PhaseOf
  <2> QED
    BY <2>1, GateBefore DEF Alike
<1>2. CASE t.next # "human_approval"
  BY <1>2, SameGate, GateMoves DEF Gate!vars
<1> QED
  BY <1>1, <1>2

\* A super-step of the only call.
LEMMA GateSuperStep ==
  ASSUME RunInv, PlacesInv, Serial, crashes = 0, NEW w \in Workers,
         \/ Recall(w) \/ Investigate(w) \/ Pause(w) \/ Decide(w)
         \/ Report(w) \/ Save(w) \/ Respond(w)
  PROVE  Gate!Next \/ UNCHANGED Gate!vars
<1> DEFINE t == run[w]
           u == run'[w]
<1>1. /\ Goes(w, u) /\ t \in AnyThread /\ u \in AnyThread /\ ~t.interrupted /\ u.answer = "none"
      /\ Settled(t, saves, 0) /\ Placed(t, saves) /\ saves \in Nat
  <2>1. Goes(w, u)
    BY RecallGoes, InvestigateGoes, PauseGoes, DecideGoes, ReportGoes, SaveGoes, RespondGoes
  <2> QED
    BY <2>1 DEF Goes, Serial, PlacesInv, RunInv, Shape
<1>2. Life = t /\ Life' = u
  <2>1. \A v \in Workers \ {w} : call[v].at = "idle" /\ call'[v].at = "idle"
    BY <1>1 DEF Goes, Serial
  <2> QED
    BY <1>1, <2>1, LoneLife DEF Goes
<1> HIDE DEF t, u
<1>3. CASE Recall(w) \/ Investigate(w) \/ Pause(w)
  <2>1. /\ t.next \in {"recall_memory", "investigation", "human_approval"}
        /\ u.next \in {"investigation", "human_approval"} /\ u.report = t.report /\ saves' = saves
    BY <1>3, RecallGoes, InvestigateGoes, PauseGoes DEF t, u, Recall, Investigate, Pause, effects
  <2>2. PhaseOf(t) \in {"investigating", "awaiting"} /\ PhaseOf(u) \in {"investigating", "awaiting"}
    BY <2>1, SMT DEF PhaseOf
  <2> QED
    BY <1>1, <1>2, <2>1, <2>2, GateBefore
<1>4. CASE Decide(w)
  <2>1. /\ t.next = "human_approval" /\ t.answer \in Decisions /\ u.report = t.report
        /\ u.next = AfterGate(t.answer) /\ saves' = saves /\ u.interrupted = t.interrupted
    BY <1>4, DecideGoes DEF t, u, Decide, effects
  <2>2. PhaseOf(t) = "awaiting" /\ VerdictOf(t) = "none"
    <3>1. t.answer # "none"
      BY <2>1, SMT DEF Decisions
    <3>2. PhaseOf(t) = "awaiting"
      BY <2>1, <3>1, SMT DEF PhaseOf
    <3> QED
      BY <3>2, SMT DEF VerdictOf
  <2>3. u.next \in {"report_generator", "final_response", "investigation"}
    BY <2>1, GateTells
  <2>4. EffectsOf(u, saves') = EffectsOf(t, saves)
    BY <1>1, <2>1, Apart DEF EffectsOf
  <2>5. CASE u.next = "investigation"
    <3>1. PhaseOf(u) \in {"investigating", "awaiting"}
      BY <2>5, SMT DEF PhaseOf
    <3> QED
      BY <1>1, <1>2, <2>1, <2>2, <3>1, GateBefore
  <2>6. CASE u.next \in {"report_generator", "final_response"}
    <3>1. PhaseOf(u) = "finishing" /\ VerdictOf(u) \in {"accepted", "refused"}
      <4>1. PhaseOf(u) = "finishing"
        BY <2>6, SMT DEF PhaseOf
      <4> QED
        BY <4>1, SMT DEF VerdictOf
    <3>2. Gate!Accept \/ Gate!Refuse
      BY <1>1, <1>2, <2>2, <2>4, <3>1, GateMoves DEF Gate!Accept, Gate!Refuse
    <3> QED
      BY <3>2 DEF Gate!Next
  <2> QED
    BY <2>3, <2>5, <2>6
<1>5. CASE Report(w) \/ Save(w)
  <2>1. /\ t.next \in {"report_generator", "save_memory"} /\ u.status = t.status
        /\ u.next \in {"save_memory", "final_response"}
    BY <1>5, ReportGoes, SaveGoes DEF t, u, Same
  <2>2. saves = 0 /\ t.status \in {"approved", "modified"}
    BY <1>1, <2>1, SMT DEF Settled, Placed, BeforeReport
  <2>3. /\ PhaseOf(t) = "finishing" /\ PhaseOf(u) = "finishing"
        /\ VerdictOf(t) = "accepted" /\ VerdictOf(u) = "accepted"
    <3>1. PhaseOf(t) = "finishing" /\ PhaseOf(u) = "finishing"
      BY <2>1, SMT DEF PhaseOf
    <3> QED
      BY <2>1, <2>2, <3>1, SMT DEF VerdictOf
  <2>4. /\ EffectsOf(t, saves) \subseteq EffectsOf(u, saves')
        /\ EffectsOf(u, saves') \subseteq {Nth("memory", 1), Nth("report", 1)}
    <3>1. CASE Report(w)
      <4>1. saves' = 0 /\ (t.report => u.report)
        BY <2>2, <3>1, ReportGoes DEF t, u, Report, effects
      <4> QED
        BY <1>1, <2>2, <4>1, FewEffects
    <3>2. CASE Save(w)
      <4>1. saves' = 1 /\ u.report = t.report
        BY <2>2, <3>2, SaveGoes, SMT DEF t, u, Save
      <4>2. EffectsOf(u, 0) = EffectsOf(t, 0)
        BY <1>1, <4>1, FewEffects
      <4> QED
        BY <1>1, <2>2, <4>1, <4>2, FewEffects
    <3> QED
      BY <1>5, <3>1, <3>2
  <2>5. Gate!Publish
    BY <1>1, <1>2, <2>3, <2>4, GateMoves DEF Gate!Publish
  <2> QED
    BY <2>5 DEF Gate!Next
<1>6. CASE Respond(w)
  <2>1. /\ t.next = "final_response" /\ u.next = "END" /\ u.status = t.status
        /\ u.report = t.report /\ saves' = saves
    BY <1>6, RespondGoes DEF t, u, Same, Respond, effects
  <2>2. PhaseOf(t) = "finishing" /\ PhaseOf(u) = "closed" /\ VerdictOf(t) = VerdictOf(u)
    <3>1. PhaseOf(t) = "finishing" /\ PhaseOf(u) = "closed"
      BY <2>1, SMT DEF PhaseOf
    <3> QED
      BY <2>1, <3>1, SMT DEF VerdictOf
  <2>3. /\ EffectsOf(u, saves') = EffectsOf(t, saves)
        /\ EffectsOf(u, saves') \subseteq {Nth("memory", 1), Nth("report", 1)}
    <3>1. saves = 0 \/ saves = 1
      BY <1>1, SMT DEF Settled
    <3> QED
      BY <1>1, <2>1, <3>1, FewEffects
  <2>4. Gate!Close
    BY <1>1, <1>2, <2>2, <2>3, GateMoves DEF Gate!Close
  <2> QED
    BY <2>4 DEF Gate!Next
<1> QED
  BY <1>3, <1>4, <1>5, <1>6

\* The other steps of the only call, and its beginning.
LEMMA GateOtherStep ==
  ASSUME RunInv, SerialInv, Serial, NEW w \in Workers,
         \/ Invoke(w) \/ Commit(w) \/ Return(w) \/ BriefFails(w) \/ Create(w)
         \/ ~overlapped' /\ \E kind \in Kinds : Check(w, kind)
  PROVE  Gate!Next \/ UNCHANGED Gate!vars
<1>1. CASE Invoke(w)
  <2>1. /\ call[w].at = "checked" /\ ckpt \in AnyThread /\ call'[w].at = "running"
        /\ \A v \in Workers \ {w} : call'[v] = call[v]
        /\ run'[w] \in AnyThread /\ Alike(ckpt, run'[w])
    BY <1>1, InvokeGoes DEF Alike
  <2>2. \A v \in Workers \ {w} : call[v].at = "idle" /\ call'[v].at = "idle"
    BY <2>1 DEF Serial
  <2>3. Life = ckpt /\ Life' = run'[w] /\ saves' = saves
    BY <1>1, <2>1, <2>2, LoneLife DEF Invoke, effects
  <2> QED
    BY <2>1, <2>3, GateAlike
<1>2. CASE Commit(w)
  <2>1. /\ call[w].at = "running" /\ run' = run /\ call'[w].at = "running"
        /\ \A v \in Workers \ {w} : call'[v] = call[v]
    BY <1>2, CommitGoes
  <2>2. \A v \in Workers \ {w} : call[v].at = "idle" /\ call'[v].at = "idle"
    BY <2>1 DEF Serial
  <2>3. Life' = Life /\ saves' = saves
    BY <1>2, <2>1, <2>2, LoneLife DEF Commit, effects
  <2> QED
    BY <2>3 DEF Gate!vars, GatePhase, GateVerdict, GateEffects
<1>3. CASE Return(w) \/ BriefFails(w)
  <2>1. /\ call[w].at = "running" /\ ~call[w].dirty /\ ckpt' = ckpt /\ call'[w] = Idle
        /\ \A v \in Workers \ {w} : call'[v] = call[v]
    BY <1>3, EndGoes
  <2>2. /\ ckpt \in AnyThread /\ run[w] \in AnyThread /\ Alike(run[w], ckpt)
        /\ \A v \in Workers \ {w} : call[v].at = "idle" /\ call'[v].at = "idle"
    BY <2>1, Running DEF Serial
  <2>3. Life = run[w] /\ Life' = ckpt /\ saves' = saves
    <3>1. call'[w].at # "running"
      BY <2>1, Apart, SMT
    <3> QED
      BY <1>3, <2>1, <2>2, <3>1, LoneLife DEF Return, BriefFails, effects
  <2> QED
    BY <2>2, <2>3, GateAlike
<1>4. CASE Create(w)
  <2>1. /\ \A v \in Workers : call[v].at = "idle"
        /\ call'[w].at = "running" /\ run'[w] = Fresh
        /\ \A v \in Workers \ {w} : call'[v] = call[v]
    BY <1>4, CreateGoes
  <2>2. ckpt = NoThread /\ saves' = saves
    BY <1>4 DEF Create, effects, SerialInv
  <2>3. Life = NoThread /\ Life' = Fresh
    <3>1. call[w].at # "running"
      BY <2>1, SMT
    <3> QED
      BY <2>1, <2>2, <3>1, LoneLife
  <2>4. /\ PhaseOf(NoThread) = "investigating" /\ PhaseOf(Fresh) = "investigating"
        /\ ~Fresh.report
    BY SMT DEF PhaseOf, NoThread, Fresh
  <2>5. VerdictOf(NoThread) = VerdictOf(Fresh) /\ EffectsOf(NoThread, saves) = EffectsOf(Fresh, saves)
    BY <2>4, SMT DEF VerdictOf, EffectsOf
  <2> QED
    BY <2>2, <2>3, <2>4, <2>5 DEF Gate!vars, GatePhase, GateVerdict, GateEffects
<1>5. ASSUME ~overlapped', NEW kind \in Kinds, Check(w, kind)
      PROVE  Gate!Next \/ UNCHANGED Gate!vars
  <2>1. /\ call'[w].at = "checked" /\ ckpt' = ckpt /\ call[w].at = "idle"
        /\ \A v \in Workers \ {w} : call'[v] = call[v]
    BY <1>5, CheckGoes
  <2>2. saves' = saves /\ \A v \in Workers : call[v].at = "idle"
    BY <1>5 DEF Check, Busy, effects
  <2>3. Life = ckpt /\ Life' = ckpt
    BY <2>1, <2>2, LoneLife, SMT
  <2> QED
    BY <2>1, <2>2, <2>3 DEF Gate!vars, GatePhase, GateVerdict, GateEffects
<1> QED
  BY <1>1, <1>2, <1>3, <1>4, <1>5

LEMMA GateStep ==
  ASSUME RunInv, SerialInv, PlacesInv, [Next]_vars, ~overlapped', crashes' = 0
  PROVE  Gate!Next \/ UNCHANGED Gate!vars
<1>1. CASE UNCHANGED vars
  BY <1>1 DEF vars, effects, Gate!vars, GatePhase, GateVerdict, GateEffects, Life, Working
<1>2. ASSUME NEW w \in Workers, Create(w) \/ Serve(w) \/ (\E kind \in Kinds : Check(w, kind))
      PROVE  Gate!Next \/ UNCHANGED Gate!vars
  <2>1. ~overlapped /\ crashes = 0
    <3>1. Serve(w) \/ Create(w) => overlapped' = overlapped /\ crashes' = crashes
      BY DEF Create, Serve, Invoke, Recall, Investigate, Pause, Decide, Report, Save, Respond,
             BriefFails, Commit, Return, Step, observed
    <3>2. ASSUME NEW kind \in Kinds, Check(w, kind) PROVE ~overlapped /\ crashes = 0
      BY <3>2 DEF Check
    <3> QED
      BY <1>2, <3>1, <3>2
  <2>2. Serial
    BY <2>1 DEF SerialInv
  <2> QED
    BY <1>2, <2>1, <2>2, GateSuperStep, GateOtherStep DEF Serve
<1>3. ~Crash
  BY SMT DEF Crash, RunInv, Shape
<1> QED
  BY <1>1, <1>2, <1>3 DEF Next

LEMMA InitGate == Init => Gate!Init
<1> SUFFICES ASSUME Init PROVE Gate!Init
  OBVIOUS
<1>1. ckpt = NoThread /\ saves = 0 /\ \A w \in Workers : call[w].at = "idle"
  BY Apart DEF Init
<1>2. Life = NoThread
  <2>1. Working = {}
    BY <1>1, SMT DEF Working
  <2> QED
    BY <1>1, <2>1 DEF Life
<1>3. PhaseOf(NoThread) = "investigating" /\ 1..0 = {}
  BY SMT DEF PhaseOf, NoThread
<1> QED
  BY <1>1, <1>2, <1>3 DEF Gate!Init, GatePhase, GateVerdict, GateEffects, VerdictOf, EffectsOf

-----------------------------------------------------------------------------
(* The steps a call takes.                                                 *)

LEMMA AheadOf ==
  ASSUME NEW t \in AnyThread
  PROVE  /\ StepsAhead(t) \in 0..4
         /\ t.interrupted => StepsAhead(t) = 0
         /\ ~t.interrupted =>
              /\ t.next = "recall_memory" => StepsAhead(t) = 3
              /\ t.next = "investigation" => StepsAhead(t) = 2
              /\ t.next = "human_approval" => StepsAhead(t) = IF t.answer = "none" THEN 1 ELSE 4
              /\ t.next = "report_generator" => StepsAhead(t) = 3
              /\ t.next = "save_memory" => StepsAhead(t) = 2
              /\ t.next = "final_response" => StepsAhead(t) = 1
              /\ t.next = "END" => StepsAhead(t) = 0
<1>1. t.next \in Nodes
  BY SMT DEF AnyThread
<1> QED
  BY <1>1, SMT DEF StepsAhead, Nodes

LEMMA StepsOf ==
  ASSUME NEW k \in {Idle} \cup Accepted, NEW t, k.at = "running" => t \in AnyThread
  PROVE  /\ StepsIn(k, t) \in 0..10
         /\ k.at = "checked" => StepsIn(k, t) = 10
         /\ k.at = "running" => StepsIn(k, t) = 2 * StepsAhead(t) + IF k.dirty THEN 2 ELSE 1
         /\ k.at = "idle" => StepsIn(k, t) = 0
<1>1. k.at \in {"idle", "checked", "running"}
  BY Apart, SMT
<1>2. k.at = "running" => StepsAhead(t) \in 0..4
  BY AheadOf
<1> QED
  BY <1>1, <1>2, SMT DEF StepsIn

LEMMA LeftOf ==
  ASSUME RunInv, NEW w \in Workers
  PROVE  /\ StepsLeft(w) \in 0..10
         /\ call[w].at = "checked" => StepsLeft(w) = 10
         /\ call[w].at = "running" =>
              StepsLeft(w) = 2 * StepsAhead(run[w]) + IF call[w].dirty THEN 2 ELSE 1
         /\ call[w].at = "idle" => StepsLeft(w) = 0
<1>1. call[w] \in {Idle} \cup Accepted /\ (call[w].at = "running" => run[w] \in AnyThread)
  BY Running DEF RunInv, Shape
<1> QED
  BY <1>1, StepsOf DEF StepsLeft

LEMMA LeftAfter == \A w : StepsLeft(w)' = StepsIn(call'[w], run'[w])
BY DEF StepsLeft, StepsIn, StepsAhead

\* A super-step leaves one fewer, and its commit to be made.
LEMMA SuperStepLess ==
  ASSUME RunInv, NEW w \in Workers,
         \/ Recall(w) \/ Investigate(w) \/ Pause(w) \/ Decide(w)
         \/ Report(w) \/ Save(w) \/ Respond(w)
  PROVE  StepsLeft(w)' < StepsLeft(w)
<1> DEFINE t == run[w]
           u == run'[w]
<1>1. RunInv'
  BY RecallKeeps, InvestigateKeeps, PauseKeeps, DecideKeeps, ReportKeeps, SaveKeeps, RespondKeeps
<1>2. Goes(w, u)
  BY RecallGoes, InvestigateGoes, PauseGoes, DecideGoes, ReportGoes, SaveGoes, RespondGoes
<1>3. /\ t \in AnyThread /\ u \in AnyThread /\ ~t.interrupted /\ u.answer = "none"
      /\ call[w].at = "running" /\ call'[w].at = "running"
  BY <1>2 DEF Goes
<1>4. StepsAhead(t) \in 0..4 /\ StepsAhead(u) \in 0..4
  BY <1>3, AheadOf
<1>5. StepsAhead(u) < StepsAhead(t)
  <2>1. CASE Recall(w)
    <3>1. t.next = "recall_memory" /\ u.next = "investigation"
      BY <2>1, RecallGoes
    <3>2. StepsAhead(t) = 3 /\ StepsAhead(u) \in {0, 2}
      BY <1>3, <3>1, AheadOf
    <3> QED
      BY <3>2, SMT
  <2>2. CASE Investigate(w)
    <3>1. t.next = "investigation" /\ u.next = "human_approval"
      BY <2>2, InvestigateGoes
    <3>2. StepsAhead(t) = 2 /\ StepsAhead(u) \in {0, 1}
      BY <1>3, <3>1, AheadOf
    <3> QED
      BY <3>2, SMT
  <2>3. CASE Pause(w)
    <3>1. t.next = "human_approval" /\ t.answer = "none" /\ u.interrupted
      BY <2>3, PauseGoes
    <3>2. StepsAhead(t) = 1 /\ StepsAhead(u) = 0
      BY <1>3, <3>1, AheadOf
    <3> QED
      BY <3>2, SMT
  <2>4. CASE Decide(w)
    <3>1. t.next = "human_approval" /\ t.answer \in Decisions /\ u.next = AfterGate(t.answer)
      BY <2>4, DecideGoes
    <3>2. t.answer # "none"
      BY <3>1 DEF Decisions
    <3>3. u.next \in {"report_generator", "final_response", "investigation"}
      BY <3>1, GateTells
    <3>4. StepsAhead(t) = 4 /\ StepsAhead(u) \in {0, 1, 2, 3}
      BY <1>3, <3>1, <3>2, <3>3, AheadOf
    <3> QED
      BY <3>4, SMT
  <2>5. CASE Report(w)
    <3>1. t.next = "report_generator" /\ u.next = "save_memory"
      BY <2>5, ReportGoes
    <3>2. StepsAhead(t) = 3 /\ StepsAhead(u) \in {0, 2}
      BY <1>3, <3>1, AheadOf
    <3> QED
      BY <3>2, SMT
  <2>6. CASE Save(w)
    <3>1. t.next = "save_memory" /\ u.next = "final_response"
      BY <2>6, SaveGoes
    <3>2. StepsAhead(t) = 2 /\ StepsAhead(u) \in {0, 1}
      BY <1>3, <3>1, AheadOf
    <3> QED
      BY <3>2, SMT
  <2>7. CASE Respond(w)
    <3>1. t.next = "final_response" /\ u.next = "END"
      BY <2>7, RespondGoes
    <3>2. StepsAhead(t) = 1 /\ StepsAhead(u) = 0
      BY <1>3, <3>1, AheadOf
    <3> QED
      BY <3>2, SMT
  <2> QED
    BY <2>1, <2>2, <2>3, <2>4, <2>5, <2>6, <2>7
<1>6. StepsLeft(w) = 2 * StepsAhead(t) + IF call[w].dirty THEN 2 ELSE 1
  BY <1>3, LeftOf
<1>7. StepsLeft(w)' = 2 * StepsAhead(u) + IF call'[w].dirty THEN 2 ELSE 1
  <2>1. call'[w] \in {Idle} \cup Accepted
    BY <1>2 DEF Goes
  <2> QED
    BY <1>3, <2>1, LeftAfter, StepsOf
<1> HIDE DEF t, u
<1> QED
  BY <1>4, <1>5, <1>6, <1>7, SMT

LEMMA ServeLess ==
  ASSUME RunInv, SerialInv, NEW w \in Workers, Serve(w)
  PROVE  StepsLeft(w)' < StepsLeft(w)
<1>1. CASE Invoke(w)
  <2>1. /\ call[w].at = "checked" /\ call'[w].at = "running" /\ ~call'[w].dirty
        /\ run'[w] \in AnyThread /\ call'[w] \in {Idle} \cup Accepted
    BY <1>1, InvokeGoes DEF SerialInv
  <2>2. StepsLeft(w) = 10 /\ StepsAhead(run'[w]) \in 0..4
    BY <2>1, LeftOf, AheadOf
  <2>3. StepsLeft(w)' = 2 * StepsAhead(run'[w]) + 1
    BY <2>1, LeftAfter, StepsOf
  <2> QED
    BY <2>2, <2>3, SMT
<1>2. CASE Commit(w)
  <2>1. /\ call[w].at = "running" /\ call[w].dirty /\ run[w] \in AnyThread /\ run' = run
        /\ call'[w].at = "running" /\ ~call'[w].dirty /\ call'[w] \in {Idle} \cup Accepted
    BY <1>2, CommitGoes
  <2>2. StepsLeft(w) = 2 * StepsAhead(run[w]) + 2 /\ StepsAhead(run[w]) \in 0..4
    BY <2>1, LeftOf, AheadOf
  <2>3. StepsLeft(w)' = 2 * StepsAhead(run[w]) + 1
    BY <2>1, LeftAfter, StepsOf
  <2> QED
    BY <2>2, <2>3, SMT
<1>3. CASE Return(w) \/ BriefFails(w)
  <2>1. call[w].at = "running" /\ ~call[w].dirty /\ call'[w] = Idle /\ call'[w].at = "idle"
    BY <1>3, EndGoes, Apart
  <2>2. StepsLeft(w) = 2 * StepsAhead(run[w]) + 1 /\ StepsAhead(run[w]) \in 0..4
    BY <2>1, LeftOf, AheadOf, Running
  <2>3. StepsLeft(w)' = 0
    BY <2>1, LeftAfter, StepsOf
  <2> QED
    BY <2>2, <2>3, SMT
<1> QED
  BY <1>1, <1>2, <1>3, SuperStepLess DEF Serve

\* Nothing that others do leaves a call more.
LEMMA NoStepMore ==
  ASSUME RunInv, SerialInv, [Next]_vars, NEW w \in Workers, Busy(w)
  PROVE  StepsLeft(w)' <= StepsLeft(w)
<1>1. StepsLeft(w) \in Nat
  BY LeftOf, SMT
<1>2. ASSUME call'[w] = call[w], run'[w] = run[w] PROVE StepsLeft(w)' <= StepsLeft(w)
  <2>1. StepsLeft(w)' = StepsLeft(w)
    BY <1>2, LeftAfter DEF StepsLeft
  <2> QED
    BY <1>1, <2>1, SMT
<1>3. CASE UNCHANGED vars
  BY <1>2, <1>3 DEF vars
<1>4. ASSUME NEW v \in Workers, Create(v) PROVE FALSE
  BY <1>4, CreateGoes DEF Busy
<1>5. ASSUME NEW v \in Workers, NEW kind \in Kinds, Check(v, kind)
      PROVE  StepsLeft(w)' <= StepsLeft(w)
  BY <1>2, <1>5, CheckGoes DEF Busy
<1>6. ASSUME NEW v \in Workers, Serve(v) PROVE StepsLeft(w)' <= StepsLeft(w)
  <2>1. CASE v = w
    <3>1. StepsLeft(w)' < StepsLeft(w)
      BY <1>6, <2>1, ServeLess
    <3>2. StepsLeft(w)' \in Nat
      <4>1. RunInv'
        BY <1>6, NextKeeps DEF Next
      <4>2. call'[w] \in {Idle} \cup Accepted /\ (call'[w].at = "running" => run'[w] \in AnyThread)
        BY <4>1 DEF RunInv, Shape, Calls, Serving
      <4>3. StepsLeft(w)' \in 0..10
        BY <4>2, LeftAfter, StepsOf
      <4> QED
        BY <4>3, SMT
    <3> QED
      BY <1>1, <3>1, <3>2, SMT
  <2>2. CASE v # w
    <3>1. call'[w] = call[w] /\ run'[w] = run[w]
      BY <1>6, <2>2, InvokeGoes, RecallGoes, InvestigateGoes, PauseGoes, DecideGoes, ReportGoes,
         SaveGoes, RespondGoes, CommitGoes, EndGoes DEF Serve, Goes
    <3> QED
      BY <1>2, <3>1
  <2> QED
    BY <2>1, <2>2
<1>7. CASE Crash
  <2>1. call'[w] = Idle /\ call'[w].at = "idle"
    BY <1>7, Apart DEF Crash
  <2>2. StepsLeft(w)' = 0
    BY <2>1, LeftAfter, StepsOf
  <2> QED
    BY <1>1, <2>2, SMT
<1> QED
  BY <1>3, <1>4, <1>5, <1>6, <1>7 DEF Next

-----------------------------------------------------------------------------
(* What follows of it.                                                     *)

\* Each investigation is due to a call of its own, so the drafts never outnumber them.
LEMMA DraftsAreDue == RunInv => drafts <= calls
<1> SUFFICES ASSUME RunInv PROVE drafts <= calls
  OBVIOUS
<1>1. Cardinality(Drafting) \in Nat
  BY DraftingIsFinite, FS_CardinalityType
<1> QED
  BY <1>1, SMT DEF RunInv, Shape, Counted

\* Threads, calls and counters keep their types, for any number of workers, calls and
\* crashes: replays and overlapping runs add no draft to those the calls asked for.
THEOREM TypeCorrect == Spec => []TypeOK
<1>1. RunInv => TypeOK
  <2> SUFFICES ASSUME RunInv PROVE TypeOK
    OBVIOUS
  <2>1. drafts \in 0..calls /\ drafts <= MaxCalls
    BY DraftsAreDue, BoundsAssumption, SMT DEF RunInv, Shape
  <2>2. ASSUME NEW t \in Copies, Accounted(t, drafts, approvals)
        PROVE  t \in ThreadStates \cup {NoThread}
    <3>1. CASE t = NoThread
      BY <3>1
    <3>2. CASE t \in AnyThread
      <4>1. t.draft <= drafts
        BY <2>2, <3>2 DEF Accounted
      <4>2. t.draft \in 0..MaxCalls
        <5>1. t.draft \in Nat /\ drafts \in Nat /\ MaxCalls \in Nat
          BY <3>2, BoundsAssumption, SMT DEF AnyThread, RunInv, Shape
        <5> QED
          BY <2>1, <4>1, <5>1, SMT
      <4> QED
        BY <3>2, <4>2 DEF AnyThread, ThreadStates, Statuses
    <3> QED
      BY <3>1, <3>2 DEF Copies
  <2>3. ckpt \in ThreadStates \cup {NoThread}
    BY <2>2 DEF RunInv, Shape
  <2>4. run \in [Workers -> ThreadStates \cup {NoThread}]
    <3>1. \A w \in Workers : run[w] \in ThreadStates \cup {NoThread}
      BY <2>2 DEF RunInv, Shape
    <3>2. run = [w \in Workers |-> run[w]]
      BY DEF RunInv, Shape
    <3> QED
      BY <3>1, <3>2
  <2>5. call \in [Workers -> CallStates]
    BY DEF RunInv, Shape, CallStates, Accepted
  <2> QED
    BY <2>1, <2>3, <2>4, <2>5 DEF RunInv, Shape, TypeOK
<1> QED
  BY <1>1, RunInvAlways, PTL

\* However calls interleave and crashes fall, memory is written, and a report made, only
\* for a thread that somebody approved (human_approval_node's Command).
THEOREM ApprovalComesFirst == Spec => []NoSaveWithoutApproval
<1>1. RunInv => NoSaveWithoutApproval
  <2> SUFFICES ASSUME RunInv, ~(approvals > 0)
               PROVE  ~(saves > 0) /\ \A w \in Workers : run[w] # NoThread => ~run[w].report
    BY DEF NoSaveWithoutApproval
  <2>1. approvals = 0
    BY SMT DEF RunInv, Shape
  <2>2. saves = 0 /\ \A w \in Workers : run[w] # NoThread => ~run[w].report
    BY <2>1 DEF RunInv, Shape, Copies, Accounted
  <2> QED
    BY <2>2, SMT
<1> QED
  BY <1>1, RunInvAlways, PTL

\* A client that waits for each answer may retry or repeat any call: save_memory is executed
\* once, and once more for each death of the process at most; for a thread that ends
\* rejected only the deaths count (IncidentController, invoke(), the asynchronous commit).
THEOREM SerialCalls == Spec => []SerialCallsAreSafe
<1>1. RunInv /\ SerialInv => SerialCallsAreSafe
  <2> SUFFICES ASSUME RunInv, SerialInv, ~overlapped
               PROVE  saves <= crashes + 1 /\ (Rejected => saves <= crashes)
    BY DEF SerialCallsAreSafe
  <2>1. Serial /\ ckpt \in Copies
    BY DEF SerialInv, RunInv, Shape
  <2>2. Rejected => ckpt \in AnyThread /\ ckpt.next = "END" /\ ckpt.status = "rejected"
    BY <2>1 DEF Rejected, Copies
  <2>3. CASE \A w \in Workers : call[w].at # "running"
    <3>1. saves <= crashes + 1 /\ (Rejected => Settled(ckpt, saves, crashes))
      BY <2>1, <2>2, <2>3 DEF Serial
    <3> QED
      BY <2>2, <3>1, SMT DEF Settled
  <2>4. ASSUME NEW w \in Workers, call[w].at = "running"
        PROVE  saves <= crashes + 1 /\ (Rejected => saves <= crashes)
    <3>1. Settled(run[w], saves, crashes)
      BY <2>1, <2>4 DEF Serial
    <3>2. Rejected => Alike(run[w], ckpt)
      BY <2>1, <2>2, <2>4 DEF Serial
    <3>3. Rejected => Settled(ckpt, saves, crashes)
      BY <3>1, <3>2, AlikeSettled
    <3> QED
      BY <2>2, <3>1, <3>3, SMT DEF Settled
  <2> QED
    BY <2>3, <2>4
<1> QED
  BY <1>1, SerialInvAlways, PTL

\* However calls overlap and wherever the process dies, a thread that ends rejected has no
\* report, and one that ends accepted has been through save_memory (Command of
\* human_approval_node, the edges of create_graph()).
THEOREM ThreadsEndAsDecided == Spec => []EndsAsDecided
<1>1. RunInv /\ PlacesInv => EndsAsDecided
  <2> SUFFICES ASSUME RunInv, PlacesInv, ckpt # NoThread, ckpt.next = "END"
               PROVE  IF Rejected THEN ~ckpt.report ELSE saves > 0
    BY DEF EndsAsDecided
  <2>1. Placed(ckpt, saves)
    BY DEF PlacesInv, RunInv, Shape, Copies
  <2>2. Rejected <=> ckpt.status = "rejected"
    BY DEF Rejected
  <2> QED
    BY <2>1, <2>2, SMT DEF Placed
<1> QED
  BY <1>1, RunInvAlways, PlacesInvAlways, PTL

\* Every copy of a thread leads the life that the graph's run leads, by itself, from the
\* checkpoint it was loaded from (invoke()): what calls that overlap spoil is the order of
\* the checkpoints, never a run.
THEOREM CopiesLive == Spec => CopiesLeadTheLife
<1> DEFINE Lead ==
      \A w \in Workers : call'[w].at = "running" =>
        CASE call[w].at = "idle"    -> Birth(LifeOf(run'[w]))
          [] call[w].at = "checked" -> LivesOn(LifeOf(ckpt), LifeOf(run'[w]))
          [] call[w].at = "running" -> LivesOn(LifeOf(run[w]), LifeOf(run'[w]))
<1>1. RunInv /\ [Next]_vars => [Lead]_vars
  <2> SUFFICES ASSUME RunInv, [Next]_vars, NEW w \in Workers, call'[w].at = "running"
               PROVE  CASE call[w].at = "idle"    -> Birth(LifeOf(run'[w]))
                        [] call[w].at = "checked" -> LivesOn(LifeOf(ckpt), LifeOf(run'[w]))
                        [] call[w].at = "running" -> LivesOn(LifeOf(run[w]), LifeOf(run'[w]))
    OBVIOUS
  <2>1. call[w].at \in {"idle", "checked", "running"}
    <3>1. call[w] \in {Idle} \cup Accepted
      BY DEF RunInv, Shape
    <3> QED
      BY <3>1, Apart
  <2> QED
    BY <2>1, CopyLives
<1> QED
  BY <1>1, RunInvAlways, PTL DEF Spec, CopiesLeadTheLife

\* Calls that follow one another while the process lives make the thread an approval
\* gate, for any number of them and in any order, though each drives a copy of its own
\* and leaves it, finished or not, for the next one (IncidentController, invoke()).
THEOREM SerialCallsRefine == Spec => SerialCallsKeepToTheGate
<1>1. RunInv /\ SerialInv /\ PlacesInv /\ [Next]_vars =>
        [~overlapped' /\ crashes' = 0 => Gate!Next \/ UNCHANGED Gate!vars]_vars
  BY GateStep
<1> QED
  BY <1>1, InitGate, SerialInvAlways, PlacesInvAlways, PTL DEF Spec, SerialCallsKeepToTheGate

\* Every call takes ten steps at most, whatever the others do meanwhile: none of them can
\* keep it from its answer, and it cannot go round for ever (the edges of create_graph(),
\* invoke()).  The fairness under which CallsAreAnswered holds only has to let it step.
THEOREM CallsEnd == Spec => CallsAreShort
<1>1. RunInv /\ SerialInv => \A w \in Workers : StepsLeft(w) \in 0..10
  BY LeftOf
<1>2. RunInv /\ SerialInv /\ [Next]_vars =>
        [\A w \in Workers : /\ Serve(w) => StepsLeft(w)' < StepsLeft(w)
                            /\ Busy(w) => StepsLeft(w)' <= StepsLeft(w)]_vars
  BY ServeLess, NoStepMore
<1> QED
  BY <1>1, <1>2, SerialInvAlways, PTL DEF Spec, CallsAreShort

=============================================================================
