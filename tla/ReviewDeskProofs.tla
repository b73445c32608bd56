--------------------------- MODULE ReviewDeskProofs ---------------------------
(***************************************************************************)
(* Proofs about ReviewDesk, for any numbers of clients, workers, calls,    *)
(* crashes and lost answers.  The clients only ever do to a thread what    *)
(* ThreadRuns allows, so its theorems hold of the thread at the desk.  And *)
(* a decision that is taken on a fresh screen and stays alone is carried   *)
(* out on the draft that was shown: the invariant follows it from the      *)
(* screen through the call and the checkpoint to the gate, and from there  *)
(* along the way it leads.                                                 *)
(***************************************************************************)
EXTENDS ReviewDesk, ThreadRunsProofs

-----------------------------------------------------------------------------
(* The clients and the thread.                                             *)

LEMMA DeskStepIsRunStep == [DeskNext]_allVars => [Next]_vars
<1> SUFFICES ASSUME [DeskNext]_allVars PROVE [Next]_vars
  OBVIOUS
<1>1. ASSUME NEW c \in Clients, NEW w \in Workers, StartInvestigation(c, w) PROVE Next
  BY <1>1 DEF StartInvestigation, Next
<1>2. ASSUME NEW c \in Clients, NEW w \in Workers, NEW kind \in Kinds \ {"create"},
             Press(c, w, kind)
      PROVE  Next
  BY <1>2 DEF Press, Next
<1>3. ASSUME NEW w \in Workers, Work(w) \/ Served(w) \/ Error(w) PROVE Next
  <2>1. Serve(w)
    BY <1>3 DEF Work, Served, Error, Serve
  <2> QED
    BY <2>1 DEF Next
<1>4. ASSUME NEW c \in Clients, Answer(c) \/ Look(c) \/ Lose(c) PROVE UNCHANGED vars
  BY <1>4 DEF Answer, Look, Lose, Show
<1>5. CASE Restart
  BY <1>5 DEF Restart, Next
<1>6. CASE UNCHANGED allVars
  BY <1>6 DEF allVars
<1> QED
  BY <1>1, <1>2, <1>3, <1>4, <1>5, <1>6 DEF DeskNext

\* Whatever the clients press, look at and lose, the thread lives one of the lives that
\* ThreadRuns describes.
THEOREM DeskKeepsToRuns == DeskSpec => Spec
<1>1. DeskInit => Init
  BY DEF DeskInit
<1> QED
  BY <1>1, DeskStepIsRunStep, PTL DEF DeskSpec, Spec

-----------------------------------------------------------------------------
(* The invariant.                                                          *)

\* Only the gate interrupts, and a call without uncommitted steps has a checkpoint.
PausedAtGate(t) == t \in AnyThread => (t.interrupted => t.next = "human_approval")
Gated  == PausedAtGate(ckpt) /\ \A w \in Workers : PausedAtGate(run[w])
Stored ==
  /\ \A w \in Workers : call[w].at = "running" /\ ~call[w].dirty => ckpt \in AnyThread
  /\ \A c \in Clients : desk[c] = "served" => ckpt \in AnyThread

\* A fresh screen shows the thread as it is, and nobody is working on it.
FreshIsTrue ==
  \A c \in Clients : fresh[c] =>
    screen[c] = View(ckpt) /\ \A w \in Workers : call[w].at = "idle"

\* w serves a decision taken on a fresh screen, and no other call has come since.
Attended(w) == call[w].at # "idle" /\ call[w].kind \in Decisions /\ shown[w].alone

Lonely == \A w \in Workers : Attended(w) => \A v \in Workers \ {w} : call[v].at = "idle"

\* Such a decision on its way to the gate ...
Deciding(w) ==
  /\ ~run[w].interrupted /\ run[w].answer = call[w].kind
  /\ run[w].next = "human_approval" /\ run[w].draft = shown[w].draft

\* ... and on the way from it: what is done already, and what remains to be done.
Way(kind, t, seen) ==
  \/ /\ kind \in Approving /\ ~t.interrupted
     /\ t.next \in {"report_generator", "save_memory", "final_response", "END"}
  \/ kind = "reject" /\ ~t.interrupted /\ t.next \in {"final_response", "END"}
  \/ /\ kind = "edit_plan"
     /\ t.draft >= seen
     /\ \/ t.next = "investigation" /\ ~t.interrupted
        \/ t.next = "human_approval"

Decided(w) ==
  /\ run[w].answer = "none" /\ run[w].status = StatusOf[call[w].kind]
  /\ Way(call[w].kind, run[w], shown[w].draft)
  /\ ~call[w].dirty => ckpt = run[w]

Course(w) ==
  Attended(w) =>
    /\ shown[w].draft \in Nat /\ shown[w].draft <= drafts
    /\ call[w].at = "checked" =>
         ckpt \in AnyThread /\ ckpt.interrupted /\ ckpt.draft = shown[w].draft
    /\ call[w].at = "running" => run[w] \in AnyThread /\ (Deciding(w) \/ Decided(w))

DeskInv ==
  /\ DeskTypeOK /\ Gated /\ Stored /\ FreshIsTrue /\ Lonely
  /\ \A w \in Workers : Course(w)

LEMMA NoThreadNeverPauses == PausedAtGate(NoThread) /\ PausedAtGate(Fresh)
<1>1. ~Fresh.interrupted
  BY DEF Fresh
<1> QED
  BY <1>1, Apart DEF PausedAtGate

LEMMA InitDeskInv == DeskInit => DeskInv
<1> SUFFICES ASSUME DeskInit PROVE DeskInv
  OBVIOUS
<1>1. /\ ckpt = NoThread /\ call = [w \in Workers |-> Idle] /\ run = [w \in Workers |-> NoThread]
  BY DEF DeskInit, Init
<1>2. /\ session \in {"typed", "generated"} /\ desk = [c \in Clients |-> "reading"]
      /\ screen = [c \in Clients |-> Blank] /\ fresh = [c \in Clients |-> FALSE]
      /\ shown = [w \in Workers |-> Unseen] /\ lost = 0
  BY DEF DeskInit
<1>3. Unseen \in [draft : 0..MaxCalls, alone : BOOLEAN]
  BY BoundsAssumption DEF Unseen
<1>4. DeskTypeOK
  BY <1>2, <1>3, LostAssumption DEF DeskTypeOK
<1>5. \A w \in Workers : call[w].at = "idle"
  BY <1>1, Apart
<1>6. Gated
  BY <1>1, NoThreadNeverPauses DEF Gated
<1>7. Stored
  BY <1>2, <1>5 DEF Stored
<1>8. FreshIsTrue
  BY <1>2 DEF FreshIsTrue
<1>9. Lonely /\ \A w \in Workers : Course(w)
  BY <1>5 DEF Lonely, Course, Attended
<1> QED
  BY <1>4, <1>6, <1>7, <1>8, <1>9 DEF DeskInv

-----------------------------------------------------------------------------
(* Steps of the runs.                                                      *)

\* A step of w's run during which the clients do nothing.
LEMMA WorkKeepsDesk ==
  ASSUME DeskInv, NEW w \in Workers, UNCHANGED deskVars,
         call[w].at # "idle", call'[w].kind = call[w].kind,
         \A v \in Workers \ {w} : call'[v] = call[v] /\ run'[v] = run[v],
         ckpt \in AnyThread => ckpt' \in AnyThread,
         call'[w].at = "running" /\ ~call'[w].dirty => ckpt' \in AnyThread,
         PausedAtGate(ckpt'), PausedAtGate(run'[w]), Course(w)'
  PROVE  DeskInv'
<1>1. /\ session' = session /\ desk' = desk /\ screen' = screen /\ fresh' = fresh
      /\ shown' = shown /\ lost' = lost
  BY DEF deskVars
<1>2. DeskTypeOK'
  BY <1>1 DEF DeskInv, DeskTypeOK
<1>3. Gated'
  BY DEF DeskInv, Gated
<1>4. Stored'
  BY <1>1 DEF DeskInv, Stored
<1>5. \A c \in Clients : ~fresh[c]
  BY DEF DeskInv, FreshIsTrue
<1>6. FreshIsTrue'
  BY <1>1, <1>5 DEF FreshIsTrue
<1>7. \A v \in Workers \ {w} : ~Attended(v)
  BY DEF DeskInv, Lonely
<1>8. \A v \in Workers \ {w} : ~Attended(v)'
  BY <1>1, <1>7 DEF Attended
<1>9. Attended(w)' => Attended(w)
  BY <1>1 DEF Attended
<1>10. Lonely'
  BY <1>8, <1>9 DEF DeskInv, Lonely
<1>11. ASSUME NEW v \in Workers PROVE Course(v)'
  BY <1>8 DEF Course
<1> QED
  BY <1>2, <1>3, <1>4, <1>6, <1>10, <1>11 DEF DeskInv

\* What the course of a decision has come to when its run makes a step.
LEMMA AtWork ==
  ASSUME DeskInv, NEW w \in Workers, UNCHANGED deskVars, call[w].at = "running",
         call'[w].kind = call[w].kind, Attended(w)'
  PROVE  /\ Attended(w) /\ shown'[w] = shown[w] /\ call[w].kind \in Decisions
         /\ shown[w].draft \in Nat /\ shown[w].draft <= drafts
         /\ Deciding(w) \/ Decided(w)
<1>1. shown' = shown
  BY DEF deskVars
<1>2. Attended(w)
  BY <1>1 DEF Attended
<1>3. Course(w)
  BY DEF DeskInv
<1> QED
  BY <1>1, <1>2, <1>3 DEF Course, Attended

\* A super-step that leaves w on the way from the gate.
LEMMA GoesOn ==
  ASSUME DeskInv, NEW w \in Workers, UNCHANGED deskVars, Goes(w, run'[w]), drafts' >= drafts,
         drafts \in Nat, drafts' \in Nat,
         PausedAtGate(run'[w]),
         Attended(w)' => /\ run'[w].status = StatusOf[call[w].kind]
                         /\ Way(call[w].kind, run'[w], shown[w].draft)
  PROVE  DeskInv'
<1>1. /\ call[w].at = "running" /\ call'[w].at = "running" /\ call'[w].kind = call[w].kind
      /\ call'[w].dirty /\ run'[w] \in AnyThread /\ run'[w].answer = "none" /\ ckpt' = ckpt
      /\ \A v \in Workers \ {w} : call'[v] = call[v] /\ run'[v] = run[v]
  BY DEF Goes
<1>2. ASSUME Attended(w)' PROVE Course(w)'
  <2>1. /\ shown'[w] = shown[w] /\ shown[w].draft \in Nat /\ shown[w].draft <= drafts
    BY <1>1, <1>2, AtWork
  <2>2. shown'[w].draft \in Nat /\ shown'[w].draft <= drafts'
    BY <2>1, SMT
  <2>3. Decided(w)'
    BY <1>1, <1>2, <2>1 DEF Decided
  <2> QED
    BY <1>1, <2>2, <2>3, SMT DEF Course
<1>3. Course(w)'
  BY <1>2 DEF Course
<1>4. PausedAtGate(ckpt')
  BY <1>1 DEF DeskInv, Gated
<1>5. call[w].at # "idle"
  BY <1>1, SMT
<1> QED
  BY <1>1, <1>3, <1>4, <1>5, WorkKeepsDesk

LEMMA RecallKeepsDesk ==
  ASSUME RunInv, DeskInv, NEW w \in Workers, Recall(w), UNCHANGED deskVars
  PROVE  DeskInv'
<1>1. /\ run[w].next = "recall_memory" /\ drafts' = drafts /\ Goes(w, run'[w])
      /\ run'[w].next = "investigation" /\ Same(w)
  BY RecallGoes
<1>2. drafts \in Nat /\ ~run'[w].interrupted
  BY <1>1 DEF RunInv, Shape, Goes, Same
<1>3. PausedAtGate(run'[w])
  BY <1>2 DEF PausedAtGate
<1>4. ~Attended(w)'
  <2>1. SUFFICES ASSUME Attended(w)' PROVE FALSE
    OBVIOUS
  <2>2. Deciding(w) \/ Decided(w)
    BY <1>1, <2>1, AtWork DEF Goes
  <2> QED
    BY <1>1, <2>2, SMT DEF Deciding, Decided, Way
<1> QED
  BY <1>1, <1>2, <1>3, <1>4, GoesOn

LEMMA InvestigateKeepsDesk ==
  ASSUME RunInv, DeskInv, NEW w \in Workers, Investigate(w), UNCHANGED deskVars
  PROVE  DeskInv'
<1>1. /\ run[w].next = "investigation" /\ drafts \in Nat /\ drafts' \in Nat /\ drafts' >= drafts
      /\ Goes(w, run'[w]) /\ run'[w].next = "human_approval"
      /\ run'[w].status = run[w].status /\ run[w].draft <= run'[w].draft
      /\ run[w].draft \in Nat /\ run'[w].draft \in Nat
  <2>1. \/ drafts' = drafts
        \/ drafts' = drafts + 1
    BY InvestigateGoes
  <2>2. drafts \in Nat /\ drafts' \in Nat
    BY InvestigateGoes
  <2>3. drafts' >= drafts
    BY <2>1, <2>2, SMT
  <2> QED
    BY <2>2, <2>3, InvestigateGoes
<1>2. PausedAtGate(run'[w])
  BY <1>1 DEF PausedAtGate
<1>3. ASSUME Attended(w)'
      PROVE  /\ run'[w].status = StatusOf[call[w].kind]
             /\ Way(call[w].kind, run'[w], shown[w].draft)
  <2>1. shown[w].draft \in Nat /\ shown[w].draft <= drafts /\ (Deciding(w) \/ Decided(w))
    BY <1>1, <1>3, AtWork DEF Goes
  <2>2. Decided(w)
    BY <1>1, <2>1, SMT DEF Deciding
  <2>3. call[w].kind = "edit_plan" /\ run[w].draft >= shown[w].draft
    BY <1>1, <2>2, SMT DEF Decided, Way
  <2>4. run'[w].draft >= shown[w].draft
    BY <1>1, <2>1, <2>3, SMT
  <2> QED
    BY <1>1, <2>2, <2>3, <2>4 DEF Decided, Way
<1> QED
  BY <1>1, <1>2, <1>3, GoesOn

LEMMA PauseKeepsDesk ==
  ASSUME RunInv, DeskInv, NEW w \in Workers, Pause(w), UNCHANGED deskVars
  PROVE  DeskInv'
<1>1. /\ run[w].next = "human_approval" /\ run[w].answer = "none" /\ drafts' = drafts
      /\ Goes(w, run'[w]) /\ run'[w].next = "human_approval"
      /\ run'[w].draft = run[w].draft /\ run'[w].status = run[w].status
  BY PauseGoes
<1>2. drafts \in Nat
  BY DEF RunInv, Shape
<1>3. PausedAtGate(run'[w])
  BY <1>1 DEF PausedAtGate
<1>4. ASSUME Attended(w)'
      PROVE  /\ run'[w].status = StatusOf[call[w].kind]
             /\ Way(call[w].kind, run'[w], shown[w].draft)
  <2>1. call[w].kind \in Decisions /\ (Deciding(w) \/ Decided(w))
    BY <1>1, <1>4, AtWork DEF Goes
  <2>2. "none" \notin Decisions
    BY SMT DEF Decisions
  <2>3. Decided(w)
    BY <1>1, <2>1, <2>2 DEF Deciding
  <2>4. call[w].kind = "edit_plan" /\ run[w].draft >= shown[w].draft
    BY <1>1, <2>3, SMT DEF Decided, Way
  <2> QED
    BY <1>1, <2>3, <2>4 DEF Decided, Way
<1>5. drafts' \in Nat /\ drafts' >= drafts
  BY <1>1, <1>2, SMT
<1> QED
  BY <1>1, <1>2, <1>3, <1>4, <1>5, GoesOn

LEMMA DecideKeepsDesk ==
  ASSUME RunInv, DeskInv, NEW w \in Workers, Decide(w), UNCHANGED deskVars
  PROVE  DeskInv'
<1>1. /\ run[w].answer \in Decisions /\ drafts' = drafts
      /\ Goes(w, run'[w]) /\ run'[w].next = AfterGate(run[w].answer)
      /\ run'[w].interrupted = run[w].interrupted /\ run'[w].status = StatusOf[run[w].answer]
      /\ run[w].answer # "modify_draft" => run'[w].draft = run[w].draft
  BY DecideGoes
<1>2. drafts \in Nat /\ ~run'[w].interrupted
  BY <1>1 DEF RunInv, Shape, Goes
<1>3. PausedAtGate(run'[w])
  BY <1>2 DEF PausedAtGate
<1>4. ASSUME Attended(w)'
      PROVE  /\ run'[w].status = StatusOf[call[w].kind]
             /\ Way(call[w].kind, run'[w], shown[w].draft)
  <2>1. call[w].kind \in Decisions /\ (Deciding(w) \/ Decided(w))
    BY <1>1, <1>4, AtWork DEF Goes
  <2>2. run[w].answer # "none"
    BY <1>1, SMT DEF Decisions
  <2>3. /\ run[w].answer = call[w].kind /\ run[w].draft = shown[w].draft
        /\ shown[w].draft \in Nat
    BY <1>1, <1>4, <2>1, <2>2, AtWork DEF Deciding, Decided, Goes
  <2> DEFINE kind == call[w].kind
  <2>4. CASE kind \in {"approve", "modify_draft"}
    <3>1. run'[w].next = "report_generator"
      BY <1>1, <2>3, <2>4, SMT DEF AfterGate
    <3> QED
      BY <1>1, <1>2, <2>3, <2>4, <3>1 DEF Way, Approving
  <2>5. CASE kind = "reject"
    <3>1. run'[w].next = "final_response"
      BY <1>1, <2>3, <2>5, SMT DEF AfterGate
    <3> QED
      BY <1>1, <1>2, <2>3, <2>5, <3>1 DEF Way
  <2>6. CASE kind = "edit_plan"
    <3>1. run'[w].next = "investigation" /\ run'[w].draft >= shown[w].draft
      BY <1>1, <2>3, <2>6, SMT DEF AfterGate
    <3> QED
      BY <1>1, <1>2, <2>3, <2>6, <3>1 DEF Way
  <2> QED
    BY <2>1, <2>4, <2>5, <2>6 DEF Decisions
<1>5. drafts' \in Nat /\ drafts' >= drafts
  BY <1>1, <1>2, SMT
<1> QED
  BY <1>1, <1>2, <1>3, <1>4, <1>5, GoesOn

LEMMA TailKeepsDesk ==
  ASSUME RunInv, DeskInv, NEW w \in Workers, Report(w) \/ Save(w) \/ Respond(w),
         UNCHANGED deskVars
  PROVE  DeskInv'
<1>1. /\ drafts' = drafts /\ Goes(w, run'[w]) /\ Same(w)
      /\ \/ run[w].next = "report_generator" /\ run'[w].next = "save_memory"
         \/ run[w].next = "save_memory"      /\ run'[w].next = "final_response"
         \/ run[w].next = "final_response"   /\ run'[w].next = "END"
  BY ReportGoes, SaveGoes, RespondGoes
<1>2. drafts \in Nat /\ ~run'[w].interrupted
  BY <1>1 DEF RunInv, Shape, Goes, Same
<1>3. PausedAtGate(run'[w])
  BY <1>2 DEF PausedAtGate
<1>4. ASSUME Attended(w)'
      PROVE  /\ run'[w].status = StatusOf[call[w].kind]
             /\ Way(call[w].kind, run'[w], shown[w].draft)
  <2>1. Deciding(w) \/ Decided(w)
    BY <1>1, <1>4, AtWork DEF Goes
  <2>2. Decided(w)
    BY <1>1, <2>1, SMT DEF Deciding
  <2>3. Way(call[w].kind, run'[w], shown[w].draft)
    BY <1>1, <1>2, <2>2 DEF Decided, Way
  <2> QED
    BY <1>1, <2>2, <2>3 DEF Decided, Same
<1>5. drafts' \in Nat /\ drafts' >= drafts
  BY <1>1, <1>2, SMT
<1> QED
  BY <1>1, <1>2, <1>3, <1>4, <1>5, GoesOn

LEMMA InvokeKeepsDesk ==
  ASSUME RunInv, DeskInv, NEW w \in Workers, Invoke(w), UNCHANGED deskVars
  PROVE  DeskInv'
<1>1. /\ call[w].at = "checked" /\ ckpt \in AnyThread /\ drafts' = drafts
      /\ call'[w].at = "running" /\ call'[w].kind = call[w].kind
      /\ \A v \in Workers \ {w} : call'[v] = call[v] /\ run'[v] = run[v]
      /\ ckpt' \in AnyThread /\ ckpt'.next = ckpt.next
      /\ ckpt'.interrupted = ckpt.interrupted
      /\ run'[w] \in AnyThread /\ run'[w].next = ckpt.next /\ run'[w].draft = ckpt.draft
      /\ ~run'[w].interrupted
      /\ call[w].kind \in Decisions => run'[w].answer = call[w].kind
  BY InvokeGoes
<1>2. PausedAtGate(ckpt)
  BY DEF DeskInv, Gated
<1>3. PausedAtGate(ckpt') /\ PausedAtGate(run'[w])
  BY <1>1, <1>2 DEF PausedAtGate
<1>4. ASSUME Attended(w)' PROVE Course(w)'
  <2>1. shown' = shown
    BY DEF deskVars
  <2>2. Attended(w)
    BY <1>1, <1>4, <2>1, SMT DEF Attended
  <2>3. /\ shown[w].draft \in Nat /\ shown[w].draft <= drafts
        /\ ckpt.interrupted /\ ckpt.draft = shown[w].draft /\ call[w].kind \in Decisions
    BY <1>1, <2>2 DEF DeskInv, Course, Attended
  <2>4. ckpt.next = "human_approval"
    BY <1>1, <1>2, <2>3 DEF PausedAtGate
  <2>5. Deciding(w)'
    BY <1>1, <2>1, <2>3, <2>4 DEF Deciding
  <2>6. call'[w].at # "checked"
    BY <1>1, SMT
  <2> QED
    BY <1>1, <2>1, <2>3, <2>5, <2>6 DEF Course
<1>5. Course(w)'
  BY <1>4 DEF Course
<1>6. call[w].at # "idle"
  BY <1>1, SMT
<1> QED
  BY <1>1, <1>3, <1>5, <1>6, WorkKeepsDesk

LEMMA CommitKeepsDesk ==
  ASSUME RunInv, DeskInv, NEW w \in Workers, Commit(w), UNCHANGED deskVars
  PROVE  DeskInv'
<1>1. /\ call[w].at = "running" /\ run[w] \in AnyThread
      /\ ckpt' = run[w] /\ run' = run /\ drafts' = drafts
      /\ call'[w].at = "running" /\ call'[w].kind = call[w].kind
      /\ \A v \in Workers \ {w} : call'[v] = call[v]
  BY CommitGoes
<1>2. PausedAtGate(ckpt') /\ PausedAtGate(run'[w])
  BY <1>1 DEF DeskInv, Gated
<1>3. ASSUME Attended(w)' PROVE Course(w)'
  <2>1. /\ shown'[w] = shown[w] /\ shown[w].draft \in Nat /\ shown[w].draft <= drafts
        /\ Deciding(w) \/ Decided(w)
    BY <1>1, <1>3, AtWork
  <2>2. Deciding(w)' \/ Decided(w)'
    BY <1>1, <2>1 DEF Deciding, Decided
  <2>3. call'[w].at # "checked"
    BY <1>1, SMT
  <2> QED
    BY <1>1, <2>1, <2>2, <2>3 DEF Course
<1>4. Course(w)'
  BY <1>3 DEF Course
<1>5. call[w].at # "idle"
  BY <1>1, SMT
<1> QED
  BY <1>1, <1>2, <1>4, <1>5, WorkKeepsDesk

LEMMA WorkIsKept ==
  ASSUME RunInv, DeskInv, NEW w \in Workers, Work(w)
  PROVE  DeskInv'
<1>1. UNCHANGED deskVars
  BY DEF Work
<1> QED
  BY <1>1, InvokeKeepsDesk, RecallKeepsDesk, InvestigateKeepsDesk, PauseKeepsDesk,
     DecideKeepsDesk, TailKeepsDesk, CommitKeepsDesk DEF Work

\* A call that ends takes its decision with it.
LEMMA EndIsKept ==
  ASSUME RunInv, DeskInv, NEW w \in Workers, Served(w) \/ Error(w)
  PROVE  DeskInv'
<1>1. /\ Return(w) \/ BriefFails(w)
      /\ UNCHANGED <<session, screen, fresh, shown, lost>>
      /\ \E to \in {"served", "reading"} :
           desk' = [c \in Clients |-> IF desk[c] = w THEN to ELSE desk[c]]
  BY DEF Served, Error
<1>2. /\ call[w].at = "running" /\ ~call[w].dirty /\ ckpt' = ckpt /\ drafts' = drafts
      /\ call'[w] = Idle /\ run'[w] = NoThread
      /\ \A v \in Workers \ {w} : call'[v] = call[v] /\ run'[v] = run[v]
  BY <1>1, EndGoes
<1>3. ckpt \in AnyThread
  BY <1>2 DEF DeskInv, Stored
<1>4. call'[w].at = "idle" /\ call[w].at # "idle"
  BY <1>2, Apart, SMT
<1>5. desk \in [Clients -> {"reading", "served"} \cup Workers]
  BY DEF DeskInv, DeskTypeOK
<1>6. desk' \in [Clients -> {"reading", "served"} \cup Workers]
  BY <1>1, <1>5
<1>7. DeskTypeOK'
  BY <1>1, <1>6 DEF DeskInv, DeskTypeOK
<1>8. Gated'
  BY <1>2, NoThreadNeverPauses DEF DeskInv, Gated
<1>9. Stored'
  BY <1>2, <1>3 DEF Stored
<1>10. FreshIsTrue'
  BY <1>1, <1>4 DEF DeskInv, FreshIsTrue
<1>11. \A v \in Workers \ {w} : ~Attended(v)
  BY <1>4 DEF DeskInv, Lonely
<1>12. \A v \in Workers : ~Attended(v)'
  BY <1>1, <1>2, <1>4, <1>11 DEF Attended
<1>13. Lonely' /\ \A v \in Workers : Course(v)'
  BY <1>12 DEF Lonely, Course
<1> QED
  BY <1>7, <1>8, <1>9, <1>10, <1>13 DEF DeskInv

\* A button is on the screen only with an answer, and a decision's only with a brief.
LEMMA ButtonsMeanTheScreen ==
  ASSUME NEW c \in Clients, NEW kind \in Kinds \ {"create"}, Offers(c, kind)
  PROVE  screen[c] # Blank /\ (kind \in Decisions => screen[c].interrupted)
<1>1. CASE kind = "approve"
  <2>1. AtGate(c)
    BY <1>1 DEF Offers
  <2> QED
    BY <2>1 DEF AtGate
<1>2. CASE kind = "reject"
  <2>1. AtGate(c)
    BY <1>2 DEF Offers
  <2> QED
    BY <2>1 DEF AtGate
<1>3. CASE kind = "edit_plan"
  <2>1. AtGate(c)
    BY <1>3 DEF Offers
  <2> QED
    BY <2>1 DEF AtGate
<1>4. CASE kind = "modify_draft"
  <2>1. AtGate(c)
    BY <1>4 DEF Offers
  <2> QED
    BY <2>1 DEF AtGate
<1>5. CASE kind = "resume"
  <2>1. screen[c] # Blank
    BY <1>5 DEF Offers
  <2> QED
    BY <1>5, <2>1 DEF Decisions
<1> QED
  BY <1>1, <1>2, <1>3, <1>4, <1>5 DEF Kinds, Decisions

\* A decision sets out from the screen.
LEMMA PressIsKept ==
  ASSUME RunInv, DeskInv, NEW c \in Clients, NEW w \in Workers,
         NEW kind \in Kinds \ {"create"}, Press(c, w, kind)
  PROVE  DeskInv'
<1>1. /\ Offers(c, kind) /\ Check(w, kind)
      /\ desk' = [desk EXCEPT ![c] = w] /\ fresh' = [d \in Clients |-> FALSE]
      /\ UNCHANGED <<session, screen, lost>>
      /\ shown' = [v \in Workers |->
                     IF v = w THEN [draft |-> screen[c].draft, alone |-> fresh[c]]
                              ELSE [shown[v] EXCEPT !.alone = FALSE]]
  BY DEF Press, SendFrom
<1>2. /\ ckpt \in AnyThread /\ call[w].at = "idle" /\ call'[w].at = "checked"
      /\ call'[w].kind = kind /\ ckpt' = ckpt /\ run' = run /\ drafts' = drafts
      /\ \A v \in Workers \ {w} : call'[v] = call[v]
  BY <1>1, CheckGoes
<1>3. /\ session \in {"typed", "generated"}
      /\ desk \in [Clients -> {"reading", "served"} \cup Workers]
      /\ screen \in [Clients -> Views \cup {Blank}]
      /\ shown \in [Workers -> [draft : 0..MaxCalls, alone : BOOLEAN]]
      /\ lost \in 0..MaxLost /\ fresh \in [Clients -> BOOLEAN]
  BY DEF DeskInv, DeskTypeOK
<1>4. screen[c] # Blank
  BY <1>1, ButtonsMeanTheScreen
<1>5. screen[c] \in Views
  BY <1>3, <1>4
<1>6. screen[c].draft \in 0..MaxCalls
  BY <1>5, SMT DEF Views
<1>7. kind \in Decisions => screen[c].interrupted
  BY <1>1, ButtonsMeanTheScreen
<1>8. ASSUME NEW v \in Workers
      PROVE  /\ shown'[v] \in [draft : 0..MaxCalls, alone : BOOLEAN]
             /\ v # w => ~shown'[v].alone
             /\ v = w => shown'[v].alone = fresh[c] /\ shown'[v].draft = screen[c].draft
  <2>1. CASE v = w
    BY <1>1, <1>3, <1>6, <2>1
  <2>2. CASE v # w
    <3>1. shown[v] \in [draft : 0..MaxCalls, alone : BOOLEAN]
      BY <1>3
    <3>2. shown'[v] = [shown[v] EXCEPT !.alone = FALSE]
      BY <1>1, <2>2
    <3> QED
      BY <2>2, <3>1, <3>2
  <2> QED
    BY <2>1, <2>2
<1>9. shown' \in [Workers -> [draft : 0..MaxCalls, alone : BOOLEAN]]
  <2>1. \A v \in Workers : shown'[v] \in [draft : 0..MaxCalls, alone : BOOLEAN]
    BY <1>8
  <2>2. shown' = [v \in Workers |-> shown'[v]]
    BY <1>1
  <2> QED
    BY <2>1, <2>2, Zenon
<1>10. desk' \in [Clients -> {"reading", "served"} \cup Workers] /\ fresh' \in [Clients -> BOOLEAN]
  BY <1>1, <1>3
<1>11. DeskTypeOK'
  BY <1>1, <1>3, <1>9, <1>10 DEF DeskTypeOK
<1>12. Gated'
  BY <1>2 DEF DeskInv, Gated
<1>13. Stored'
  BY <1>2 DEF Stored
<1>14. FreshIsTrue'
  BY <1>1 DEF FreshIsTrue
<1>15. \A v \in Workers \ {w} : ~Attended(v)'
  BY <1>8 DEF Attended
<1>16. ASSUME Attended(w)'
       PROVE  /\ \A v \in Workers : call[v].at = "idle"
              /\ screen[c] = View(ckpt) /\ kind \in Decisions
  BY <1>2, <1>8, <1>16 DEF Attended, DeskInv, FreshIsTrue
<1>17. Lonely'
  BY <1>2, <1>15, <1>16 DEF Lonely
<1>18. ASSUME Attended(w)' PROVE Course(w)'
  <2>1. ckpt.draft = screen[c].draft /\ ckpt.interrupted
    BY <1>7, <1>16, <1>18 DEF View
  <2>2. ckpt.draft <= drafts /\ ckpt.draft \in Nat
    BY <1>2, SMT DEF RunInv, Accounted, AnyThread
  <2>3. shown'[w].draft = screen[c].draft
    BY <1>8
  <2>4. call'[w].at # "running"
    BY <1>2, SMT
  <2> QED
    BY <1>2, <2>1, <2>2, <2>3, <2>4 DEF Course
<1>19. \A v \in Workers : Course(v)'
  BY <1>15, <1>18 DEF Course
<1> QED
  BY <1>11, <1>12, <1>13, <1>14, <1>17, <1>19 DEF DeskInv

LEMMA StartIsKept ==
  ASSUME RunInv, DeskInv, NEW c \in Clients, NEW w \in Workers, StartInvestigation(c, w)
  PROVE  DeskInv'
<1>1. /\ Create(w) /\ desk' = [desk EXCEPT ![c] = w] /\ fresh' = [d \in Clients |-> FALSE]
      /\ UNCHANGED <<session, screen, lost, shown>>
  BY DEF StartInvestigation, SendFrom
<1>2. /\ \A v \in Workers : call[v].at = "idle"
      /\ call'[w].at = "running" /\ call'[w].kind = "create" /\ call'[w].dirty
      /\ run'[w] = Fresh /\ ckpt' = ckpt
      /\ \A v \in Workers \ {w} : call'[v] = call[v] /\ run'[v] = run[v]
  BY <1>1, CreateGoes
<1>3. desk \in [Clients -> {"reading", "served"} \cup Workers]
  BY DEF DeskInv, DeskTypeOK
<1>4. desk' \in [Clients -> {"reading", "served"} \cup Workers] /\ fresh' \in [Clients -> BOOLEAN]
  BY <1>1, <1>3
<1>5. DeskTypeOK'
  BY <1>1, <1>4 DEF DeskInv, DeskTypeOK
<1>6. Gated'
  BY <1>2, NoThreadNeverPauses DEF DeskInv, Gated
<1>7. Stored'
  <2>1. \A v \in Workers \ {w} : call'[v].at # "running"
    BY <1>2, SMT
  <2>2. w # "served"
    BY WaitingAssumption
  <2>3. ASSUME NEW d \in Clients, desk'[d] = "served" PROVE ckpt' \in AnyThread
    <3>1. desk[d] = "served"
      BY <1>1, <1>3, <2>2, <2>3
    <3> QED
      BY <1>2, <3>1 DEF DeskInv, Stored
  <2> QED
    BY <1>2, <2>1, <2>3 DEF Stored
<1>8. FreshIsTrue'
  BY <1>1 DEF FreshIsTrue
<1>9. \A v \in Workers : ~Attended(v)'
  <2>1. "create" \notin Decisions
    BY SMT DEF Decisions
  <2> QED
    BY <1>2, <2>1 DEF Attended
<1>10. Lonely' /\ \A v \in Workers : Course(v)'
  BY <1>9 DEF Lonely, Course
<1> QED
  BY <1>5, <1>6, <1>7, <1>8, <1>10 DEF DeskInv

-----------------------------------------------------------------------------
(* Steps of the clients, and the restart.                                  *)

\* What a client may show of the thread.
LEMMA ViewIsTyped ==
  ASSUME TypeOK, ckpt \in AnyThread
  PROVE  View(ckpt) \in Views
<1>1. ckpt \in ThreadStates
  BY Apart DEF TypeOK
<1> QED
  BY <1>1 DEF ThreadStates, View, Views

LEMMA ShowIsKept ==
  ASSUME TypeOK, DeskInv, NEW c \in Clients, Show(c), ckpt \in AnyThread,
         desk' = [desk EXCEPT ![c] = "reading"]
  PROVE  DeskInv'
<1>1. /\ screen' = [screen EXCEPT ![c] = View(ckpt)]
      /\ fresh' = [fresh EXCEPT ![c] = \A w \in Workers : ~Busy(w)]
      /\ UNCHANGED <<vars, session, shown, lost>>
  BY DEF Show
<1>2. /\ desk \in [Clients -> {"reading", "served"} \cup Workers]
      /\ screen \in [Clients -> Views \cup {Blank}] /\ fresh \in [Clients -> BOOLEAN]
  BY DEF DeskInv, DeskTypeOK
<1>3. View(ckpt) \in Views
  BY ViewIsTyped
<1>4. /\ desk' \in [Clients -> {"reading", "served"} \cup Workers]
      /\ screen' \in [Clients -> Views \cup {Blank}]
  BY <1>1, <1>2, <1>3
<1>5. (\A w \in Workers : ~Busy(w)) \in BOOLEAN
  OBVIOUS
<1>6. fresh' \in [Clients -> BOOLEAN]
  BY <1>1, <1>2, <1>5
<1>7. DeskTypeOK'
  BY <1>1, <1>4, <1>6 DEF DeskInv, DeskTypeOK
<1>8. ckpt' = ckpt /\ run' = run /\ call' = call /\ drafts' = drafts /\ shown' = shown
  BY <1>1 DEF vars, effects
<1>9. Gated'
  BY <1>8 DEF DeskInv, Gated
<1>10. Stored'
  BY <1>8 DEF DeskInv, Stored
<1>11. ASSUME NEW d \in Clients, fresh'[d]
       PROVE  screen'[d] = View(ckpt') /\ \A w \in Workers : call'[w].at = "idle"
  <2>1. CASE d = c
    <3>1. screen'[c] = View(ckpt)
      BY <1>1, <1>2
    <3>2. fresh'[c] <=> \A w \in Workers : ~Busy(w)
      BY <1>1, <1>2
    <3>3. \A w \in Workers : call[w].at = "idle"
      BY <1>11, <2>1, <3>2 DEF Busy
    <3>4. View(ckpt') = View(ckpt)
      BY <1>8
    <3> QED
      BY <1>8, <2>1, <3>1, <3>3, <3>4
  <2>2. CASE d # c
    <3>1. screen'[d] = screen[d] /\ fresh'[d] = fresh[d]
      BY <1>1, <1>2, <2>2
    <3>2. View(ckpt') = View(ckpt)
      BY <1>8
    <3> QED
      BY <1>8, <1>11, <3>1, <3>2 DEF DeskInv, FreshIsTrue
  <2> QED
    BY <2>1, <2>2
<1>12. FreshIsTrue'
  BY <1>11 DEF FreshIsTrue
<1>13. Lonely' /\ \A w \in Workers : Course(w)'
  BY <1>8 DEF DeskInv, Lonely, Course, Attended, Deciding, Decided
<1> QED
  BY <1>7, <1>9, <1>10, <1>12, <1>13 DEF DeskInv

LEMMA ClientIsKept ==
  ASSUME TypeOK, RunInv, DeskInv, NEW c \in Clients, Answer(c) \/ Look(c) \/ Lose(c)
  PROVE  DeskInv'
<1>1. desk \in [Clients -> {"reading", "served"} \cup Workers]
  BY DEF DeskInv, DeskTypeOK
<1>2. CASE Answer(c)
  <2>1. ckpt \in AnyThread
    BY <1>2 DEF Answer, DeskInv, Stored
  <2> QED
    BY <1>2, <2>1, ShowIsKept DEF Answer
<1>3. CASE Look(c)
  <2>1. ckpt \in AnyThread
    BY <1>3 DEF Look, RunInv, Shape, Copies
  <2>2. desk' = [desk EXCEPT ![c] = "reading"]
    BY <1>1, <1>3 DEF Look
  <2> QED
    BY <1>3, <2>1, <2>2, ShowIsKept DEF Look
<1>4. CASE Lose(c)
  <2>1. /\ desk' = [desk EXCEPT ![c] = "reading"] /\ lost < MaxLost /\ lost' = lost + 1
        /\ UNCHANGED <<vars, session, screen, fresh, shown>>
    BY <1>4 DEF Lose
  <2>2. lost \in 0..MaxLost /\ lost' \in 0..MaxLost
    BY <2>1, LostAssumption DEF DeskInv, DeskTypeOK
  <2>3. desk' \in [Clients -> {"reading", "served"} \cup Workers]
    BY <1>1, <2>1
  <2>4. DeskTypeOK'
    BY <2>1, <2>2, <2>3 DEF DeskInv, DeskTypeOK
  <2>5. ckpt' = ckpt /\ run' = run /\ call' = call /\ drafts' = drafts
    BY <2>1 DEF vars, effects
  <2>6. Gated' /\ Stored'
    BY <1>1, <2>1, <2>5 DEF DeskInv, Gated, Stored
  <2>7. View(ckpt') = View(ckpt)
    BY <2>5
  <2>8. FreshIsTrue'
    BY <2>1, <2>5, <2>7 DEF DeskInv, FreshIsTrue
  <2>9. Lonely' /\ \A w \in Workers : Course(w)'
    BY <2>1, <2>5 DEF DeskInv, Lonely, Course, Attended, Deciding, Decided
  <2> QED
    BY <2>4, <2>6, <2>8, <2>9 DEF DeskInv
<1> QED
  BY <1>2, <1>3, <1>4

LEMMA RestartIsKept ==
  ASSUME RunInv, DeskInv, Restart
  PROVE  DeskInv'
<1>1. /\ call' = [w \in Workers |-> Idle] /\ run' = [w \in Workers |-> NoThread]
      /\ ckpt' = ckpt /\ desk' = [c \in Clients |-> "reading"]
      /\ UNCHANGED <<session, screen, fresh, shown, lost>>
  BY DEF Restart, Crash
<1>2. DeskTypeOK'
  BY <1>1 DEF DeskInv, DeskTypeOK
<1>3. \A w \in Workers : call'[w].at = "idle"
  BY <1>1, Apart
<1>4. Gated'
  BY <1>1, NoThreadNeverPauses DEF DeskInv, Gated
<1>5. Stored'
  BY <1>1, <1>3 DEF Stored
<1>6. View(ckpt') = View(ckpt)
  BY <1>1
<1>7. FreshIsTrue'
  BY <1>1, <1>3, <1>6 DEF DeskInv, FreshIsTrue
<1>8. Lonely' /\ \A w \in Workers : Course(w)'
  BY <1>3 DEF Lonely, Course, Attended
<1> QED
  BY <1>2, <1>4, <1>5, <1>7, <1>8 DEF DeskInv

LEMMA DeskStep == TypeOK /\ RunInv /\ DeskInv /\ [DeskNext]_allVars => DeskInv'
<1> SUFFICES ASSUME TypeOK, RunInv, DeskInv, [DeskNext]_allVars PROVE DeskInv'
  OBVIOUS
<1>1. CASE UNCHANGED allVars
  <2>1. /\ ckpt' = ckpt /\ run' = run /\ call' = call /\ drafts' = drafts
        /\ UNCHANGED <<session, desk, screen, fresh, shown, lost>>
    BY <1>1 DEF allVars, vars, effects, deskVars
  <2>2. View(ckpt') = View(ckpt)
    BY <2>1
  <2> QED
    BY <2>1, <2>2 DEF DeskInv, DeskTypeOK, Gated, Stored, FreshIsTrue, Lonely, Course,
       Attended, Deciding, Decided
<1>2. CASE \E c \in Clients, w \in Workers :
             StartInvestigation(c, w) \/ \E kind \in Kinds \ {"create"} : Press(c, w, kind)
  BY <1>2, StartIsKept, PressIsKept
<1>3. CASE \E w \in Workers : Work(w) \/ Served(w) \/ Error(w)
  BY <1>3, WorkIsKept, EndIsKept
<1>4. CASE \E c \in Clients : Answer(c) \/ Look(c) \/ Lose(c)
  BY <1>4, ClientIsKept
<1> QED
  BY <1>1, <1>2, <1>3, <1>4, RestartIsKept DEF DeskNext

LEMMA DeskInvAlways == DeskSpec => []DeskInv
<1>1. Spec => []TypeOK
  BY TypeCorrect
<1>2. Spec => []RunInv
  BY RunInvAlways
<1> QED
  BY <1>1, <1>2, InitDeskInv, DeskStep, DeskKeepsToRuns, PTL DEF DeskSpec

-----------------------------------------------------------------------------
(* What follows of it.                                                     *)

\* Screens, buttons and counters keep their types, for any number of clients and calls
\* (streamlit_app's session_state).
THEOREM DeskTypeCorrect == DeskSpec => []DeskTypeOK
<1>1. DeskInv => DeskTypeOK
  BY DEF DeskInv
<1> QED
  BY <1>1, DeskInvAlways, PTL

\* Whoever decides from a screen, stale or not, nothing is saved or reported that nobody
\* approved: the clients add no way around the gate (the routes of incidents.py).
THEOREM DeskApprovalComesFirst == DeskSpec => []NoSaveWithoutApproval
  BY ApprovalComesFirst, DeskKeepsToRuns, PTL

\* A decision taken on a fresh screen and left alone is the one that the gate receives,
\* about the draft on that screen (_render_status, Command(resume=...)).
THEOREM ScreensAreFollowed == DeskSpec => DecisionsFollowTheScreen
<1>1. ASSUME DeskInv, NEW w \in Workers, Lone(w), Decide(w)
      PROVE  run[w].answer = call[w].kind /\ run[w].draft = shown[w].draft
  <2>1. call[w].at = "running" /\ call[w].at # "idle" /\ run[w].answer # "none"
    BY <1>1, SMT DEF Lone, Decide
  <2>2. Attended(w)
    BY <1>1, <2>1 DEF Lone, Attended
  <2>3. Deciding(w) \/ Decided(w)
    BY <1>1, <2>1, <2>2 DEF DeskInv, Course
  <2> QED
    BY <2>1, <2>3 DEF Deciding, Decided
<1>2. DeskInv => [\A w \in Workers :
                    Lone(w) /\ Decide(w) =>
                      run[w].answer = call[w].kind /\ run[w].draft = shown[w].draft]_allVars
  BY <1>1
<1> QED
  BY <1>2, DeskInvAlways, PTL DEF DecisionsFollowTheScreen

\* ... and it has taken effect when its call returns: the thread has ended as decided, with
\* a report only if accepted, or waits at the gate with the draft that was shown or a later
\* one (human_approval_node's goto and update, an incident_resolution that may fail).
THEOREM DecisionsAreCarriedOut == DeskSpec => DecisionsTakeEffect
<1> DEFINE Effect(w) ==
             /\ ckpt.status = StatusOf[call[w].kind]
             /\ ckpt.next = IF call[w].kind = "edit_plan" THEN "human_approval" ELSE "END"
             /\ call[w].kind = "edit_plan" => ckpt.draft >= shown[w].draft
             /\ ckpt.report => call[w].kind \in Approving
<1>1. ASSUME DeskInv, PlacesInv, NEW w \in Workers, Lone(w), Return(w) PROVE Effect(w)
  <2>1. /\ call[w].at = "running" /\ call[w].at # "idle" /\ ~call[w].dirty
        /\ run[w].interrupted \/ run[w].next = "END"
    BY <1>1, SMT DEF Lone, Return
  <2>2. Attended(w)
    BY <1>1, <2>1 DEF Lone, Attended
  <2>3. Deciding(w) \/ Decided(w)
    BY <1>1, <2>1, <2>2 DEF DeskInv, Course
  <2>4. Decided(w)
    BY <2>1, <2>3, SMT DEF Deciding
  <2>5. ckpt = run[w] /\ run[w].status = StatusOf[call[w].kind]
        /\ Way(call[w].kind, run[w], shown[w].draft)
    BY <2>1, <2>4 DEF Decided
  <2> DEFINE kind == call[w].kind
             t == run[w]
             seen == shown[w].draft
  <2>6. ckpt = t /\ t.status = StatusOf[kind] /\ Way(kind, t, seen)
        /\ (t.interrupted \/ t.next = "END")
    BY <2>1, <2>5
  <2>p. t \in AnyThread /\ Placed(t, saves)
    BY <1>1, <2>1, <2>2, <2>5 DEF DeskInv, Course, PlacesInv
  <2> HIDE DEF kind, t, seen
  <2>7. CASE kind \in Approving
    <3>1. kind # "edit_plan" /\ kind # "reject"
      BY <2>7, SMT DEF Approving
    <3>2. t.next = "END"
      BY <2>6, <3>1, SMT DEF Way
    <3> QED
      BY <2>6, <2>7, <3>1, <3>2 DEF kind, seen
  <2>8. CASE kind = "reject"
    <3>1. kind # "edit_plan" /\ kind \notin Approving
      BY <2>8, SMT DEF Approving
    <3>2. t.next = "END"
      BY <2>6, <3>1, SMT DEF Way
    <3>3. ~t.report
      BY <2>6, <2>8, <2>p, <3>2, SMT DEF Placed, StatusOf
    <3> QED
      BY <2>6, <3>1, <3>2, <3>3 DEF kind, seen
  <2>9. CASE kind = "edit_plan"
    <3>1. kind # "reject" /\ kind \notin Approving
      BY <2>9, SMT DEF Approving
    <3>2. t.next = "human_approval" /\ t.draft >= seen
      BY <2>6, <3>1, SMT DEF Way
    <3>3. ~t.report
      BY <2>p, <3>2, SMT DEF Placed, BeforeReport
    <3> QED
      BY <2>6, <2>9, <3>1, <3>2, <3>3 DEF kind, seen
  <2> QED
    BY <2>6, <2>7, <2>8, <2>9 DEF Way
<1>2. DeskInv /\ PlacesInv => [\A w \in Workers : Lone(w) /\ Return(w) => Effect(w)]_allVars
  <2> HIDE DEF Effect
  <2> QED
    BY <1>1
<1> QED
  BY <1>2, DeskInvAlways, DeskKeepsToRuns, PlacesInvAlways, PTL DEF DecisionsTakeEffect

=============================================================================
