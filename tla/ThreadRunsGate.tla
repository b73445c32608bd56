----------------------------- MODULE ThreadRunsGate -----------------------------
(***************************************************************************)
(* What ThreadRuns has in common with the run that IncidentGraph describes.*)
(*                                                                         *)
(* A client that waits for each answer gets what ApprovalGate promises.    *)
(* The refinement mapping reads the gate off the thread's one life, and    *)
(* under it the steps of calls that follow one another, each of which      *)
(* drives a copy of its own, are steps of the gate.                        *)
(*                                                                         *)
(* However calls overlap, each copy by itself leads a thread's life.       *)
(***************************************************************************)
EXTENDS ThreadRuns, ThreadLife

Working == {w \in Workers : call[w].at = "running"}

\* While a call is at work the thread lives in its copy, otherwise in the checkpoint.
Life == IF Working # {} THEN run[CHOOSE w \in Working : TRUE] ELSE ckpt

\* A draft is before the human once the gate has paused, and as long as a decision
\* on its way into the gate has not been applied.
PhaseOf(t) ==
  CASE t.next \in {"report_generator", "save_memory", "final_response"}        -> "finishing"
    [] t.next = "END"                                                          -> "closed"
    [] t.next = "human_approval" /\ (t.interrupted \/ t.answer # "none")        -> "awaiting"
    [] OTHER                                                                   -> "investigating"

\* "modified" is a verdict only past the gate: an edited plan is investigated first.
VerdictOf(t) ==
  IF PhaseOf(t) \notin {"finishing", "closed"} THEN "none"
  ELSE IF t.status \in {"approved", "modified"} THEN "accepted" ELSE "refused"

\* The n-th report of a thread, the n-th writing of its memory.
Nth(what, n) == [what |-> what, n |-> n]

EffectsOf(t, s) ==
  {Nth("memory", n) : n \in 1..s}
    \cup (IF t # NoThread /\ t.report THEN {Nth("report", 1)} ELSE {})

GatePhase   == PhaseOf(Life)
GateVerdict == VerdictOf(Life)
GateEffects == EffectsOf(Life, saves)

\* An accepted resolution is reported once and remembered once.
Gate == INSTANCE ApprovalGate
          WITH phase <- GatePhase, verdict <- GateVerdict, effects <- GateEffects,
               Effects <- {Nth("memory", 1), Nth("report", 1)}

\* While calls follow one another and the process lives, whatever their order, kind and
\* number, a thread is an approval gate: one decision ends the investigation of a draft
\* that is before the human, only an acceptance has effects, each of them once, and none
\* is taken back.  A client that waits for each answer may retry or repeat any call.
SerialCallsKeepToTheGate ==
  /\ Gate!Init
  /\ [][~overlapped' /\ crashes' = 0 => Gate!Next \/ UNCHANGED Gate!vars]_vars

-----------------------------------------------------------------------------
\* A copy waits for the human while it is interrupted, and while it brings the answer.
StageOf(t) ==
  IF t.next = "human_approval" /\ (t.interrupted \/ t.answer # "none")
  THEN "awaiting_human" ELSE t.next

LifeOf(t) == [stage |-> StageOf(t), status |-> t.status, report |-> t.report]

\* A call begins a thread's life or takes it up where the latest checkpoint has left it,
\* and leads it, one stage after the other, whatever other calls do to the checkpoint.
CopiesLeadTheLife ==
  [][\A w \in Workers : call'[w].at = "running" =>
       CASE call[w].at = "idle"    -> Birth(LifeOf(run'[w]))
         [] call[w].at = "checked" -> LivesOn(LifeOf(ckpt), LifeOf(run'[w]))
         [] call[w].at = "running" -> LivesOn(LifeOf(run[w]), LifeOf(run'[w]))]_vars

=============================================================================
