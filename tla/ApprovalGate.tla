----------------------------- MODULE ApprovalGate -----------------------------
(***************************************************************************)
(* What the workflow promises its users: an incident is investigated, a    *)
(* human decides, and only an accepted resolution has effects.  It says    *)
(* nothing of how the investigation is done.                               *)
(***************************************************************************)
CONSTANT Effects   \* what an accepted resolution may leave behind

VARIABLES
  phase,     \* "investigating", "awaiting", "finishing", "closed"
  verdict,   \* "none", "accepted", "refused"
  effects    \* what it has left behind so far

vars == <<phase, verdict, effects>>

Init == phase = "investigating" /\ verdict = "none" /\ effects = {}

\* The investigation puts its draft before the human.
Submit ==
  /\ phase = "investigating" /\ phase' = "awaiting"
  /\ UNCHANGED <<verdict, effects>>

\* The draft is withdrawn for more work, or to be briefed again.
Reopen ==
  /\ phase = "awaiting" /\ phase' = "investigating"
  /\ UNCHANGED <<verdict, effects>>

Accept ==
  /\ phase = "awaiting" /\ phase' = "finishing" /\ verdict' = "accepted"
  /\ UNCHANGED effects

Refuse ==
  /\ phase = "awaiting" /\ phase' = "finishing" /\ verdict' = "refused"
  /\ UNCHANGED effects

\* Effects appear only after acceptance, and are never taken back.
Publish ==
  /\ phase = "finishing" /\ verdict = "accepted"
  /\ effects' \in SUBSET Effects /\ effects \subseteq effects'
  /\ UNCHANGED <<phase, verdict>>

\* The last node's answer may itself be an effect of an accepted resolution.
Close ==
  /\ phase = "finishing" /\ phase' = "closed"
  /\ effects' \in SUBSET Effects /\ effects \subseteq effects'
  /\ verdict = "refused" => effects' = effects
  /\ UNCHANGED verdict

Next == Submit \/ Reopen \/ Accept \/ Refuse \/ Publish \/ Close

Spec == Init /\ [][Next]_vars

=============================================================================
