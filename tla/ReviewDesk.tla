------------------------------ MODULE ReviewDesk ------------------------------
(***************************************************************************)
(* The people in the loop: what the Streamlit UI and other HTTP clients    *)
(* see of a thread, and what they send on the strength of it.  A route     *)
(* first runs its controller method (ThreadRuns) and then, in a second     *)
(* task of the pool, reads the thread's latest checkpoint and answers with *)
(* that.  A client keeps the last answer on its screen (last_status), and  *)
(* its buttons are those of that answer, whatever has happened since: the  *)
(* answer to a later request may be lost, because it took longer than the  *)
(* client waits, because a click elsewhere on the page stopped the script, *)
(* or because the process died; and other clients may move the thread on.  *)
(***************************************************************************)
EXTENDS ThreadRuns

CONSTANTS
  Clients,     \* browser tabs and other HTTP clients
  Scripts,     \* those that also use the editing forms of /approve
  MaxLost      \* bound: answers lost while the process lives

ASSUME ScriptsAssumption == Scripts \subseteq Clients
ASSUME WaitingAssumption == Workers \cap {"reading", "served"} = {}
ASSUME LostAssumption == MaxLost \in Nat

VARIABLES
  session,   \* the person typed a session id, and so knows it; else it is generated
  desk,      \* each client: reading, or the worker serving it, or served
  screen,    \* the answer each client shows
  fresh,     \* observer: no call was being served then, and none has come since
  shown,     \* observer: for each worker, what its client saw when it sent the call
  lost       \* observer: answers lost so far

deskVars == <<session, desk, screen, fresh, shown, lost>>

allVars == <<vars, deskVars>>

-----------------------------------------------------------------------------
Blank == [next |-> "unknown"]

\* _status_response(): is_paused and awaiting_node are next, interrupt_payload holds
\* the brief of the draft at the gate, final_answer is there at the end.
View(thread) == [next |-> thread.next, interrupted |-> thread.interrupted,
                 draft |-> thread.draft, status |-> thread.status]

Views == [next : Nodes, interrupted : BOOLEAN, draft : 0..MaxCalls,
          status : {"pending", "approved", "rejected", "modified"}]

Unseen == [draft |-> 0, alone |-> FALSE]

DeskInit ==
  /\ Init
  /\ session \in {"typed", "generated"}
  /\ desk = [c \in Clients |-> "reading"]
  /\ screen = [c \in Clients |-> Blank]
  /\ fresh = [c \in Clients |-> FALSE]
  /\ shown = [w \in Workers |-> Unseen]
  /\ lost = 0

\* Another call comes in: no screen is fresh, and no call is alone, any more.
SendFrom(c, w) ==
  /\ desk[c] = "reading" /\ desk' = [desk EXCEPT ![c] = w]
  /\ fresh' = [d \in Clients |-> FALSE]
  /\ UNCHANGED <<session, screen, lost>>

\* "Start investigation": POST /incident.
StartInvestigation(c, w) ==
  /\ Create(w) /\ SendFrom(c, w) /\ UNCHANGED shown

AtGate(c) == screen[c] # Blank /\ screen[c].interrupted

\* Mutant: the buttons of the brief stay once it has been shown.
OffersWhateverTheScreen(c, kind) == screen[c] # Blank

\* _render_status(): Approve and Reject under a brief, Resume when the thread is paused
\* without one.  The forms that edit are for a client that shows the brief too.
Offers(c, kind) ==
  CASE kind \in {"approve", "reject"}         -> AtGate(c)
    [] kind \in {"edit_plan", "modify_draft"} -> AtGate(c) /\ c \in Scripts
    [] kind = "resume" -> screen[c] # Blank /\ ~AtGate(c) /\ screen[c].next # "END"

\* A button is pressed: the request names the thread, not what was on the screen.
Press(c, w, kind) ==
  /\ Offers(c, kind) /\ Check(w, kind) /\ SendFrom(c, w)
  /\ shown' = [v \in Workers |->
                 IF v = w THEN [draft |-> screen[c].draft, alone |-> fresh[c]]
                          ELSE [shown[v] EXCEPT !.alone = FALSE]]

\* A step of a run that does not end its call.
Work(w) ==
  /\ \/ Invoke(w) \/ Recall(w) \/ Investigate(w) \/ Pause(w) \/ Decide(w)
     \/ Report(w) \/ Save(w) \/ Respond(w) \/ Commit(w)
  /\ UNCHANGED deskVars

\* The controller method returns: the route goes on to read the status.
Served(w) ==
  /\ Return(w)
  /\ desk' = [c \in Clients |-> IF desk[c] = w THEN "served" ELSE desk[c]]
  /\ UNCHANGED <<session, screen, fresh, shown, lost>>

\* Mutant: the error page replaces the status.
ErrorOnTheScreen(w) ==
  /\ BriefFails(w)
  /\ desk' = [c \in Clients |-> IF desk[c] = w THEN "reading" ELSE desk[c]]
  /\ screen' = [c \in Clients |-> IF desk[c] = w THEN [detail |-> "error"] ELSE screen[c]]
  /\ UNCHANGED <<session, fresh, shown, lost>>

\* The call ends in an error page; the script goes on with the screen it had.
Error(w) ==
  /\ BriefFails(w)
  /\ desk' = [c \in Clients |-> IF desk[c] = w THEN "reading" ELSE desk[c]]
  /\ UNCHANGED <<session, screen, fresh, shown, lost>>

\* Mutant: a brief that is on the screen already is not drawn again.
ShowKeepingBrief(c) ==
  /\ screen' = [screen EXCEPT ![c] =
                  IF AtGate(c) /\ ckpt.interrupted THEN @ ELSE View(ckpt)]
  /\ fresh' = [fresh EXCEPT ![c] = \A w \in Workers : ~Busy(w)]
  /\ UNCHANGED <<vars, session, shown, lost>>

\* get_snapshot() of the moment goes to the screen.
Show(c) ==
  /\ screen' = [screen EXCEPT ![c] = View(ckpt)]
  /\ fresh' = [fresh EXCEPT ![c] = \A w \in Workers : ~Busy(w)]
  /\ UNCHANGED <<vars, session, shown, lost>>

Answer(c) ==
  /\ desk[c] = "served" /\ desk' = [desk EXCEPT ![c] = "reading"]
  /\ Show(c)

\* GET /history finds threads by the session; an entry without a checkpoint is listed,
\* but has no status.
Finds(c) == screen[c] # Blank \/ (listed /\ session = "typed")

\* GET /status of a thread the client has on the screen, or of one in its history.
Look(c) ==
  /\ desk[c] = "reading" /\ Finds(c) /\ ckpt # NoThread
  /\ UNCHANGED desk
  /\ Show(c)

\* The answer does not arrive; the run goes on.
Lose(c) ==
  /\ desk[c] # "reading" /\ desk' = [desk EXCEPT ![c] = "reading"]
  /\ lost < MaxLost /\ lost' = lost + 1
  /\ UNCHANGED <<vars, session, screen, fresh, shown>>

\* The process dies: whoever waits for it is told it cannot be reached.
Restart ==
  /\ Crash
  /\ desk' = [c \in Clients |-> "reading"]
  /\ UNCHANGED <<session, screen, fresh, shown, lost>>

DeskNext ==
  \/ \E c \in Clients, w \in Workers :
       StartInvestigation(c, w) \/ \E kind \in Kinds \ {"create"} : Press(c, w, kind)
  \/ \E w \in Workers : Work(w) \/ Served(w) \/ Error(w)
  \/ \E c \in Clients : Answer(c) \/ Look(c) \/ Lose(c)
  \/ Restart

DeskSpec == DeskInit /\ [][DeskNext]_allVars

-----------------------------------------------------------------------------
(* Properties. *)

DeskTypeOK ==
  /\ session \in {"typed", "generated"}
  /\ desk \in [Clients -> {"reading", "served"} \cup Workers]
  /\ screen \in [Clients -> Views \cup {Blank}]
  /\ fresh \in [Clients -> BOOLEAN]
  /\ shown \in [Workers -> [draft : 0..MaxCalls, alone : BOOLEAN]]
  /\ lost \in 0..MaxLost

\* Worker w serves a decision of a client that had looked since the last call was
\* over, and no other call has come since.
Lone(w) == call[w].at = "running" /\ call[w].kind \in Decisions /\ shown[w].alone

\* Whatever was lost, raced or crashed before, a decision taken on a fresh screen and
\* alone is the one the gate receives, and it is about the draft on that screen.
DecisionsFollowTheScreen ==
  [][\A w \in Workers :
       Lone(w) /\ Decide(w) =>
         run[w].answer = call[w].kind /\ run[w].draft = shown[w].draft]_allVars

\* ... and when its call returns it has taken effect: the thread has ended as decided, with
\* a report only if accepted, or waits at the gate with the draft shown or a later one, of
\* the edited plan: an older draft never comes back.
DecisionsTakeEffect ==
  [][\A w \in Workers : Lone(w) /\ Return(w) =>
       /\ ckpt.status = StatusOf[call[w].kind]
       /\ ckpt.next = IF call[w].kind = "edit_plan" THEN "human_approval" ELSE "END"
       /\ call[w].kind = "edit_plan" => ckpt.draft >= shown[w].draft
       /\ ckpt.report => call[w].kind \in Approving]_allVars

(***************************************************************************)
(* What the documentation says and stale screens break.                    *)
(***************************************************************************)
\* docs/execution-flow.md: the client shows the approval brief and can call /approve.
ApprovedDraftWasShown ==
  \A w \in Workers :
    /\ call[w].at = "running" /\ call[w].kind = "approve"
    /\ run[w].next = "human_approval" /\ run[w].answer = "approve"
    => run[w].draft = shown[w].draft

=============================================================================
