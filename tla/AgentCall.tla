------------------------------ MODULE AgentCall ------------------------------
(***************************************************************************)
(* How nodes call their agents: the agent's chain of provider fallbacks    *)
(* inside a retry (services/llm_factory.py), the one error it raises       *)
(* (agents/base.py), and what becomes of that error in an ordinary node    *)
(* (nodes/node_runner.py) and in human_approval.                           *)
(*                                                                         *)
(* Nodes of several threads and branches call at once, while providers go  *)
(* down and come back.  A provider is up when it would return a valid      *)
(* instance of the agent's schema.  Otherwise it raises -- an API error, a *)
(* timeout or an answer that fails validation, the same to the chain -- or *)
(* returns None, which with_structured_output() does for a reply that      *)
(* holds no instance at all and which the chain takes for an answer.       *)
(***************************************************************************)
EXTENDS Naturals, Sequences

CONSTANTS
  Callers,       \* threads that execute nodes
  Agents,        \* classes of agents
  ApprovalAgent, \* the one that human_approval asks for its brief
  Providers,
  Candidates,    \* the primary provider, then the fallbacks, in order
  MaxRetries,    \* settings.llm.max_retries
  MaxCalls,      \* bound: calls accepted
  MaxOutages     \* bound: providers going down

\* The settings' validator keeps the primary out of the fallbacks.
ASSUME ProviderAssumption ==
  /\ Candidates \in Seq(Providers) /\ Len(Candidates) > 0
  /\ \A i \in 2..Len(Candidates) : Candidates[i] # Candidates[1]
ASSUME BoundAssumption ==
  /\ MaxRetries \in Nat /\ MaxCalls \in Nat /\ MaxOutages \in Nat
  /\ ApprovalAgent \in Agents

VARIABLES
  configured, \* the providers with credentials, read once with the settings
  up,         \* the providers that would answer now
  call,       \* each caller's present, or last, call
  calls,      \* observer: calls so far
  outages     \* observer: outages so far

observed == <<calls, outages>>
vars     == <<configured, up, call, observed>>

-----------------------------------------------------------------------------
Busy  == {"get_agent", "asking", "backoff", "answered", "exhausted", "unconfigured", "empty"}
Ended == {"idle", "completed", "error_entry", "plain_brief", "raised", "no_brief"}
Calls == [at : Busy \cup Ended, agent : Agents, attempt : 1..MaxRetries + 1,
          asked : 1..Len(Candidates), steady : SUBSET Providers]

\* The positions of the providers that are wired in.
Wired == {i \in 1..Len(Candidates) : Candidates[i] \in configured}

IsFirst(i, S) == i \in S /\ \A j \in S : i <= j

\* primary.with_fallbacks(fallbacks): the providers left to ask once the i-th has failed.
After(i) == {j \in Wired : j > i}

\* Mutant: max_retries + 1 retries in place of max_retries.
AfterAttemptOnceMore(attempt) == IF attempt <= MaxRetries + 1 THEN "backoff" ELSE "exhausted"

\* Mutant: the chain of fallbacks is not wrapped in with_retry().
AfterAttemptNoRetry(attempt) == "exhausted"

\* with_retry(stop_after_attempt = max_retries + 1), around the fallbacks.
AfterAttempt(attempt) == IF attempt <= MaxRetries THEN "backoff" ELSE "exhausted"

\* A call that has asked nobody yet, or no longer has anybody to ask.
Fresh(at, a) == [at |-> at, agent |-> a, attempt |-> 1, asked |-> 1, steady |-> {}]

Init ==
  /\ configured \in SUBSET Providers /\ up = Providers
  /\ call = [c \in Callers |-> Fresh("idle", ApprovalAgent)]
  /\ calls = 0 /\ outages = 0

Goes(c, from, to) == call[c].at = from /\ call' = [call EXCEPT ![c].at = to]
Quiet == UNCHANGED <<configured, up, observed>>

\* A node asks for its agent.
Begin(c, a) ==
  /\ call[c].at \in Ended /\ calls < MaxCalls
  /\ call' = [call EXCEPT ![c] = Fresh("get_agent", a)]
  /\ calls' = calls + 1
  /\ UNCHANGED <<configured, up, outages>>

\* An attempt runs the chain from the primary on.  steady observes the providers that have
\* been up ever since.
StartsAttempt(c, from, attempt) ==
  /\ call[c].at = from
  /\ \E i \in Wired : IsFirst(i, Wired) /\
       call' = [call EXCEPT ![c].at = "asking", ![c].asked = i,
                            ![c].attempt = attempt, ![c].steady = up]

\* get_agent() builds the agent unless an earlier call has, which makes no difference to
\* the chain; without a configured provider build_structured_llm() raises each time.
GetAgent(c) ==
  /\ \/ Wired # {} /\ StartsAttempt(c, "get_agent", 1)
     \/ Wired = {} /\ Goes(c, "get_agent", "unconfigured")
  /\ Quiet

Answers(c) ==
  /\ Candidates[call[c].asked] \in up
  /\ Goes(c, "asking", "answered") /\ Quiet

\* A provider raises and the next one is asked; after the last the attempt has failed.
FallsBack(c) ==
  LET rest == After(call[c].asked)
  IN /\ call[c].at = "asking" /\ Candidates[call[c].asked] \notin up
     /\ \/ \E i \in rest : IsFirst(i, rest) /\ call' = [call EXCEPT ![c].asked = i]
        \/ rest = {} /\ Goes(c, "asking", AfterAttempt(call[c].attempt))
     /\ Quiet

\* A provider returns None.
AnswersNone(c) ==
  /\ Candidates[call[c].asked] \notin up
  /\ Goes(c, "asking", "empty") /\ Quiet

\* Mutant: a new attempt goes on where the last one stopped.
RetryTheLast(c) ==
  /\ call[c].at = "backoff"
  /\ call' = [call EXCEPT ![c].at = "asking", ![c].attempt = @ + 1, ![c].steady = up]
  /\ Quiet

\* The next attempt is of the whole chain.
Retry(c) == StartsAttempt(c, "backoff", call[c].attempt + 1) /\ Quiet

\* Mutant: _build_approval_brief lets AgentExecutionError out as well.
FailureEscapes(a, why) == IF a = ApprovalAgent THEN "raised" ELSE "error_entry"

\* run_node() turns every exception into an entry of errors, the one of a node that finds
\* None for its result included; human_approval_node is not under run_node(), catches
\* AgentExecutionError only, and dumps its brief outside of the try.
Failure(a, why) ==
  CASE a # ApprovalAgent                            -> "error_entry"
    [] a = ApprovalAgent /\ why = "exhausted"       -> "plain_brief"
    [] a = ApprovalAgent /\ why = "unconfigured"    -> "raised"
    [] a = ApprovalAgent /\ why = "empty"           -> "no_brief"

Return(c) ==
  LET k == call[c]
  IN /\ \/ k.at = "answered" /\ call' = [call EXCEPT ![c] = Fresh("completed", k.agent)]
        \/ /\ k.at \in {"exhausted", "unconfigured", "empty"}
           /\ call' = [call EXCEPT ![c] = Fresh(Failure(k.agent, k.at), k.agent)]
     /\ Quiet

\* Providers go down and recover whenever they like.
Outage(p) ==
  /\ p \in up /\ outages < MaxOutages
  /\ up' = up \ {p} /\ outages' = outages + 1
  /\ call' = [c \in Callers |-> [call[c] EXCEPT !.steady = @ \ {p}]]
  /\ UNCHANGED <<configured, calls>>

Recovery(p) ==
  /\ p \notin up /\ up' = up \cup {p}
  /\ UNCHANGED <<configured, call, observed>>

Serve(c) ==
  GetAgent(c) \/ Answers(c) \/ AnswersNone(c) \/ FallsBack(c) \/ Retry(c) \/ Return(c)

Next ==
  \/ \E c \in Callers : Serve(c) \/ (\E a \in Agents : Begin(c, a))
  \/ \E p \in Providers : Outage(p) \/ Recovery(p)

Spec == Init /\ [][Next]_vars

\* A caller's thread keeps running: every request has a timeout, every wait an end.
FairSpec == Spec /\ \A c \in Callers : WF_vars(Serve(c))

-----------------------------------------------------------------------------
(* How far a call is from its end. *)

\* The attempts that follow the present one.
AttemptsAfter(k) == MaxRetries + 1 - k.attempt

\* A whole attempt: each candidate asked, and the wait before the next one.
AttemptLength == Len(Candidates) + 1

\* The steps that a call in stage k may still take, at most.
StepsOf(k) ==
  CASE k.at = "get_agent" -> (AttemptsAfter(k) + 1) * AttemptLength + 1
    [] k.at = "asking"    -> AttemptsAfter(k) * AttemptLength + (Len(Candidates) - k.asked) + 2
    [] k.at = "backoff"   -> AttemptsAfter(k) * AttemptLength + 1
    [] k.at \in {"answered", "exhausted", "unconfigured", "empty"} -> 1
    [] OTHER              -> 0

StepsLeft(c) == StepsOf(call[c])

-----------------------------------------------------------------------------
(* Properties. *)

TypeOK ==
  /\ configured \subseteq Providers /\ up \subseteq Providers
  /\ call \in [Callers -> Calls]
  /\ calls \in 0..MaxCalls /\ outages \in 0..MaxOutages

\* The chain and its retry lose no call that some provider could have answered.  An attempt
\* that has failed has found each wired-in provider down at some moment of that attempt, so
\* one that recovers for good before the last attempt answers it; and a call gives up after
\* max_retries + 1 such attempts only.
SteadyProviderSuffices ==
  \A c \in Callers : call[c].at \in {"backoff", "exhausted"} =>
    /\ \A i \in Wired : Candidates[i] \notin call[c].steady
    /\ call[c].at = "exhausted" => call[c].attempt = MaxRetries + 1

\* A less preferred provider is only asked, and only answers, when every one before it has
\* been down during this very attempt: what the attempts before it and the calls of other
\* nodes met does not count.
PreferenceIsKept ==
  \A c \in Callers : call[c].at \in {"asking", "answered"} =>
    \A i \in Wired : i < call[c].asked => Candidates[i] \notin call[c].steady

\* Whatever the providers do, a node that has called its agent goes on: with its answer,
\* with an error entry, or, at the human gate, with a plain brief.  An exception only leaves
\* the graph from the gate, when no provider is wired in or its brief is None.
NodesGoOn ==
  \A c \in Callers :
    call[c].at \in Busy ~>
      \/ call[c].at \in {"completed", "error_entry", "plain_brief"}
      \/ /\ call[c].agent = ApprovalAgent
         /\ call[c].at = "no_brief" \/ (call[c].at = "raised" /\ Wired = {})

\* What NodesGoOn rests on: whatever the providers do meanwhile, a call asks each candidate
\* at most once in each of its attempts.  Its own steps use up what is left of it, and
\* neither providers nor other calls give it any more.
CallsAreShort ==
  /\ []\A c \in Callers :
        /\ StepsLeft(c) \in 0..(MaxRetries + 1) * AttemptLength + 1
        /\ call[c].at \in Busy <=> StepsLeft(c) > 0
  /\ [][\A c \in Callers :
           /\ Serve(c) => StepsLeft(c)' < StepsLeft(c)
           /\ call[c].at \in Busy => StepsLeft(c)' <= StepsLeft(c)]_vars

=============================================================================
