--------------------------- MODULE AgentCallProofs ---------------------------
(***************************************************************************)
(* Proofs about AgentCall, for any numbers of callers, providers, retries   *)
(* and outages, and any choice of configured providers.                     *)
(***************************************************************************)
EXTENDS AgentCall, TLAPS

\* Every provider that is wired in has been down at some moment of c's present attempt.
AllRefused(c) == \A i \in Wired : Candidates[i] \notin call[c].steady

\* Every provider preferred to the one c asks has.
PreferredRefused(c) ==
  \A i \in Wired : i < call[c].asked => Candidates[i] \notin call[c].steady

\* What each stage of a call knows of its providers.
StageInv(c) ==
  /\ call[c].steady \subseteq up
  /\ call[c].at \in {"asking", "answered"} => call[c].asked \in Wired /\ PreferredRefused(c)
  /\ call[c].at \in {"backoff", "exhausted"} => AllRefused(c)
  /\ call[c].at = "get_agent" => call[c].attempt = 1
  /\ call[c].at = "backoff" => call[c].attempt <= MaxRetries
  /\ call[c].at = "exhausted" => call[c].attempt = MaxRetries + 1

CallInv == TypeOK /\ \A c \in Callers : StageInv(c)

-----------------------------------------------------------------------------
\* The stages that calls are moved to below are stages of a call.
LEMMA BusyStages ==
  {"asking", "backoff", "answered", "exhausted", "unconfigured", "empty"} \subseteq Busy \cup Ended
BY DEF Busy

\* What is left of a call's record when it moves to another stage,
LEMMA Moved ==
  ASSUME NEW k \in Calls, NEW to \in Busy \cup Ended, NEW r, r = [k EXCEPT !.at = to]
  PROVE  /\ r \in Calls /\ r.at = to /\ r.agent = k.agent
         /\ r.attempt = k.attempt /\ r.asked = k.asked /\ r.steady = k.steady
BY SMT DEF Calls

\* when another provider is to be asked,
LEMMA Chosen ==
  ASSUME NEW k \in Calls, NEW i \in 1..Len(Candidates), NEW r, r = [k EXCEPT !.asked = i]
  PROVE  /\ r \in Calls /\ r.at = k.at /\ r.asked = i
         /\ r.attempt = k.attempt /\ r.steady = k.steady
BY SMT DEF Calls

\* when an attempt starts with the first provider wired in,
LEMMA Started ==
  ASSUME call \in [Callers -> Calls], NEW c \in Callers, up \subseteq Providers,
         NEW from, NEW n \in 1..MaxRetries + 1, StartsAttempt(c, from, n)
  PROVE  \E i \in Wired :
           /\ IsFirst(i, Wired) /\ call' = [call EXCEPT ![c] = call'[c]]
           /\ call'[c] \in Calls /\ call'[c].at = "asking" /\ call'[c].asked = i
           /\ call'[c].attempt = n /\ call'[c].steady = up
<1> DEFINE k == call[c]
           r == call'[c]
<1>1. PICK i \in Wired : IsFirst(i, Wired) /\
           call' = [call EXCEPT ![c].at = "asking", ![c].asked = i,
                                ![c].attempt = n, ![c].steady = up]
  BY DEF StartsAttempt
<1>2. k \in Calls /\ i \in 1..Len(Candidates) /\ "asking" \in Busy \cup Ended
  BY DEF Wired, Busy
<1>3. /\ call' = [call EXCEPT ![c] = r]
      /\ r = [k EXCEPT !.at = "asking", !.asked = i, !.attempt = n, !.steady = up]
  BY <1>1
<1> HIDE DEF k, r
<1>4. /\ r \in Calls /\ r.at = "asking" /\ r.asked = i
      /\ r.attempt = n /\ r.steady = up
  <2>1. up \in SUBSET Providers
    OBVIOUS
  <2>2. QED
    BY <1>2, <1>3, <2>1, ZenonT(60) DEF Calls
<1>5. QED
  BY <1>1, <1>3, <1>4 DEF r

\* when there is nobody to ask,
LEMMA Freshened ==
  ASSUME NEW to \in Busy \cup Ended, NEW a \in Agents
  PROVE  /\ Fresh(to, a) \in Calls /\ Fresh(to, a).at = to
         /\ Fresh(to, a).attempt = 1 /\ Fresh(to, a).steady = {}
BY BoundAssumption, ProviderAssumption, SMT DEF Fresh, Calls

\* and when a provider goes down.
LEMMA Steady ==
  ASSUME NEW k \in Calls, NEW p \in Providers, NEW r, r = [k EXCEPT !.steady = @ \ {p}]
  PROVE  /\ r \in Calls /\ r.at = k.at /\ r.agent = k.agent /\ r.asked = k.asked
         /\ r.attempt = k.attempt /\ r.steady = k.steady \ {p}
BY SMT DEF Calls

USE ProviderAssumption, BoundAssumption

\* The initial state satisfies the invariant: nobody is in a call.
LEMMA InitCallInv == Init => CallInv
<1> SUFFICES ASSUME Init PROVE CallInv
  OBVIOUS
<1>1. TypeOK
  <2>1. Fresh("idle", ApprovalAgent) \in Calls
    BY Freshened DEF Ended
  <2>2. QED
    BY <2>1, SMT DEF Init, TypeOK
<1>2. \A c \in Callers : StageInv(c)
  <2> TAKE c \in Callers
  <2>1. call[c].at = "idle" /\ call[c].steady = {}
    BY DEF Init, Fresh
  <2>2. QED
    BY <2>1 DEF StageInv
<1>3. QED
  BY <1>1, <1>2 DEF CallInv

\* A step that gives c's call the value r, leaving other calls and the providers alone,
\* keeps the invariant if r does.
LEMMA OneCallChanges ==
  ASSUME CallInv, NEW c \in Callers, NEW r \in Calls,
         call' = [call EXCEPT ![c] = r],
         configured' = configured, up' = up, calls' \in 0..MaxCalls, outages' = outages,
         StageInv(c)'
  PROVE  CallInv'
<1>1. TypeOK'
  BY SMT DEF CallInv, TypeOK
<1>2. ASSUME NEW d \in Callers PROVE StageInv(d)'
  <2>1. CASE d = c
    BY <2>1
  <2>2. CASE d # c
    <3>1. call'[d] = call[d]
      BY <2>2, SMT DEF CallInv, TypeOK
    <3>2. Wired' = Wired
      BY DEF Wired
    <3>3. StageInv(d)
      BY DEF CallInv
    <3>4. QED
      BY <3>1, <3>2, <3>3, SMT DEF StageInv, PreferredRefused, AllRefused
  <2>3. QED
    BY <2>1, <2>2
<1>3. QED
  BY <1>1, <1>2 DEF CallInv

\* A call that returns has ended, one way or another.
LEMMA ReturnEnds ==
  ASSUME call \in [Callers -> Calls], NEW c \in Callers, Return(c)
  PROVE  \E to \in Ended : call' = [call EXCEPT ![c] = Fresh(to, call[c].agent)]
<1> DEFINE k == call[c]
<1>1. CASE call' = [call EXCEPT ![c] = Fresh("completed", k.agent)]
  BY <1>1 DEF Ended
<1>2. CASE /\ k.at \in {"exhausted", "unconfigured", "empty"}
           /\ call' = [call EXCEPT ![c] = Fresh(Failure(k.agent, k.at), k.agent)]
  <2>1. Failure(k.agent, k.at) \in Ended
    <3>1. CASE k.agent # ApprovalAgent
      BY <3>1 DEF Failure, Ended
    <3>2. CASE k.agent = ApprovalAgent
      BY <1>2, <3>2 DEF Failure, Ended
    <3>3. QED
      BY <3>1, <3>2
  <2>2. QED
    BY <1>2, <2>1
<1>3. QED
  BY <1>1, <1>2 DEF Return

\* Each step of each caller, and of each provider, keeps the invariant.
LEMMA NextCallInv == CallInv /\ [Next]_vars => CallInv'
<1> SUFFICES ASSUME CallInv, [Next]_vars PROVE CallInv'
  OBVIOUS
<1>1. ASSUME NEW c \in Callers, NEW a \in Agents, Begin(c, a) PROVE CallInv'
  <2> DEFINE r == Fresh("get_agent", a)
  <2>1. r \in Calls /\ r.at = "get_agent" /\ r.attempt = 1 /\ r.steady = {}
    BY Freshened DEF Busy
  <2> HIDE DEF r
  <2>2. call' = [call EXCEPT ![c] = r] /\ calls' \in 0..MaxCalls
    BY <1>1, SMT DEF Begin, CallInv, TypeOK, r
  <2>3. call'[c] = r
    BY <1>1, <2>2, SMT DEF CallInv, TypeOK
  <2>4. StageInv(c)'
    BY <2>1, <2>3, SMT DEF StageInv
  <2>5. QED
    BY <1>1, <2>1, <2>2, <2>4, OneCallChanges DEF Begin
<1>2. ASSUME NEW c \in Callers, Serve(c) PROVE CallInv'
  <2> DEFINE k == call[c]
             r == call'[c]
  <2>1. k \in Calls /\ StageInv(c) /\ call \in [Callers -> Calls]
    BY DEF CallInv, TypeOK
  <2>2. Quiet
    BY <1>2 DEF Serve, GetAgent, Answers, AnswersNone, FallsBack, Retry, Return
  <2>3. Wired' = Wired /\ Wired \subseteq 1..Len(Candidates)
    BY <2>2, SMT DEF Quiet, Wired
  <2> SUFFICES call' = [call EXCEPT ![c] = r] /\ r \in Calls /\ StageInv(c)'
    BY <2>2, OneCallChanges, SMT DEF Quiet, observed, CallInv, TypeOK
  <2>4. ASSUME NEW from, NEW n \in 1..MaxRetries + 1, StartsAttempt(c, from, n)
        PROVE  call' = [call EXCEPT ![c] = r] /\ r \in Calls /\ StageInv(c)'
    <3>1. PICK i \in Wired :
            /\ IsFirst(i, Wired) /\ call' = [call EXCEPT ![c] = r]
            /\ r \in Calls /\ r.at = "asking" /\ r.asked = i /\ r.steady = up
      BY <2>1, <2>4, Started DEF CallInv, TypeOK
    <3>2. PreferredRefused(c)'
      BY <2>3, <3>1, SMT DEF PreferredRefused, IsFirst
    <3>3. QED
      BY <2>2, <2>3, <3>1, <3>2, SMT DEF StageInv, Quiet
  <2>5. ASSUME GetAgent(c) PROVE call' = [call EXCEPT ![c] = r] /\ r \in Calls /\ StageInv(c)'
    <3>1. CASE StartsAttempt(c, "get_agent", 1)
      <4>1. 1 \in 1..MaxRetries + 1
        BY SMT
      <4>2. QED
        BY <2>4, <3>1, <4>1
    <3>2. CASE Wired = {} /\ Goes(c, "get_agent", "unconfigured")
      <4>1. call' = [call EXCEPT ![c] = r] /\ r = [k EXCEPT !.at = "unconfigured"]
        BY <2>1, <3>2 DEF Goes
      <4>2. r \in Calls /\ r.at = "unconfigured" /\ r.steady = k.steady
        BY <2>1, <4>1, Moved, BusyStages
      <4>3. QED
        BY <2>1, <2>2, <2>3, <3>2, <4>1, <4>2, SMT DEF StageInv, Quiet
    <3>3. QED
      BY <2>5, <3>1, <3>2 DEF GetAgent
  <2>6. ASSUME Answers(c) PROVE call' = [call EXCEPT ![c] = r] /\ r \in Calls /\ StageInv(c)'
    <3>1. k.at = "asking" /\ k.asked \in Wired /\ PreferredRefused(c)
      BY <2>1, <2>6, SMT DEF Answers, Goes, StageInv
    <3>2. call' = [call EXCEPT ![c] = r] /\ r = [k EXCEPT !.at = "answered"]
      BY <2>1, <2>6 DEF Answers, Goes
    <3>3. r \in Calls /\ r.at = "answered" /\ r.asked = k.asked /\ r.steady = k.steady
      BY <2>1, <3>2, Moved, BusyStages
    <3>4. PreferredRefused(c)'
      BY <2>3, <3>1, <3>3, SMT DEF PreferredRefused
    <3>5. QED
      BY <2>1, <2>2, <2>3, <3>1, <3>2, <3>3, <3>4, SMT DEF StageInv, Quiet
  <2>7. ASSUME AnswersNone(c) PROVE call' = [call EXCEPT ![c] = r] /\ r \in Calls /\ StageInv(c)'
    <3>1. call' = [call EXCEPT ![c] = r] /\ r = [k EXCEPT !.at = "empty"]
      BY <2>1, <2>7 DEF AnswersNone, Goes
    <3>2. r \in Calls /\ r.at = "empty" /\ r.steady = k.steady
      BY <2>1, <3>1, Moved, BusyStages
    <3>3. QED
      BY <2>1, <2>2, <3>1, <3>2, SMT DEF StageInv, Quiet
  <2>8. ASSUME FallsBack(c) PROVE call' = [call EXCEPT ![c] = r] /\ r \in Calls /\ StageInv(c)'
    <3> DEFINE rest == After(k.asked)
    <3>1. k.at = "asking" /\ k.asked \in Wired /\ PreferredRefused(c)
      BY <2>1, <2>8, SMT DEF FallsBack, StageInv
    <3>2. Candidates[k.asked] \notin k.steady
      BY <2>1, <2>8, SMT DEF FallsBack, StageInv
    <3>3. ASSUME NEW i \in rest, IsFirst(i, rest), call' = [call EXCEPT ![c].asked = i]
          PROVE  call' = [call EXCEPT ![c] = r] /\ r \in Calls /\ StageInv(c)'
      <4>1. i \in 1..Len(Candidates)
        BY <2>3 DEF After
      <4>2. call' = [call EXCEPT ![c] = r] /\ r = [k EXCEPT !.asked = i]
        BY <2>1, <3>3
      <4>3. r \in Calls /\ r.at = "asking" /\ r.asked = i /\ r.steady = k.steady
        BY <2>1, <3>1, <4>1, <4>2, Chosen
      <4>4. i \in Wired /\ \A j \in Wired : j < i => j <= k.asked
        <5>1. i \in Wired /\ \A j \in Wired : j > k.asked => i <= j
          BY <3>3 DEF After, IsFirst
        <5>2. k.asked \in Nat /\ i \in Nat /\ Wired \subseteq Nat
          BY <2>1, <2>3, <4>1, SMT DEF Calls
        <5>3. QED
          BY <5>1, <5>2, SMT
      <4>5. PreferredRefused(c)'
        BY <2>1, <2>3, <3>1, <3>2, <4>3, <4>4, SMT DEF PreferredRefused, Calls
      <4>6. QED
        BY <2>1, <2>2, <2>3, <4>2, <4>3, <4>4, <4>5, SMT DEF StageInv, Quiet
    <3>4. CASE rest = {} /\ Goes(c, "asking", AfterAttempt(k.attempt))
      <4>1. Goes(c, "asking", AfterAttempt(k.attempt))
        BY <3>4
      <4>2. AllRefused(c)
        BY <2>1, <2>3, <3>1, <3>2, <3>4, SMT DEF After, AllRefused, PreferredRefused, Calls
      <4>3. call' = [call EXCEPT ![c] = r] /\ r = [k EXCEPT !.at = AfterAttempt(k.attempt)]
        BY <2>1, <4>1 DEF Goes
      <4>4. /\ r \in Calls /\ r.steady = k.steady /\ r.at \in {"backoff", "exhausted"}
            /\ r.attempt = k.attempt /\ (r.at = "backoff" => r.attempt <= MaxRetries)
            /\ r.at = "exhausted" => r.attempt = MaxRetries + 1
        <5>1. AfterAttempt(k.attempt) \in {"backoff", "exhausted"}
          BY DEF AfterAttempt
        <5>2. /\ AfterAttempt(k.attempt) = "backoff" => k.attempt <= MaxRetries
              /\ AfterAttempt(k.attempt) = "exhausted" => k.attempt = MaxRetries + 1
          BY <2>1, SMT DEF AfterAttempt, Calls
        <5>3. QED
          BY <2>1, <4>3, <5>1, <5>2, Moved, BusyStages
      <4>5. AllRefused(c)'
        BY <2>3, <4>2, <4>4 DEF AllRefused
      <4>6. QED
        BY <2>1, <2>2, <4>3, <4>4, <4>5, SMT DEF StageInv, Quiet
    <3>5. QED
      BY <2>8, <3>3, <3>4 DEF FallsBack
  <2>9. ASSUME Retry(c) PROVE call' = [call EXCEPT ![c] = r] /\ r \in Calls /\ StageInv(c)'
    <3>1. k.at = "backoff" /\ k.attempt + 1 \in 1..MaxRetries + 1
      BY <2>1, <2>9, SMT DEF Retry, StartsAttempt, StageInv, Calls
    <3>2. QED
      BY <2>4, <2>9, <3>1 DEF Retry
  <2>10. ASSUME Return(c) PROVE call' = [call EXCEPT ![c] = r] /\ r \in Calls /\ StageInv(c)'
    <3>1. PICK to \in Ended : call' = [call EXCEPT ![c] = Fresh(to, k.agent)]
      BY <2>1, <2>10, ReturnEnds
    <3>2. k.agent \in Agents
      BY <2>1 DEF Calls
    <3>3. r = Fresh(to, k.agent) /\ call' = [call EXCEPT ![c] = r]
      BY <2>1, <3>1
    <3>4. r \in Calls /\ r.at \in Ended /\ r.steady = {}
      BY <3>2, <3>3, Freshened
    <3>5. r.at \notin {"get_agent", "asking", "answered", "backoff", "exhausted"}
      BY <3>4 DEF Ended
    <3>6. QED
      BY <3>3, <3>4, <3>5 DEF StageInv
  <2>11. QED
    BY <1>2, <2>5, <2>6, <2>7, <2>8, <2>9, <2>10 DEF Serve
<1>3. ASSUME NEW p \in Providers, Outage(p) PROVE CallInv'
  <2>1. TypeOK /\ Wired' = Wired
    BY <1>3, SMT DEF Outage, CallInv, Wired
  <2>2. ASSUME NEW c \in Callers
        PROVE  /\ call'[c] \in Calls /\ call'[c].steady = call[c].steady \ {p}
               /\ call'[c].at = call[c].at /\ call'[c].agent = call[c].agent
               /\ call'[c].asked = call[c].asked
               /\ call'[c].attempt = call[c].attempt
    <3>1. call'[c] = [call[c] EXCEPT !.steady = @ \ {p}]
      BY <1>3 DEF Outage
    <3>2. QED
      BY <2>1, <3>1, Steady DEF TypeOK
  <2>3. TypeOK'
    <3>1. call' \in [Callers -> Calls]
      BY <1>3, <2>2 DEF Outage
    <3>2. QED
      BY <1>3, <2>1, <3>1, SMT DEF Outage, TypeOK
  <2>4. ASSUME NEW c \in Callers PROVE StageInv(c)'
    <3>1. StageInv(c)
      BY DEF CallInv
    <3>2. QED
      BY <1>3, <2>1, <2>2, <3>1, SMT DEF Outage, StageInv, PreferredRefused, AllRefused
  <2>5. QED
    BY <2>3, <2>4 DEF CallInv
<1>4. ASSUME NEW p \in Providers, Recovery(p) PROVE CallInv'
  BY <1>4, SMT DEF Recovery, observed, CallInv, TypeOK, StageInv, PreferredRefused, AllRefused, Wired
<1>5. CASE UNCHANGED vars
  BY <1>5, SMT DEF vars, observed, CallInv, TypeOK, StageInv, PreferredRefused, AllRefused, Wired
<1>6. QED
  BY <1>1, <1>2, <1>3, <1>4, <1>5 DEF Next

\* The invariant holds in every reachable state.
LEMMA CallInvariant == Spec => []CallInv
BY InitCallInv, NextCallInv, PTL DEF Spec

-----------------------------------------------------------------------------
\* Providers and calls stay in their declared states: in particular no call makes more
\* attempts than max_retries + 1 (with_retry in llm_factory.py).
THEOREM TypeCorrect == Spec => []TypeOK
<1>1. CallInv => TypeOK
  BY DEF CallInv
<1>2. QED
  BY <1>1, CallInvariant, PTL

\* No call that a provider could have answered is lost: an attempt of build_structured_llm()
\* fails only when each wired-in provider has been down during it, and a call only with its
\* max_retries + 1 attempts.
THEOREM SteadyProviderIsUsed == Spec => []SteadyProviderSuffices
<1>1. CallInv => SteadyProviderSuffices
  BY SMT DEF CallInv, StageInv, AllRefused, SteadyProviderSuffices
<1>2. QED
  BY <1>1, CallInvariant, PTL

\* The order of the settings is the order of preference, in every attempt of every call.
THEOREM PreferenceHolds == Spec => []PreferenceIsKept
<1>1. CallInv => PreferenceIsKept
  BY SMT DEF CallInv, StageInv, PreferredRefused, PreferenceIsKept
<1>2. QED
  BY <1>1, CallInvariant, PTL

-----------------------------------------------------------------------------
\* Products of numbers of attempts and their length.
LEMMA Multiples ==
  ASSUME NEW n \in Nat, NEW m \in Nat, n <= m, NEW l \in Nat
  PROVE  n * l \in Nat /\ (n + 1) * l = n * l + l /\ n * l <= m * l
<1>1. PICK d \in Nat : m = n + d
  <2>1. m - n \in Nat /\ m = n + (m - n)
    BY SMT
  <2>2. QED
    BY <2>1
<1>2. d * l \in Nat /\ (n + d) * l = n * l + d * l /\ n * l \in Nat
  BY SMT
<1>3. (n + 1) * l = n * l + l
  BY SMT
<1>4. QED
  BY <1>1, <1>2, <1>3, SMT

\* What is left of a call, stage by stage, given the length of the attempts to come.
LEMMA StepsAre ==
  ASSUME NEW k \in Calls, NEW P, P = AttemptsAfter(k) * AttemptLength
  PROVE  /\ P \in Nat /\ P + AttemptLength <= (MaxRetries + 1) * AttemptLength
         /\ (MaxRetries + 1) * AttemptLength \in Nat
         /\ k.attempt <= MaxRetries => P >= AttemptLength
         /\ k.at = "get_agent" => StepsOf(k) = P + AttemptLength + 1
         /\ k.at = "asking" => StepsOf(k) = P + (Len(Candidates) - k.asked) + 2
         /\ k.at = "backoff" => StepsOf(k) = P + 1
         /\ k.at \in {"answered", "exhausted", "unconfigured", "empty"} => StepsOf(k) = 1
         /\ k.at \in Ended => StepsOf(k) = 0
<1> DEFINE A == AttemptsAfter(k)
           l == AttemptLength
<1>1. A \in Nat /\ A <= MaxRetries /\ l \in Nat
  BY SMT DEF AttemptsAfter, AttemptLength, Calls
<1>2. P \in Nat /\ (A + 1) * l = P + l
  BY <1>1, Multiples
<1>3. (A + 1) * l <= (MaxRetries + 1) * l /\ (MaxRetries + 1) * l \in Nat
  <2>1. A + 1 \in Nat /\ MaxRetries + 1 \in Nat /\ A + 1 <= MaxRetries + 1
    BY <1>1, SMT
  <2>2. QED
    BY <1>1, <2>1, Multiples
<1>4. ASSUME k.attempt <= MaxRetries PROVE P >= l
  <2>1. 1 \in Nat /\ 1 <= A /\ 1 * l = l
    BY <1>1, <1>4, SMT DEF AttemptsAfter, Calls
  <2>2. 1 * l <= A * l
    BY <1>1, <2>1, Multiples
  <2>3. QED
    BY <1>1, <1>2, <2>1, <2>2, SMT
<1>5. /\ k.at = "get_agent" => StepsOf(k) = (A + 1) * l + 1
      /\ k.at = "asking" => StepsOf(k) = P + (Len(Candidates) - k.asked) + 2
      /\ k.at = "backoff" => StepsOf(k) = P + 1
      /\ k.at \in {"answered", "exhausted", "unconfigured", "empty"} => StepsOf(k) = 1
      /\ k.at \in Ended => StepsOf(k) = 0
  BY DEF StepsOf, Ended
<1>6. QED
  BY <1>2, <1>3, <1>4, <1>5

\* A call has steps left exactly as long as it is under way, and never more than all of
\* its attempts take.
LEMMA StepsBounded ==
  ASSUME NEW k \in Calls
  PROVE  /\ StepsOf(k) \in 0..(MaxRetries + 1) * AttemptLength + 1
         /\ k.at \in Busy <=> StepsOf(k) > 0
<1> DEFINE P == AttemptsAfter(k) * AttemptLength
           top == (MaxRetries + 1) * AttemptLength
<1>1. k.at \in Busy \cup Ended /\ k.asked \in 1..Len(Candidates) /\ Len(Candidates) \in Nat
  BY DEF Calls
<1>2. Busy \cap Ended = {}
  BY DEF Busy, Ended
<1>3. AttemptLength = Len(Candidates) + 1
  BY DEF AttemptLength
<1>4. P \in Nat /\ top \in Nat /\ P + AttemptLength <= top
  BY StepsAre
<1>5. CASE k.at \in Ended
  <2>1. StepsOf(k) = 0
    BY <1>5, StepsAre
  <2>2. QED
    BY <1>2, <1>4, <1>5, <2>1, SMT
<1>6. CASE k.at \in Busy
  <2>1. \/ StepsOf(k) = P + AttemptLength + 1
        \/ StepsOf(k) = P + (Len(Candidates) - k.asked) + 2
        \/ StepsOf(k) = P + 1 \/ StepsOf(k) = 1
    BY <1>6, StepsAre DEF Busy
  <2> HIDE DEF P, top
  <2>2. StepsOf(k) \in 0..top + 1 /\ StepsOf(k) > 0
    BY <1>1, <1>3, <1>4, <2>1, SMT
  <2>3. QED
    BY <1>6, <2>2 DEF top
<1>7. QED
  BY <1>1, <1>5, <1>6

\* A call that goes on to a later candidate, or to a later attempt, or to its end has less
\* left than before.
LEMMA StepsDrop ==
  ASSUME NEW k \in Calls, NEW r \in Calls,
         \/ /\ k.at = "get_agent" /\ r.at = "asking" /\ r.attempt = k.attempt
         \/ /\ k.at = "asking" /\ r.at = "asking" /\ r.attempt = k.attempt
            /\ r.asked > k.asked
         \/ /\ k.at = "asking" /\ r.at = "backoff" /\ r.attempt = k.attempt
         \/ /\ k.at = "backoff" /\ r.at = "asking" /\ r.attempt = k.attempt + 1
         \/ /\ k.at \in {"get_agent", "asking"}
            /\ r.at \in {"answered", "exhausted", "unconfigured", "empty"}
         \/ k.at \in Busy /\ r.at \in Ended
  PROVE  StepsOf(r) < StepsOf(k)
<1> DEFINE P == AttemptsAfter(k) * AttemptLength
           Q == AttemptsAfter(r) * AttemptLength
<1>1. /\ k.asked \in 1..Len(Candidates) /\ r.asked \in 1..Len(Candidates)
      /\ Len(Candidates) \in Nat /\ AttemptLength = Len(Candidates) + 1
  BY DEF Calls, AttemptLength
<1>2. P \in Nat /\ Q \in Nat
  BY StepsAre
<1>3. r.attempt = k.attempt => Q = P
  BY DEF AttemptsAfter
<1>4. r.attempt = k.attempt + 1 => P = Q + AttemptLength
  <2> SUFFICES ASSUME r.attempt = k.attempt + 1 PROVE P = Q + AttemptLength
    OBVIOUS
  <2>1. /\ AttemptsAfter(r) \in Nat /\ AttemptsAfter(k) = AttemptsAfter(r) + 1
        /\ AttemptLength \in Nat
    BY SMT DEF AttemptsAfter, AttemptLength, Calls
  <2>2. (AttemptsAfter(r) + 1) * AttemptLength = Q + AttemptLength
    BY <2>1, Multiples
  <2>3. QED
    BY <2>1, <2>2
<1>5. CASE k.at \in Busy /\ r.at \in Ended
  BY <1>5, StepsBounded, StepsAre, SMT
<1>6. CASE /\ k.at \in {"get_agent", "asking"}
           /\ r.at \in {"answered", "exhausted", "unconfigured", "empty"}
  <2>1. StepsOf(r) = 1
    BY <1>6, StepsAre
  <2>2. \/ StepsOf(k) = P + AttemptLength + 1
        \/ StepsOf(k) = P + (Len(Candidates) - k.asked) + 2
    BY <1>6, StepsAre
  <2> HIDE DEF P
  <2>3. QED
    BY <1>1, <1>2, <2>1, <2>2, SMT
<1>7. CASE \/ /\ k.at = "get_agent" /\ r.at = "asking" /\ r.attempt = k.attempt
           \/ /\ k.at = "asking" /\ r.at = "asking" /\ r.attempt = k.attempt
              /\ r.asked > k.asked
           \/ /\ k.at = "asking" /\ r.at = "backoff" /\ r.attempt = k.attempt
           \/ /\ k.at = "backoff" /\ r.at = "asking" /\ r.attempt = k.attempt + 1
  <2>1. /\ k.at = "get_agent" => StepsOf(k) = P + AttemptLength + 1
        /\ k.at = "asking" => StepsOf(k) = P + (Len(Candidates) - k.asked) + 2
        /\ k.at = "backoff" => StepsOf(k) = P + 1
    BY StepsAre
  <2>2. /\ r.at = "asking" => StepsOf(r) = Q + (Len(Candidates) - r.asked) + 2
        /\ r.at = "backoff" => StepsOf(r) = Q + 1
    BY StepsAre
  <2> HIDE DEF P, Q
  <2>3. QED
    BY <1>1, <1>2, <1>3, <1>4, <1>7, <2>1, <2>2, SMT
<1>8. QED
  BY <1>5, <1>6, <1>7

\* A step of a call changes that call alone, and brings it nearer to its end.
LEMMA ServeDrops ==
  ASSUME CallInv, NEW c \in Callers, Serve(c)
  PROVE  /\ call' = [call EXCEPT ![c] = call'[c]]
         /\ StepsOf(call'[c]) < StepsOf(call[c])
<1> DEFINE k == call[c]
           r == call'[c]
           Goal == call' = [call EXCEPT ![c] = r] /\ StepsOf(r) < StepsOf(k)
<1>1. k \in Calls /\ StageInv(c) /\ call \in [Callers -> Calls]
  BY DEF CallInv, TypeOK
<1>2. Wired \subseteq 1..Len(Candidates)
  BY DEF Wired
<1>3. ASSUME NEW from, NEW to \in Busy \cup Ended, Goes(c, from, to)
      PROVE  /\ k.at = from /\ call' = [call EXCEPT ![c] = r]
             /\ r \in Calls /\ r.at = to /\ r.attempt = k.attempt
  <2>1. k.at = from /\ call' = [call EXCEPT ![c] = r] /\ r = [k EXCEPT !.at = to]
    BY <1>1, <1>3 DEF Goes
  <2>2. QED
    BY <1>1, <2>1, Moved
<1>4. CASE GetAgent(c)
  <2>1. CASE StartsAttempt(c, "get_agent", 1)
    <3>1. 1 \in 1..MaxRetries + 1
      BY SMT
    <3>2. k.at = "get_agent" /\ k.attempt = 1
      BY <1>1, <2>1 DEF StartsAttempt, StageInv
    <3>3. /\ call' = [call EXCEPT ![c] = r] /\ r \in Calls
          /\ r.at = "asking" /\ r.attempt = 1
      BY <1>1, <2>1, <3>1, Started DEF CallInv, TypeOK
    <3>4. QED
      BY <1>1, <3>2, <3>3, StepsDrop
  <2>2. CASE Goes(c, "get_agent", "unconfigured")
    <3>1. /\ k.at = "get_agent" /\ call' = [call EXCEPT ![c] = r]
          /\ r \in Calls /\ r.at = "unconfigured"
      BY <1>3, <2>2, BusyStages
    <3>2. QED
      BY <1>1, <3>1, StepsDrop
  <2>3. QED
    BY <1>4, <2>1, <2>2 DEF GetAgent
<1>5. CASE Answers(c)
  <2>1. /\ k.at = "asking" /\ call' = [call EXCEPT ![c] = r]
        /\ r \in Calls /\ r.at = "answered"
    BY <1>3, <1>5, BusyStages DEF Answers
  <2>2. QED
    BY <1>1, <2>1, StepsDrop
<1>6. CASE AnswersNone(c)
  <2>1. /\ k.at = "asking" /\ call' = [call EXCEPT ![c] = r]
        /\ r \in Calls /\ r.at = "empty"
    BY <1>3, <1>6, BusyStages DEF AnswersNone
  <2>2. QED
    BY <1>1, <2>1, StepsDrop
<1>7. CASE FallsBack(c)
  <2>1. ASSUME NEW i \in After(k.asked), call' = [call EXCEPT ![c].asked = i] PROVE Goal
    <3>1. i \in 1..Len(Candidates) /\ i > k.asked
      BY <1>2, <2>1 DEF After
    <3>2. call' = [call EXCEPT ![c] = r] /\ r = [k EXCEPT !.asked = i]
      BY <1>1, <2>1
    <3>3. /\ r \in Calls /\ k.at = "asking" /\ r.at = "asking"
          /\ r.attempt = k.attempt /\ r.asked > k.asked
      BY <1>1, <1>7, <3>1, <3>2, Chosen DEF FallsBack
    <3>4. QED
      BY <1>1, <3>2, <3>3, StepsDrop
  <2>2. CASE Goes(c, "asking", AfterAttempt(k.attempt))
    <3>1. AfterAttempt(k.attempt) \in {"backoff", "exhausted"}
      BY DEF AfterAttempt
    <3>2. /\ k.at = "asking" /\ call' = [call EXCEPT ![c] = r] /\ r \in Calls
          /\ r.at \in {"backoff", "exhausted"} /\ r.attempt = k.attempt
      BY <1>3, <2>2, <3>1, BusyStages
    <3>3. QED
      BY <1>1, <3>2, StepsDrop
  <2>3. QED
    BY <1>7, <2>1, <2>2 DEF FallsBack
<1>8. CASE Retry(c)
  <2>1. k.at = "backoff" /\ k.attempt + 1 \in 1..MaxRetries + 1
    BY <1>1, <1>8, SMT DEF Retry, StartsAttempt, StageInv, Calls
  <2>2. /\ call' = [call EXCEPT ![c] = r] /\ r \in Calls
        /\ r.at = "asking" /\ r.attempt = k.attempt + 1
    <3>1. StartsAttempt(c, "backoff", k.attempt + 1) /\ up \subseteq Providers
      BY <1>8 DEF Retry, CallInv, TypeOK
    <3>2. QED
      BY <1>1, <2>1, <3>1, Started
  <2>3. QED
    BY <1>1, <2>1, <2>2, StepsDrop
<1>9. CASE Return(c)
  <2>1. PICK to \in Ended : call' = [call EXCEPT ![c] = Fresh(to, k.agent)]
    BY <1>1, <1>9, ReturnEnds
  <2>2. k.agent \in Agents
    BY <1>1 DEF Calls
  <2>3. r = Fresh(to, k.agent) /\ call' = [call EXCEPT ![c] = r]
    BY <1>1, <2>1
  <2>4. k.at \in Busy /\ r \in Calls /\ r.at \in Ended
    <3>1. k.at \in {"answered", "exhausted", "unconfigured", "empty"}
      BY <1>9 DEF Return
    <3>2. to \in Busy \cup Ended
      OBVIOUS
    <3>3. Fresh(to, k.agent) \in Calls /\ Fresh(to, k.agent).at = to
      BY <2>2, <3>2, Freshened
    <3>4. r \in Calls /\ r.at = to
      BY <2>3, <3>3
    <3>5. k.at \in Busy
      BY <3>1 DEF Busy
    <3>6. QED
      BY <3>4, <3>5
  <2>5. QED
    BY <1>1, <2>3, <2>4, StepsDrop
<1>10. QED
  BY <1>4, <1>5, <1>6, <1>7, <1>8, <1>9 DEF Serve

\* A call gets nearer to its end with each of its own steps, and no further from it by the
\* steps of other calls, by outages or by recoveries.
LEMMA NoStepGivesMore ==
  ASSUME CallInv, [Next]_vars, NEW d \in Callers, call[d].at \in Busy
  PROVE  StepsLeft(d)' <= StepsLeft(d)
<1> DEFINE Same == call'[d] = call[d]
<1>1. call \in [Callers -> Calls] /\ call[d] \in Calls /\ StepsOf(call[d]) \in Nat
  BY StepsBounded, SMT DEF CallInv, TypeOK
<1>2. Same => StepsLeft(d)' <= StepsLeft(d)
  BY <1>1, SMT DEF StepsLeft
<1>3. ASSUME NEW c \in Callers, NEW a \in Agents, Begin(c, a) PROVE Same
  <2>1. c # d
    BY <1>3 DEF Begin, Busy, Ended
  <2>2. QED
    BY <1>1, <1>3, <2>1 DEF Begin
<1>4. ASSUME NEW c \in Callers, Serve(c) PROVE StepsLeft(d)' <= StepsLeft(d)
  <2>1. call' = [call EXCEPT ![c] = call'[c]] /\ StepsOf(call'[c]) < StepsOf(call[c])
    BY <1>4, ServeDrops
  <2>2. CASE c = d
    <3>1. call'[d] \in Calls
      BY NextCallInv DEF CallInv, TypeOK
    <3>2. StepsOf(call'[d]) \in Nat
      BY <3>1, StepsBounded, SMT
    <3>3. QED
      BY <1>1, <2>1, <2>2, <3>2, SMT DEF StepsLeft
  <2>3. CASE c # d
    BY <1>1, <1>2, <2>1, <2>3
  <2>4. QED
    BY <2>2, <2>3
<1>5. ASSUME NEW p \in Providers, Outage(p) PROVE StepsLeft(d)' <= StepsLeft(d)
  <2>1. call'[d] = [call[d] EXCEPT !.steady = @ \ {p}]
    BY <1>5 DEF Outage
  <2>2. /\ call'[d].at = call[d].at /\ call'[d].asked = call[d].asked
        /\ call'[d].attempt = call[d].attempt
    BY <1>1, <2>1, Steady
  <2>3. StepsOf(call'[d]) = StepsOf(call[d])
    BY <2>2 DEF StepsOf, AttemptsAfter
  <2>4. QED
    BY <1>1, <2>3, SMT DEF StepsLeft
<1>6. ASSUME NEW p \in Providers, Recovery(p) PROVE Same
  BY <1>6 DEF Recovery
<1>7. CASE UNCHANGED vars
  BY <1>2, <1>7 DEF vars
<1>8. QED
  BY <1>2, <1>3, <1>4, <1>5, <1>6, <1>7 DEF Next

\* A call ends: build_structured_llm() asks each provider at most once in each of its
\* max_retries + 1 attempts, whatever the providers do meanwhile.  With the fairness of
\* FairSpec, which no prover here can reason about, that is NodesGoOn.
THEOREM CallsEnd == Spec => CallsAreShort
<1> DEFINE Bounded ==
             \A c \in Callers :
               /\ StepsLeft(c) \in 0..(MaxRetries + 1) * AttemptLength + 1
               /\ call[c].at \in Busy <=> StepsLeft(c) > 0
           Drops ==
             \A c \in Callers :
               /\ Serve(c) => StepsLeft(c)' < StepsLeft(c)
               /\ call[c].at \in Busy => StepsLeft(c)' <= StepsLeft(c)
<1>1. CallInv => Bounded
  BY StepsBounded DEF CallInv, TypeOK, StepsLeft
<1>2. CallInv /\ [Next]_vars => [Drops]_vars
  BY ServeDrops, NoStepGivesMore DEF StepsLeft
<1>3. QED
  BY <1>1, <1>2, CallInvariant, PTL DEF Spec, CallsAreShort

=============================================================================
