--------------------------- MODULE PythonReplProofs ---------------------------
(***************************************************************************)
(* Proofs about PythonRepl, for any number of calls, prints and abandoned  *)
(* snippets.  LoneCallsAreExact is not inductive: that a lone call's buffer*)
(* takes in nothing foreign needs that sys.stdout is that buffer only while*)
(* its snippet is inside, and that no other snippet will ever put it back. *)
(***************************************************************************)
EXTENDS PythonRepl, TLAPS

-----------------------------------------------------------------------------
(* Types.                                                                  *)

\* TypeOK is inductive as it stands.
THEOREM TypeCorrect == Spec => []TypeOK
<1>1. Init => TypeOK
  <2> SUFFICES ASSUME Init PROVE TypeOK
    OBVIOUS
  <2>1. Nothing \in Counts
    BY SMT DEF Nothing, Counts
  <2> QED
    BY <2>1, SMT DEF Init, TypeOK, Streams
<1>2. TypeOK /\ [Next]_vars => TypeOK'
  <2> SUFFICES ASSUME TypeOK, [Next]_vars PROVE TypeOK'
    OBVIOUS
  <2>1. CASE UNCHANGED vars
    BY <2>1 DEF TypeOK, vars
  <2>2. ASSUME NEW c \in Calls, Refuse(c) PROVE TypeOK'
    BY <2>2, SMT DEF TypeOK, Refuse, Answered
  <2>3. ASSUME NEW c \in Calls, Start(c) PROVE TypeOK'
    BY <2>3, SMT DEF TypeOK, Start, Answered
  <2>4. ASSUME NEW c \in Calls, Enter(c) PROVE TypeOK'
    <3>1. disturbed' \in [Calls -> BOOLEAN]
      BY <2>4 DEF TypeOK, Enter
    <3>2. stdout' \in Streams /\ saved' \in [Calls -> Streams]
      BY <2>4, SMT DEF TypeOK, Enter, Streams
    <3>3. snippet' \in [Calls -> {"none", "started", "inside", "ended"}]
      BY <2>4, SMT DEF TypeOK, Enter
    <3> QED
      BY <2>4, <3>1, <3>2, <3>3 DEF TypeOK, Enter
  <2>5. ASSUME NEW c \in Calls, PrintUnit(c) PROVE TypeOK'
    <3>1. printed' \in Counts
      BY <2>5, SMT DEF TypeOK, PrintUnit, Counts
    <3>2. ASSUME NEW d \in Calls PROVE [buffer[d] EXCEPT ![c] = @ + 1] \in Counts
      <4>1. buffer[d] \in Counts
        BY DEF TypeOK
      <4> QED
        BY <4>1, SMT DEF Counts
    <3>3. buffer' \in [Calls -> Counts]
      BY <2>5, <3>2, SMT DEF TypeOK, PrintUnit
    <3> QED
      BY <2>5, <3>1, <3>3 DEF TypeOK, PrintUnit
  <2>6. ASSUME NEW c \in Calls, Exit(c) PROVE TypeOK'
    <3>1. stdout' \in Streams /\ snippet' \in [Calls -> {"none", "started", "inside", "ended"}]
      BY <2>6, SMT DEF TypeOK, Exit
    <3>2. raised' \in [Calls -> BOOLEAN]
      BY <2>6, SMT DEF TypeOK, Exit
    <3> QED
      BY <2>6, <3>1, <3>2 DEF TypeOK, Exit
  <2>7. ASSUME NEW c \in Calls, Join(c) PROVE TypeOK'
    <3>1. Nothing \in Counts /\ buffer[c] \in Counts
      BY SMT DEF Nothing, Counts, TypeOK
    <3>2. caller' \in [Calls -> {"idle", "joining"} \cup Answered]
      BY <2>7, SMT DEF TypeOK, Join, Answered
    <3>3. answer' \in [Calls -> Counts]
      BY <2>7, <3>1, SMT DEF TypeOK, Join
    <3> QED
      BY <2>7, <3>2, <3>3 DEF TypeOK, Join
  <2>8. ASSUME NEW c \in Calls, GiveUp(c) PROVE TypeOK'
    BY <2>8, SMT DEF TypeOK, GiveUp, Answered
  <2> QED
    BY <2>1, <2>2, <2>3, <2>4, <2>5, <2>6, <2>7, <2>8 DEF Next, Await
<1> QED
  BY <1>1, <1>2, PTL DEF Spec

-----------------------------------------------------------------------------
(* Redirections.                                                           *)

Own(c) == [d \in Calls |-> IF d = c THEN printed[c] ELSE 0]

\* A call whose redirection is undisturbed so far: while its snippet is inside it is the
\* only one, and prints to its own buffer; before and after, nobody prints there, now or
\* when some other redirection ends.
LoneIsAlone ==
  \A c \in Calls : ~disturbed[c] =>
    /\ Inside(c) => stdout = c /\ \A d \in Calls : Inside(d) => d = c
    /\ stdout = c => Inside(c)
    /\ \A e \in Calls : saved[e] # c

\* Its buffer is its own output, and so was its answer.
LoneIsExact ==
  \A c \in Calls : ~disturbed[c] =>
    /\ buffer[c] = Own(c)
    /\ caller[c] = "success" => answer[c] = Own(c)

\* A snippet begins after its call and ends before its answer.
InItsCall == \A c \in Calls : /\ caller[c] = "idle" => snippet[c] = "none"
                              /\ caller[c] = "success" => snippet[c] = "ended"

\* Without any overlap so far, redirections nest in nothing but the console.
NobodyDisturbed == \A c \in Calls : ~disturbed[c]
ConsoleComesBack ==
  NobodyDisturbed =>
    /\ \A c \in Calls : Inside(c) => saved[c] = Console
    /\ (\A c \in Calls : ~Inside(c)) => stdout = Console

Redirected == LoneIsAlone /\ LoneIsExact /\ InItsCall /\ ConsoleComesBack

LEMMA RedirectedInit == Init => Redirected
<1> SUFFICES ASSUME Init PROVE Redirected
  OBVIOUS
<1>1. /\ stdout = Console /\ printed = Nothing
      /\ caller = [c \in Calls |-> "idle"] /\ snippet = [c \in Calls |-> "none"]
      /\ saved = [c \in Calls |-> Console] /\ buffer = [c \in Calls |-> Nothing]
  BY DEF Init
<1>2. ASSUME NEW c \in Calls
      PROVE  snippet[c] = "none" /\ caller[c] = "idle" /\ saved[c] = Console /\ buffer[c] = Nothing
  BY <1>1
<1>3. ASSUME NEW c \in Calls PROVE ~Inside(c)
  <2>1. snippet[c] = "none"
    BY <1>2
  <2> QED
    BY <2>1, SMT DEF Inside
<1>4. LoneIsAlone
  BY <1>1, <1>2, <1>3, ConsoleAssumption DEF LoneIsAlone
<1>5. ASSUME NEW c \in Calls PROVE Own(c) = Nothing
  BY <1>1, SMT DEF Own, Nothing
<1>6. LoneIsExact
  BY <1>2, <1>5, SMT DEF LoneIsExact
<1>7. InItsCall /\ ConsoleComesBack
  <2>1. InItsCall
    <3> SUFFICES ASSUME NEW c \in Calls
                 PROVE  (caller[c] = "idle" => snippet[c] = "none") /\ caller[c] # "success"
      BY DEF InItsCall
    <3>1. snippet[c] = "none" /\ caller[c] = "idle"
      BY <1>2
    <3> QED
      BY <3>1, SMT
  <2> QED
    BY <1>1, <1>3, <2>1 DEF ConsoleComesBack
<1> QED
  BY <1>4, <1>6, <1>7 DEF Redirected

\* Whose redirection an Enter leaves undisturbed.
LEMMA EnterDisturbs ==
  ASSUME TypeOK, NEW c \in Calls, Enter(c), NEW d \in Calls, ~disturbed'[d]
  PROVE  /\ ~disturbed[d]
         /\ d # c => ~Inside(d)
         /\ d = c => \A e \in Calls : ~Inside(e)
<1>1. disturbed'[d] = (disturbed[d] \/ (d # c /\ Inside(d)) \/ (d = c /\ \E e \in Calls : Inside(e)))
  BY DEF Enter
<1> QED
  BY <1>1

LEMMA RedirectedEnter ==
  ASSUME TypeOK, Redirected, NEW c \in Calls, Enter(c)
  PROVE  Redirected'
<1>1. /\ snippet' = [snippet EXCEPT ![c] = "inside"] /\ snippet[c] = "started"
      /\ saved' = [saved EXCEPT ![c] = stdout] /\ stdout' = c
      /\ UNCHANGED <<caller, raised, buffer, answer, printed>>
  BY DEF Enter
<1>2. \A d \in Calls : Inside(d)' <=> d = c \/ Inside(d)
  BY <1>1, SMT DEF Inside, TypeOK
<1>3. \A d \in Calls : saved'[d] = IF d = c THEN stdout ELSE saved[d]
  BY <1>1, SMT DEF TypeOK
<1>4. LoneIsAlone'
  <2> SUFFICES ASSUME NEW d \in Calls, ~disturbed'[d]
               PROVE  /\ Inside(d)' => stdout' = d /\ \A e \in Calls : Inside(e)' => e = d
                      /\ stdout' = d => Inside(d)'
                      /\ \A e \in Calls : saved'[e] # d
    BY DEF LoneIsAlone
  <2>1. ~disturbed[d] /\ (d # c => ~Inside(d)) /\ (d = c => \A e \in Calls : ~Inside(e))
    BY EnterDisturbs
  <2>2. (stdout = d => Inside(d)) /\ \A e \in Calls : saved[e] # d
    BY <2>1 DEF Redirected, LoneIsAlone
  <2>3. stdout # d
    <3>1. ~Inside(d)
      BY <2>1
    <3> QED
      BY <2>2, <3>1
  <2>4. \A e \in Calls : saved'[e] # d
    BY <1>3, <2>2, <2>3
  <2>5. CASE d = c
    BY <1>1, <1>2, <2>1, <2>4, <2>5
  <2>6. CASE d # c
    BY <1>1, <1>2, <2>1, <2>4, <2>6
  <2> QED
    BY <2>5, <2>6
<1>5. LoneIsExact'
  <2> SUFFICES ASSUME NEW d \in Calls, ~disturbed'[d]
               PROVE  /\ buffer'[d] = Own(d)'
                      /\ caller'[d] = "success" => answer'[d] = Own(d)'
    BY DEF LoneIsExact
  <2>1. ~disturbed[d]
    BY EnterDisturbs
  <2>2. Own(d)' = Own(d)
    BY <1>1 DEF Own
  <2> QED
    BY <1>1, <2>1, <2>2 DEF Redirected, LoneIsExact
<1>6. InItsCall'
  BY <1>1, SMT DEF Redirected, InItsCall, TypeOK
<1>7. ConsoleComesBack'
  <2> SUFFICES ASSUME NobodyDisturbed'
               PROVE  /\ \A d \in Calls : Inside(d)' => saved'[d] = Console
                      /\ (\A d \in Calls : ~Inside(d)') => stdout' = Console
    BY DEF ConsoleComesBack
  <2>1. \A d \in Calls : ~disturbed'[d]
    BY DEF NobodyDisturbed
  <2>2. \A e \in Calls : ~Inside(e)
    BY <2>1, EnterDisturbs
  <2>3. NobodyDisturbed
    BY <2>1, EnterDisturbs DEF NobodyDisturbed
  <2>4. stdout = Console
    BY <2>2, <2>3 DEF Redirected, ConsoleComesBack
  <2> QED
    BY <1>2, <1>3, <2>2, <2>4
<1> QED
  BY <1>4, <1>5, <1>6, <1>7 DEF Redirected

LEMMA RedirectedPrint ==
  ASSUME TypeOK, Redirected, NEW c \in Calls, PrintUnit(c)
  PROVE  Redirected'
<1>1. /\ Inside(c)
      /\ printed' = [printed EXCEPT ![c] = @ + 1]
      /\ buffer' = [d \in Calls |-> IF d = stdout THEN [buffer[d] EXCEPT ![c] = @ + 1]
                                                  ELSE buffer[d]]
      /\ UNCHANGED <<stdout, caller, snippet, saved, raised, answer, disturbed>>
  BY DEF PrintUnit
<1>2. \A d \in Calls : Inside(d)' = Inside(d)
  BY <1>1 DEF Inside
<1>3. LoneIsAlone' /\ InItsCall' /\ ConsoleComesBack'
  BY <1>1, <1>2 DEF Redirected, LoneIsAlone, InItsCall, ConsoleComesBack, NobodyDisturbed
<1>4. LoneIsExact'
  <2> SUFFICES ASSUME NEW d \in Calls, ~disturbed[d]
               PROVE  /\ buffer'[d] = Own(d)'
                      /\ caller[d] = "success" => answer[d] = Own(d)'
    BY <1>1 DEF LoneIsExact
  <2>1. /\ buffer[d] = Own(d) /\ (caller[d] = "success" => answer[d] = Own(d))
        /\ Inside(d) => stdout = d /\ \A e \in Calls : Inside(e) => e = d
        /\ stdout = d => Inside(d)
        /\ caller[d] = "success" => snippet[d] = "ended"
    BY DEF Redirected, LoneIsAlone, LoneIsExact, InItsCall
  <2>2. CASE d = c
    <3>1. stdout = c /\ caller[c] # "success"
      BY <1>1, <2>1, <2>2, SMT DEF Inside
    <3>2. buffer'[c] = [Own(c) EXCEPT ![c] = @ + 1]
      BY <1>1, <2>1, <2>2, <3>1
    <3>3. [Own(c) EXCEPT ![c] = @ + 1] = Own(c)'
      <4>1. printed'[c] = printed[c] + 1
        BY <1>1, SMT DEF TypeOK, Counts
      <4>2. Own(c)[c] = printed[c]
        BY SMT DEF Own
      <4>3. ASSUME NEW e \in Calls PROVE [Own(c) EXCEPT ![c] = @ + 1][e] = Own(c)'[e]
        BY <4>1, SMT DEF Own
      <4> DEFINE f == [Own(c) EXCEPT ![c] = @ + 1]
      <4>4. f = [e \in Calls |-> f[e]]
        BY DEF Own
      <4>5. Own(c)' = [e \in Calls |-> Own(c)'[e]]
        BY DEF Own
      <4> HIDE DEF f
      <4>6. [e \in Calls |-> f[e]] = [e \in Calls |-> Own(c)'[e]]
        BY <4>3 DEF f
      <4> QED
        BY <4>4, <4>5, <4>6 DEF f
    <3> QED
      BY <2>2, <3>1, <3>2, <3>3
  <2>3. CASE d # c
    <3>1. stdout # d
      BY <1>1, <2>1, <2>3
    <3>2. buffer'[d] = buffer[d]
      BY <1>1, <3>1, SMT
    <3>3. Own(d)' = Own(d)
      BY <1>1, <2>3, SMT DEF Own, TypeOK, Counts
    <3> QED
      BY <2>1, <3>2, <3>3
  <2> QED
    BY <2>2, <2>3
<1> QED
  BY <1>3, <1>4 DEF Redirected

LEMMA RedirectedExit ==
  ASSUME TypeOK, Redirected, NEW c \in Calls, Exit(c)
  PROVE  Redirected'
<1>1. /\ Inside(c) /\ snippet' = [snippet EXCEPT ![c] = "ended"] /\ stdout' = saved[c]
      /\ UNCHANGED <<caller, saved, buffer, answer, printed, disturbed>>
  BY DEF Exit
<1>2. \A d \in Calls : Inside(d)' <=> d # c /\ Inside(d)
  BY <1>1, SMT DEF Inside, TypeOK
<1>3. LoneIsAlone'
  <2> SUFFICES ASSUME NEW d \in Calls, ~disturbed[d]
               PROVE  /\ Inside(d)' => stdout' = d /\ \A e \in Calls : Inside(e)' => e = d
                      /\ stdout' = d => Inside(d)'
                      /\ \A e \in Calls : saved'[e] # d
    BY <1>1 DEF LoneIsAlone
  <2>1. /\ Inside(d) => \A e \in Calls : Inside(e) => e = d
        /\ \A e \in Calls : saved[e] # d
    BY DEF Redirected, LoneIsAlone
  <2>2. stdout' # d
    BY <1>1, <2>1
  <2>3. ~Inside(d)'
    BY <1>1, <1>2, <2>1
  <2> QED
    BY <1>1, <2>1, <2>2, <2>3
<1>4. LoneIsExact'
  <2>1. \A d \in Calls : Own(d)' = Own(d)
    BY <1>1 DEF Own
  <2> QED
    BY <1>1, <2>1 DEF Redirected, LoneIsExact
<1>5. InItsCall'
  BY <1>1, SMT DEF Redirected, InItsCall, Inside, TypeOK
<1>6. ConsoleComesBack'
  BY <1>1, <1>2 DEF Redirected, ConsoleComesBack, NobodyDisturbed
<1> QED
  BY <1>3, <1>4, <1>5, <1>6 DEF Redirected

\* The caller's own steps concern no redirection.
LEMMA RedirectedCaller ==
  ASSUME TypeOK, Redirected, NEW c \in Calls,
         Refuse(c) \/ Start(c) \/ Join(c) \/ GiveUp(c) \/ UNCHANGED vars
  PROVE  Redirected'
<1>1. UNCHANGED <<stdout, saved, buffer, printed, disturbed>>
  BY DEF Refuse, Start, Join, GiveUp, vars
<1>2. ASSUME NEW d \in Calls PROVE Inside(d)' = Inside(d)
  <2>1. snippet' = snippet \/ Start(c)
    BY DEF Refuse, Join, GiveUp, vars
  <2>2. Start(c) => Inside(d)' = Inside(d)
    BY SMT DEF Start, Inside, TypeOK, Redirected, InItsCall
  <2> QED
    BY <2>1, <2>2 DEF Inside
<1>3. LoneIsAlone' /\ ConsoleComesBack'
  BY <1>1, <1>2 DEF Redirected, LoneIsAlone, ConsoleComesBack, NobodyDisturbed
<1>4. InItsCall'
  <2> SUFFICES ASSUME NEW d \in Calls
               PROVE  /\ caller'[d] = "idle" => snippet'[d] = "none"
                      /\ caller'[d] = "success" => snippet'[d] = "ended"
    BY DEF InItsCall
  <2>1. /\ caller[d] = "idle" => snippet[d] = "none"
        /\ caller[d] = "success" => snippet[d] = "ended"
    BY DEF Redirected, InItsCall
  <2>2. CASE UNCHANGED vars
    BY <2>1, <2>2 DEF vars
  <2>3. CASE Refuse(c) \/ Start(c) \/ GiveUp(c)
    BY <2>1, <2>3, SMT DEF Refuse, Start, GiveUp, TypeOK
  <2>4. CASE Join(c)
    BY <2>1, <2>4, SMT DEF Join, TypeOK
  <2> QED
    BY <2>2, <2>3, <2>4
<1>5. LoneIsExact'
  <2> SUFFICES ASSUME NEW d \in Calls, ~disturbed[d]
               PROVE  /\ buffer'[d] = Own(d)'
                      /\ caller'[d] = "success" => answer'[d] = Own(d)'
    BY <1>1 DEF LoneIsExact
  <2>1. Own(d)' = Own(d)
    BY <1>1 DEF Own
  <2>2. buffer[d] = Own(d) /\ (caller[d] = "success" => answer[d] = Own(d))
    BY DEF Redirected, LoneIsExact
  <2>3. caller'[d] = "success" => answer'[d] = buffer[d] \/ (caller[d] = "success" /\ answer'[d] = answer[d])
    BY SMT DEF Refuse, Start, Join, GiveUp, vars, TypeOK
  <2> QED
    BY <1>1, <2>1, <2>2, <2>3
<1> QED
  BY <1>3, <1>4, <1>5 DEF Redirected

LEMMA RedirectedAlways == Spec => []Redirected
<1>1. TypeOK /\ Redirected /\ [Next]_vars => Redirected'
  <2> SUFFICES ASSUME TypeOK, Redirected, [Next]_vars PROVE Redirected'
    OBVIOUS
  <2>1. CASE UNCHANGED vars
    <3>1. \A c \in Calls : Inside(c)' = Inside(c) /\ Own(c)' = Own(c)
      BY <2>1 DEF vars, Inside, Own
    <3> QED
      BY <2>1, <3>1 DEF vars, Redirected, LoneIsAlone, LoneIsExact, InItsCall,
                        ConsoleComesBack, NobodyDisturbed
  <2>2. CASE Next
    BY <2>2, RedirectedEnter, RedirectedPrint, RedirectedExit, RedirectedCaller DEF Next, Await
  <2> QED
    BY <2>1, <2>2
<1> QED
  BY <1>1, TypeCorrect, RedirectedInit, PTL DEF Spec

-----------------------------------------------------------------------------
(* What follows of them.                                                   *)

\* A call that shared its redirection with no other returns exactly what its snippet
\* printed, for any number of calls, abandoned snippets and prints (python_repl).
THEOREM LoneCallsExact == Spec => []LoneCallsAreExact
<1>1. Redirected => LoneCallsAreExact
  BY DEF Redirected, LoneIsExact, Own, LoneCallsAreExact
<1> QED
  BY <1>1, RedirectedAlways, PTL

\* Without overlaps the process has its console back whenever no snippet is running,
\* however the snippets ended (_run_in_namespace's redirect_stdout).
THEOREM ConsoleReturns == Spec => []ConsoleIsRestored
<1>1. Redirected => ConsoleIsRestored
  BY DEF Redirected, ConsoleComesBack, NobodyDisturbed, ConsoleIsRestored
<1> QED
  BY <1>1, RedirectedAlways, PTL

=============================================================================
