------------------------------ MODULE PythonRepl ------------------------------
(***************************************************************************)
(* The python_repl tool under concurrent calls.  Each call validates its   *)
(* snippet, runs it in a daemon thread of its own with a namespace and an  *)
(* output buffer of its own, and waits five seconds for it.  What is not   *)
(* its own is sys.stdout: contextlib.redirect_stdout replaces the process's*)
(* stream on entry and puts back on exit whatever it found on entry, and a *)
(* snippet that is still running when its call has given up keeps doing so.*)
(*                                                                         *)
(* Each element of Calls is one call of the tool, made at most once.  What *)
(* is printed is counted in units, by the call whose snippet prints it.    *)
(***************************************************************************)
EXTENDS Naturals

CONSTANTS
  Calls,      \* calls of the tool
  Console,    \* the stream sys.stdout is when the process starts
  MaxPrints   \* bound: units one snippet prints

ASSUME ConsoleAssumption == Console \notin Calls
ASSUME PrintsAssumption == MaxPrints \in Nat

VARIABLES
  stdout,    \* sys.stdout: the console, or the buffer of a call
  caller,    \* what each call's own thread is doing, or how the call ended
  snippet,   \* what its daemon thread is doing
  saved,     \* what redirect_stdout found on entry
  raised,    \* nonlocal error: the snippet ended in an exception
  buffer,    \* buffer[c][d]: units of d's output in the StringIO of c
  answer,    \* the stdout field of a successful call
  printed,   \* observer: units the snippet has printed
  disturbed  \* observer: another snippet was inside its redirection meanwhile

vars == <<stdout, caller, snippet, saved, raised, buffer, answer, printed, disturbed>>

-----------------------------------------------------------------------------
Streams  == Calls \cup {Console}
Answered == {"success", "error", "timeout"}
Nothing  == [d \in Calls |-> 0]

Inside(c) == snippet[c] = "inside"

Init ==
  /\ stdout = Console
  /\ caller = [c \in Calls |-> "idle"]
  /\ snippet = [c \in Calls |-> "none"]
  /\ saved = [c \in Calls |-> Console]
  /\ raised = [c \in Calls |-> FALSE]
  /\ buffer = [c \in Calls |-> Nothing]
  /\ answer = [c \in Calls |-> Nothing]
  /\ printed = Nothing
  /\ disturbed = [c \in Calls |-> FALSE]

\* _validate_ast() refuses the snippet, or it does not parse: run_structured()
\* makes an error of the exception and no thread is started.
Refuse(c) ==
  /\ caller[c] = "idle" /\ caller' = [caller EXCEPT ![c] = "error"]
  /\ UNCHANGED <<stdout, snippet, saved, raised, buffer, answer, printed, disturbed>>

\* A fresh namespace and a fresh buffer, thread.start(), thread.join(timeout).
Start(c) ==
  /\ caller[c] = "idle" /\ caller' = [caller EXCEPT ![c] = "joining"]
  /\ snippet' = [snippet EXCEPT ![c] = "started"]
  /\ UNCHANGED <<stdout, saved, raised, buffer, answer, printed, disturbed>>

\* redirect_stdout.__enter__: remember the stream of the moment, install one's own.
Enter(c) ==
  /\ snippet[c] = "started" /\ snippet' = [snippet EXCEPT ![c] = "inside"]
  /\ saved' = [saved EXCEPT ![c] = stdout]
  /\ stdout' = c
  /\ disturbed' = [d \in Calls |-> \/ disturbed[d]
                                   \/ d # c /\ Inside(d)
                                   \/ d = c /\ \E e \in Calls : Inside(e)]
  /\ UNCHANGED <<caller, raised, buffer, answer, printed>>

\* print() looks sys.stdout up when it is called.
PrintUnit(c) ==
  /\ Inside(c) /\ printed[c] < MaxPrints
  /\ printed' = [printed EXCEPT ![c] = @ + 1]
  /\ buffer' = [d \in Calls |-> IF d = stdout THEN [buffer[d] EXCEPT ![c] = @ + 1]
                                              ELSE buffer[d]]
  /\ UNCHANGED <<stdout, caller, snippet, saved, raised, answer, disturbed>>

\* Mutant: the stream is put back after the snippet, but not after its exception.
ExitWithoutFinally(c) ==
  /\ Inside(c) /\ snippet' = [snippet EXCEPT ![c] = "ended"]
  /\ \E error \in BOOLEAN : /\ raised' = [raised EXCEPT ![c] = error]
                            /\ stdout' = IF error THEN stdout ELSE saved[c]
  /\ UNCHANGED <<caller, saved, buffer, answer, printed, disturbed>>

\* The snippet ends or raises; redirect_stdout.__exit__ puts back what it saved,
\* whatever the stream is by now.
Exit(c) ==
  /\ Inside(c) /\ snippet' = [snippet EXCEPT ![c] = "ended"]
  /\ \E error \in BOOLEAN : raised' = [raised EXCEPT ![c] = error]
  /\ stdout' = saved[c]
  /\ UNCHANGED <<caller, saved, buffer, answer, printed, disturbed>>

\* Mutant: the output is read off the stream of the moment.
JoinReadingCurrentStream(c) ==
  /\ caller[c] = "joining" /\ snippet[c] = "ended"
  /\ caller' = [caller EXCEPT ![c] = IF raised[c] THEN "error" ELSE "success"]
  /\ answer' = [answer EXCEPT ![c] = IF raised[c] \/ stdout = Console THEN Nothing
                                     ELSE buffer[stdout]]
  /\ UNCHANGED <<stdout, snippet, saved, raised, buffer, printed, disturbed>>

\* join() returns with the thread dead: its exception is raised again and becomes an
\* error, or the buffer's contents are the answer.
Join(c) ==
  /\ caller[c] = "joining" /\ snippet[c] = "ended"
  /\ caller' = [caller EXCEPT ![c] = IF raised[c] THEN "error" ELSE "success"]
  /\ answer' = [answer EXCEPT ![c] = IF raised[c] THEN Nothing ELSE buffer[c]]
  /\ UNCHANGED <<stdout, snippet, saved, raised, buffer, printed, disturbed>>

\* Mutant: the tool returns without a result.
GiveUpSilently(c) ==
  /\ caller[c] = "joining" /\ snippet[c] \in {"started", "inside"}
  /\ caller' = [caller EXCEPT ![c] = "none"]
  /\ UNCHANGED <<stdout, snippet, saved, raised, buffer, answer, printed, disturbed>>

\* Five seconds are over and the thread is alive: it is abandoned.  Nothing says that this
\* ever happens: join() cannot return, after whatever time, while the snippet is in a
\* built-in that keeps the interpreter's lock, such as sum() over a long range().
GiveUp(c) ==
  /\ caller[c] = "joining" /\ snippet[c] \in {"started", "inside"}
  /\ caller' = [caller EXCEPT ![c] = "timeout"]
  /\ UNCHANGED <<stdout, snippet, saved, raised, buffer, answer, printed, disturbed>>

Await(c) == Join(c) \/ GiveUp(c)

Next == \E c \in Calls :
          Refuse(c) \/ Start(c) \/ Enter(c) \/ PrintUnit(c) \/ Exit(c) \/ Await(c)

Spec == Init /\ [][Next]_vars

-----------------------------------------------------------------------------
(* Properties. *)

Counts == [Calls -> Nat]

TypeOK ==
  /\ stdout \in Streams
  /\ caller \in [Calls -> {"idle", "joining"} \cup Answered]
  /\ snippet \in [Calls -> {"none", "started", "inside", "ended"}]
  /\ saved \in [Calls -> Streams]
  /\ raised \in [Calls -> BOOLEAN]
  /\ buffer \in [Calls -> Counts] /\ answer \in [Calls -> Counts]
  /\ printed \in Counts
  /\ disturbed \in [Calls -> BOOLEAN]

\* A call whose snippet shared its redirection with no other returns exactly what the
\* snippet printed: all of it, and nothing of anybody else's, whatever abandoned or
\* overlapping snippets before it have left sys.stdout to be.
LoneCallsAreExact ==
  \A c \in Calls : caller[c] = "success" /\ ~disturbed[c] =>
    answer[c] = [d \in Calls |-> IF d = c THEN printed[c] ELSE 0]

\* As long as no two snippets were ever redirecting at once, the process has its
\* console back whenever none of them is running, however they ended.
ConsoleIsRestored ==
  (\A c \in Calls : ~disturbed[c] /\ ~Inside(c)) => stdout = Console

=============================================================================
